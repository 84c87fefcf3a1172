----------------------------- MODULE InboxProofs -----------------------------
(***************************************************************************)
(* The inbox's safety properties, proved for every number of peers, every  *)
(* cap, and every set of credentials, pointers and difficulty records.     *)
(***************************************************************************)
EXTENDS Inbox, CappedLogTheorems

-----------------------------------------------------------------------------
(* Sets of pointers: their order, the fairness cap, the cut to k *)

\* One pointer a reply post: what a pointer log of the code is.
OnePost(S) == \A p, q \in S : p.post = q.post => p = q

Log == {E \in SUBSET Pointer : OnePost(E)}

\* The newest of every group, as many as its cap allows.
Fair(S) == {p \in S : Cardinality(Newer(PointerOrder, Group(S, p), p)) < fp_cap(p)}

\* No group is over its cap.
IsFair(S) == \A p \in S : Cardinality(Group(S, p)) <= fp_cap(p)

\* A tier: the fairness cap, then the newest k.
Cut(k, S) == Newest(PointerOrder, k, Fair(S))

\* The fields of a pointer, and the cap of its fingerprint.
LEMMA PointerTypes ==
  ASSUME NEW p \in Pointer
  PROVE  /\ p.post \in Nat /\ p.time \in Nat /\ p.replier \in Nat /\ p.bits \in Nat
         /\ p.fp \in Fingerprint /\ p.fp.anon \in BOOLEAN
         /\ fp_cap(p) \in Nat \ {0}
BY InboxAssumption DEF PointerType, Fingerprint, fp_cap, is_anon

\* The order is transitive on all pointers; within a log it is total.
LEMMA OrderTransitive ==
  ASSUME NEW x \in Pointer, NEW y \in Pointer, NEW z \in Pointer
  PROVE  /\ <<x, x>> \notin PointerOrder
         /\ <<x, y>> \in PointerOrder /\ <<y, z>> \in PointerOrder => <<x, z>> \in PointerOrder
         /\ x.post # y.post => <<x, y>> \in PointerOrder \/ <<y, x>> \in PointerOrder
<1>1. \A p, q \in Pointer : <<p, q>> \in PointerOrder <=>
        p.time < q.time \/ (p.time = q.time /\ p.post < q.post)
  BY DEF PointerOrder
<1>2. \A p \in Pointer : p.time \in Nat /\ p.post \in Nat
  BY PointerTypes
<1> QED BY <1>1, <1>2

\* A log is finite and totally ordered, oldest pointer first.
LEMMA LogOrder ==
  ASSUME NEW E \in Log
  PROVE  /\ StrictTotalOrder(PointerOrder, E)
         /\ E \subseteq Pointer
         /\ \A S \in SUBSET E : IsFiniteSet(S) /\ Cardinality(S) \in Nat
<1>1. E \subseteq Pointer
  BY DEF Log
<1>2. \A x, y \in E : x = y \/ <<x, y>> \in PointerOrder \/ <<y, x>> \in PointerOrder
  BY <1>1, OrderTransitive DEF Log, OnePost
<1>3. StrictTotalOrder(PointerOrder, E)
  BY <1>1, <1>2, OrderTransitive DEF StrictTotalOrder
<1>4. \A S \in SUBSET E : IsFiniteSet(S) /\ Cardinality(S) \in Nat
  BY <1>1, InboxAssumption, FS_Subset, FS_CardinalityType
<1> QED BY <1>1, <1>3, <1>4

\* Two logs of one world, one inside the other, and what is counted in them.
LEMMA LogSubset ==
  ASSUME NEW E \in Log, NEW S \in SUBSET E
  PROVE  /\ S \in Log
         /\ \A x : Newer(PointerOrder, S, x) \in SUBSET S
         /\ \A x : Group(S, x) \in SUBSET S
         /\ \A x : Cardinality(Newer(PointerOrder, S, x)) \in Nat
         /\ \A x : Cardinality(Newer(PointerOrder, Group(S, x), x)) \in Nat
         /\ Fair(S) \in SUBSET S
         /\ \A k : Cut(k, S) \in SUBSET S
<1>1. S \in Log
  BY DEF Log, OnePost
<1>2. /\ \A x : Newer(PointerOrder, S, x) \in SUBSET S
      /\ \A x : Group(S, x) \in SUBSET S
      /\ \A x : Newer(PointerOrder, Group(S, x), x) \in SUBSET S
      /\ Fair(S) \in SUBSET S
  BY DEF Newer, Group, Fair
<1>3. \A T \in SUBSET S : Cardinality(T) \in Nat
  BY LogOrder
<1>4. \A k : Cut(k, S) \in SUBSET S
  BY <1>2 DEF Cut, Newest
<1> QED BY <1>1, <1>2, <1>3, <1>4

\* Fair keeps the newest of every group.
LEMMA FairGroups ==
  ASSUME NEW E \in Log, NEW S \in SUBSET E, NEW x \in Pointer
  PROVE  Group(Fair(S), x) = Newest(PointerOrder, fp_cap(x), Group(S, x))
<1>1. \A p \in Group(S, x) : Group(S, p) = Group(S, x) /\ fp_cap(p) = fp_cap(x)
  BY DEF Group, fp_cap, is_anon
<1>2. \A p \in Group(S, x) : p \in Fair(S)
        <=> Cardinality(Newer(PointerOrder, Group(S, x), p)) < fp_cap(x)
  BY <1>1 DEF Fair, Group
<1>3. \A p : p \in Group(Fair(S), x) <=> p \in Group(S, x) /\ p \in Fair(S)
  BY DEF Group, Fair
<1> QED BY <1>2, <1>3 DEF Newest

\* Fair leaves no fingerprint more pointers than its cap.
LEMMA FairIsFair ==
  ASSUME NEW E \in Log, NEW S \in SUBSET E
  PROVE  IsFair(Fair(S))
<1> SUFFICES ASSUME NEW p \in Fair(S)
             PROVE  Cardinality(Group(Fair(S), p)) <= fp_cap(p)
  BY DEF IsFair
<1>1. p \in Pointer /\ Group(S, p) \in SUBSET E
  BY LogOrder DEF Fair, Group
<1>2. StrictTotalOrder(PointerOrder, E) /\ IsFiniteSet(Group(S, p)) /\ fp_cap(p) \in Nat
  BY <1>1, LogOrder, PointerTypes
<1>3. Cardinality(Newest(PointerOrder, fp_cap(p), Group(S, p))) <= fp_cap(p)
  BY <1>1, <1>2, NewestBounded
<1> QED BY <1>1, <1>3, FairGroups

\* A fair log loses nothing to the fairness cap, nor does a part of it.
LEMMA FairOfFair ==
  ASSUME NEW E \in Log, NEW S \in SUBSET E, IsFair(S)
  PROVE  Fair(S) = S /\ \A T \in SUBSET S : IsFair(T)
<1>1. ASSUME NEW T \in SUBSET S, NEW p \in T
      PROVE  Cardinality(Group(T, p)) <= fp_cap(p)
  <2>1. Group(T, p) \in SUBSET Group(S, p) /\ Group(S, p) \in SUBSET E /\ p \in Pointer
    BY LogOrder DEF Group
  <2>2. /\ IsFiniteSet(Group(S, p)) /\ Cardinality(Group(S, p)) \in Nat
        /\ Cardinality(Group(T, p)) \in Nat /\ fp_cap(p) \in Nat
    BY <2>1, LogOrder, PointerTypes
  <2>3. Cardinality(Group(T, p)) <= Cardinality(Group(S, p))
    BY <2>1, <2>2, FS_Subset
  <2>4. Cardinality(Group(S, p)) <= fp_cap(p)
    BY DEF IsFair
  <2> QED BY <2>2, <2>3, <2>4
<1>2. ASSUME NEW p \in S PROVE p \in Fair(S)
  <2>1. /\ StrictTotalOrder(PointerOrder, E) /\ p \in Pointer
        /\ Group(S, p) \in SUBSET E /\ p \in Group(S, p)
    BY LogOrder DEF Group
  <2>2. IsFiniteSet(Group(S, p)) /\ fp_cap(p) \in Nat
    BY <2>1, LogOrder, PointerTypes
  <2>3. Newest(PointerOrder, fp_cap(p), Group(S, p)) = Group(S, p)
    BY <2>1, <2>2, NewestOfFew DEF IsFair
  <2>4. Group(Fair(S), p) = Group(S, p)
    BY <2>1, <2>3, FairGroups
  <2> QED BY <2>1, <2>4 DEF Group
<1> QED BY <1>1, <1>2 DEF Fair, IsFair

\* The groups of a fair P are no larger than those that Q, which has all of P,
\* keeps of its own.
LEMMA FairGroupCount ==
  ASSUME NEW E \in Log, NEW Q \in SUBSET E, NEW P \in SUBSET Q, IsFair(P), NEW x \in P
  PROVE  Cardinality(Group(P, x)) <= Cardinality(Group(Fair(Q), x))
<1> DEFINE G == Group(Q, x)
           F == Newest(PointerOrder, fp_cap(x), G)
<1>1. /\ StrictTotalOrder(PointerOrder, E) /\ x \in Pointer /\ x \in E
      /\ G \in SUBSET E /\ Group(P, x) \in SUBSET G /\ Group(P, x) \in SUBSET E
  BY LogOrder DEF Group
<1>2. /\ IsFiniteSet(G) /\ fp_cap(x) \in Nat /\ Cardinality(Group(P, x)) \in Nat
      /\ Cardinality(Group(P, x)) <= fp_cap(x)
  BY <1>1, LogOrder, PointerTypes DEF IsFair
<1> HIDE DEF G
<1>3. F \in SUBSET G /\ IsFiniteSet(F) /\ Cardinality(F) \in Nat
  BY <1>1, <1>2, NewestBounded
<1>4. Group(Fair(Q), x) = F
  BY <1>1, FairGroups DEF G
<1>5. CASE F = G
  BY <1>1, <1>3, <1>4, <1>5, FS_Subset
<1>6. CASE F # G
  <2>1. PICK y \in G : ~(Cardinality(Newer(PointerOrder, G, y)) < fp_cap(x))
    BY <1>6 DEF Newest
  <2>2. ~(Cardinality(Newer(PointerOrder, F, y)) < fp_cap(x))
    BY <1>1, <1>2, <2>1, NewestPushesOut
  <2> HIDE DEF F
  <2>3. Newer(PointerOrder, F, y) \in SUBSET F
    BY DEF Newer
  <2>4. /\ Cardinality(Newer(PointerOrder, F, y)) \in Nat
        /\ Cardinality(Newer(PointerOrder, F, y)) <= Cardinality(F)
    BY <1>3, <2>3, FS_Subset, FS_CardinalityType
  <2> QED BY <1>2, <1>3, <1>4, <2>2, <2>4
<1> QED BY <1>5, <1>6

\* A finite set injects into one that is no smaller.
LEMMA InjectionExists ==
  ASSUME NEW S, NEW T, IsFiniteSet(S), IsFiniteSet(T), Cardinality(S) <= Cardinality(T)
  PROVE  Injection(S, T) # {}
<1> DEFINE n == Cardinality(S)
           m == Cardinality(T)
<1>1. n \in Nat /\ m \in Nat
  BY FS_CardinalityType
<1>2. PICK f \in Bijection(1 .. n, S) : TRUE
  BY FS_CardinalityType DEF ExistsBijection
<1>3. PICK g \in Bijection(1 .. m, T) : TRUE
  BY FS_CardinalityType DEF ExistsBijection
<1> HIDE DEF n, m
<1>4. /\ f \in [1 .. n -> S] /\ \A s \in S : \E i \in 1 .. n : f[i] = s
      /\ g \in [1 .. m -> T] /\ \A i, j \in 1 .. m : g[i] = g[j] => i = j
  BY DEF Bijection, Injection, Surjection, IsInjective
<1> DEFINE h == [s \in S |-> CHOOSE i \in 1 .. n : f[i] = s]
           e == [s \in S |-> g[h[s]]]
<1>5. \A s \in S : h[s] \in 1 .. n /\ f[h[s]] = s
  BY <1>4
<1>6. \A i \in 1 .. n : i \in 1 .. m
  BY <1>1 DEF n, m
<1>7. e \in [S -> T]
  BY <1>4, <1>5, <1>6
<1>8. ASSUME NEW s \in S, NEW t \in S, e[s] = e[t] PROVE s = t
  <2>1. h[s] = h[t]
    BY <1>4, <1>5, <1>6, <1>8
  <2> QED BY <1>5, <2>1
<1> HIDE DEF e
<1> QED BY <1>7, <1>8 DEF Injection, IsInjective

(***************************************************************************)
(* Fairness evicts no more than it must: a fair P is no larger than what   *)
(* the fairness cap leaves of a Q that has all of P.                       *)
(***************************************************************************)
LEMMA FairCount ==
  ASSUME NEW E \in Log, NEW Q \in SUBSET E, NEW P \in SUBSET Q, IsFair(P)
  PROVE  Cardinality(P) <= Cardinality(Fair(Q))
<1> DEFINE F == Fair(Q)
           I(x) == Injection(Group(P, x), Group(F, x))
           f == [x \in P |-> (CHOOSE i \in I(x) : TRUE)[x]]
<1>1. P \in SUBSET E /\ F \in SUBSET E
  BY LogSubset
<1> HIDE DEF F
<1>2. ASSUME NEW x \in P PROVE I(x) # {}
  <2>1. Group(P, x) \in SUBSET E /\ Group(F, x) \in SUBSET E
    BY <1>1 DEF Group
  <2>2. IsFiniteSet(Group(P, x)) /\ IsFiniteSet(Group(F, x))
    BY <2>1, LogOrder
  <2>3. Cardinality(Group(P, x)) <= Cardinality(Group(F, x))
    BY FairGroupCount DEF F
  <2> QED BY <2>2, <2>3, InjectionExists
<1>3. ASSUME NEW x \in P PROVE (CHOOSE i \in I(x) : TRUE) \in I(x)
  BY <1>2
<1>4. ASSUME NEW x \in P PROVE x \in Group(P, x)
  BY DEF Group
<1>5. ASSUME NEW x \in P PROVE f[x] \in Group(F, x)
  BY <1>3, <1>4 DEF Injection
<1>6. ASSUME NEW x \in P PROVE f[x] \in F /\ f[x].fp = x.fp
  BY <1>5 DEF Group
<1>7. ASSUME NEW x \in P, NEW y \in P, f[x] = f[y] PROVE x = y
  <2>1. x.fp = y.fp
    BY <1>6, <1>7
  <2>2. Group(P, x) = Group(P, y) /\ Group(F, x) = Group(F, y)
    BY <2>1 DEF Group
  <2>3. I(x) = I(y)
    BY <2>2
  <2> DEFINE i == CHOOSE i \in I(x) : TRUE
  <2>4. f[x] = i[x] /\ f[y] = i[y]
    BY <2>3
  <2>5. i \in I(x) /\ x \in Group(P, x) /\ y \in Group(P, x)
    BY <1>3, <1>4, <2>2
  <2> HIDE DEF i, f
  <2> QED BY <1>7, <2>4, <2>5 DEF Injection, IsInjective
<1>8. f \in Injection(P, F)
  <2>1. f \in [P -> F]
    BY <1>6
  <2> HIDE DEF f
  <2> QED BY <1>7, <2>1 DEF Injection, IsInjective
<1>9. IsFiniteSet(F)
  BY <1>1, LogOrder
<1> HIDE DEF f
<1> QED BY <1>8, <1>9, FS_Injection DEF F

\* What is newer than x of the fair part, is the fair part of what is newer.
LEMMA FairNewer ==
  ASSUME NEW E \in Log, NEW S \in SUBSET E, NEW x \in Pointer
  PROVE  Newer(PointerOrder, Fair(S), x) = Fair(Newer(PointerOrder, S, x))
<1>1. ASSUME NEW y \in S, <<x, y>> \in PointerOrder
      PROVE  Newer(PointerOrder, Group(S, y), y)
               = Newer(PointerOrder, Group(Newer(PointerOrder, S, x), y), y)
  <2>1. E \subseteq Pointer
    BY LogOrder
  <2>2. \A z \in S : <<y, z>> \in PointerOrder => <<x, z>> \in PointerOrder
    BY <1>1, <2>1, OrderTransitive
  <2> QED BY <2>2 DEF Newer, Group
<1>2. ASSUME NEW y
      PROVE  y \in Newer(PointerOrder, Fair(S), x) <=> y \in Fair(Newer(PointerOrder, S, x))
  <2>1. y \in Newer(PointerOrder, Fair(S), x) <=>
          /\ y \in S /\ <<x, y>> \in PointerOrder
          /\ Cardinality(Newer(PointerOrder, Group(S, y), y)) < fp_cap(y)
    BY DEF Newer, Fair
  <2>2. y \in Fair(Newer(PointerOrder, S, x)) <=>
          /\ y \in S /\ <<x, y>> \in PointerOrder
          /\ Cardinality(Newer(PointerOrder, Group(Newer(PointerOrder, S, x), y), y)) < fp_cap(y)
    BY DEF Newer, Fair
  <2> QED BY <1>1, <2>1, <2>2
<1> QED BY <1>2

\* What a fair P pushes out, the fair part of a Q that has all of P does.
LEMMA FairPushesOut ==
  ASSUME NEW E \in Log, NEW Q \in SUBSET E, NEW P \in SUBSET Q, IsFair(P),
         NEW x \in Pointer, NEW k \in Nat,
         ~(Cardinality(Newer(PointerOrder, P, x)) < k)
  PROVE  ~(Cardinality(Newer(PointerOrder, Fair(Q), x)) < k)
<1> DEFINE N == Newer(PointerOrder, P, x)
           M == Newer(PointerOrder, Q, x)
<1>1. /\ P \in SUBSET E /\ M \in SUBSET E
      /\ N \in SUBSET M /\ N \in SUBSET P
  BY DEF Newer
<1>2. IsFair(N)
  BY <1>1, FairOfFair
<1> HIDE DEF N, M
<1>3. Cardinality(N) <= Cardinality(Fair(M))
  BY <1>1, <1>2, FairCount
<1>4. Newer(PointerOrder, Fair(Q), x) = Fair(M)
  BY FairNewer DEF M
<1>5. Fair(M) \in SUBSET E /\ N \in SUBSET E
  BY <1>1 DEF Fair
<1>6. Cardinality(N) \in Nat /\ Cardinality(Fair(M)) \in Nat
  BY <1>5, LogOrder
<1> QED BY <1>3, <1>4, <1>6 DEF N

\* Pushing out is upward closed: what has k newer than it, so has whatever is
\* older.
LEMMA OlderGoesToo ==
  ASSUME NEW E \in Log, NEW T \in SUBSET E, NEW k \in Nat, NEW x \in Pointer, NEW y \in Pointer,
         <<x, y>> \in PointerOrder,
         ~(Cardinality(Newer(PointerOrder, T, y)) < k)
  PROVE  ~(Cardinality(Newer(PointerOrder, T, x)) < k)
<1>0. \A z \in T : z \in Pointer
  BY LogOrder
<1>1. Newer(PointerOrder, T, y) \in SUBSET Newer(PointerOrder, T, x)
  BY <1>0, OrderTransitive DEF Newer
<1>2. Newer(PointerOrder, T, x) \in SUBSET E /\ Newer(PointerOrder, T, y) \in SUBSET E
  BY DEF Newer
<1>3. /\ IsFiniteSet(Newer(PointerOrder, T, x))
      /\ Cardinality(Newer(PointerOrder, T, x)) \in Nat
      /\ Cardinality(Newer(PointerOrder, T, y)) \in Nat
  BY <1>2, LogOrder
<1>4. Cardinality(Newer(PointerOrder, T, y)) <= Cardinality(Newer(PointerOrder, T, x))
  BY <1>1, <1>3, FS_Subset
<1> QED BY <1>3, <1>4

\* A cut to k is fair, and keeps at most k of the pointers it is given.
LEMMA CutBounded ==
  ASSUME NEW E \in Log, NEW S \in SUBSET E, NEW k \in Nat
  PROVE  /\ Cut(k, S) \in SUBSET S /\ Cut(k, S) \in SUBSET E
         /\ IsFair(Cut(k, S))
         /\ Cardinality(Cut(k, S)) \in Nat /\ Cardinality(Cut(k, S)) <= k
<1>1. /\ Fair(S) \in SUBSET S /\ Fair(S) \in SUBSET E
      /\ StrictTotalOrder(PointerOrder, E)
  BY LogSubset, LogOrder
<1>2. IsFiniteSet(Fair(S)) /\ IsFair(Fair(S))
  BY <1>1, LogOrder, FairIsFair
<1>3. /\ Cut(k, S) \in SUBSET Fair(S)
      /\ Cardinality(Cut(k, S)) \in Nat /\ Cardinality(Cut(k, S)) <= k
  BY <1>1, <1>2, NewestBounded DEF Cut
<1>4. IsFair(Cut(k, S))
  BY <1>1, <1>2, <1>3, FairOfFair
<1> QED BY <1>1, <1>3, <1>4

\* A fair log within k is its own cut.
LEMMA CutOfFew ==
  ASSUME NEW E \in Log, NEW S \in SUBSET E, IsFair(S), NEW k \in Nat, Cardinality(S) <= k
  PROVE  Cut(k, S) = S
<1>1. Fair(S) = S /\ StrictTotalOrder(PointerOrder, E) /\ IsFiniteSet(S)
  BY FairOfFair, LogOrder
<1> QED BY <1>1, NewestOfFew DEF Cut

\* What a cut leaves out of its fair part is older than the whole cut, and so
\* is whatever is older still.
LEMMA CutPushesOut ==
  ASSUME NEW E \in Log, NEW S \in SUBSET E, NEW k \in Nat, NEW x \in E,
         ~(Cardinality(Newer(PointerOrder, Fair(S), x)) < k)
  PROVE  ~(Cardinality(Newer(PointerOrder, Cut(k, S), x)) < k)
<1>1. StrictTotalOrder(PointerOrder, E) /\ Fair(S) \in SUBSET E
  BY LogSubset, LogOrder
<1>2. IsFiniteSet(Fair(S))
  BY <1>1, LogOrder
<1> QED BY <1>1, <1>2, NewestPushesOut DEF Cut

\* Cutting A to j before B is merged in changes nothing.
EarlyCutIsHarmless(j, k, A, B) == Cut(k, Cut(j, A) \cup B) = Cut(k, A \cup B)

(***************************************************************************)
(* Forgetting is harmless under two caps as well: a tier cut to the newest *)
(* j of its fair part, merged with B and cut to k <= j, is what one pass   *)
(* over all that ever arrived gives; though the pointer a group lost to    *)
(* its cap might have room again when a newer one of the group is evicted  *)
(* by the other cap.                                                       *)
(***************************************************************************)
THEOREM CutAbsorbs ==
  ASSUME NEW E \in Log, NEW A \in SUBSET E, NEW B \in SUBSET E,
         NEW j \in Nat, NEW k \in Nat, k <= j
  PROVE  EarlyCutIsHarmless(j, k, A, B)
<1> DEFINE T == Cut(j, A)
           X == T \cup B
           Y == A \cup B
           U == Fair(X)
           V == Fair(Y)
<1>1. /\ StrictTotalOrder(PointerOrder, E) /\ E \subseteq Pointer
      /\ T \in SUBSET A /\ T \in SUBSET E /\ IsFair(T)
  BY LogOrder, CutBounded
<1> HIDE DEF T
<1>2. /\ X \in SUBSET Y /\ Y \in SUBSET E /\ X \in SUBSET E /\ T \in SUBSET X
  BY <1>1
<1> HIDE DEF X
<1>3. /\ U \in SUBSET X /\ U \in SUBSET Y /\ U \in SUBSET E /\ IsFair(U)
      /\ V \in SUBSET Y /\ V \in SUBSET E /\ IsFair(V)
  BY <1>2, LogSubset, FairIsFair
<1>4. ASSUME NEW v \in V, v \notin X
      PROVE  ~(Cardinality(Newer(PointerOrder, U, v)) < j)
  <2>1. v \in A /\ v \in E /\ v \notin T
    BY <1>3, <1>4 DEF X
  <2>2. v \in Fair(A)
    <3>1. Cardinality(Newer(PointerOrder, Group(Y, v), v)) < fp_cap(v)
      BY DEF V, Fair
    <3>2. Group(A, v) \in SUBSET Group(Y, v) /\ Group(Y, v) \in SUBSET E
      BY <1>2 DEF Group
    <3>3. IsFiniteSet(Group(Y, v)) /\ fp_cap(v) \in Nat
      BY <1>1, <2>1, <3>2, LogOrder, PointerTypes
    <3>4. Cardinality(Newer(PointerOrder, Group(A, v), v)) < fp_cap(v)
      BY <3>1, <3>2, <3>3, NewerMonotone
    <3> QED BY <2>1, <3>4 DEF Fair
  <2>3. ~(Cardinality(Newer(PointerOrder, Fair(A), v)) < j)
    BY <2>1, <2>2 DEF T, Cut, Newest
  <2>4. ~(Cardinality(Newer(PointerOrder, T, v)) < j)
    BY <2>1, <2>3, CutPushesOut DEF T
  <2> QED BY <1>1, <1>2, <2>1, <2>4, FairPushesOut
<1>5. ASSUME NEW x \in E, NEW v \in V, v \notin X, <<x, v>> \in PointerOrder
      PROVE  ~(Cardinality(Newer(PointerOrder, U, x)) < k)
  <2>1. v \in Pointer /\ x \in Pointer
    BY <1>1, <1>3
  <2>2. ~(Cardinality(Newer(PointerOrder, U, v)) < j)
    BY <1>4, <1>5
  <2>3. ~(Cardinality(Newer(PointerOrder, U, x)) < j)
    BY <1>3, <1>5, <2>1, <2>2, OlderGoesToo
  <2>4. Cardinality(Newer(PointerOrder, U, x)) \in Nat
    BY <1>3, LogSubset
  <2> QED BY <2>3, <2>4
<1> HIDE DEF U, V, Y
<1>6. ASSUME NEW x \in E, ~(Cardinality(Newer(PointerOrder, U, x)) < k)
      PROVE  ~(Cardinality(Newer(PointerOrder, V, x)) < k)
  <2>1. x \in Pointer
    BY <1>1
  <2> QED BY <1>2, <1>3, <1>6, <2>1, FairPushesOut DEF V
<1>7. ASSUME NEW x \in E, ~(Cardinality(Newer(PointerOrder, V, x)) < k)
      PROVE  ~(Cardinality(Newer(PointerOrder, U, x)) < k)
  <2> DEFINE N == Newer(PointerOrder, V, x)
  <2>1. CASE \A v \in N : v \in X
    <3>1. /\ N \in SUBSET X /\ N \in SUBSET V /\ x \in Pointer
          /\ Newer(PointerOrder, N, x) = N
      BY <1>1, <2>1 DEF Newer
    <3>2. IsFair(N)
      BY <1>3, <3>1, FairOfFair
    <3>3. ~(Cardinality(Newer(PointerOrder, N, x)) < k)
      BY <1>7, <3>1
    <3> HIDE DEF N
    <3> QED BY <1>2, <3>1, <3>2, <3>3, FairPushesOut DEF U
  <2>2. CASE \E v \in N : v \notin X
    BY <1>5, <2>2 DEF Newer
  <2> QED BY <2>1, <2>2
<1>8. ASSUME NEW x \in V, Cardinality(Newer(PointerOrder, V, x)) < k
      PROVE  x \in U
  <2>1. x \in E /\ x \in Y
    BY <1>3
  <2>2. x \in X
    <3> SUFFICES ASSUME x \notin X PROVE FALSE
      OBVIOUS
    <3>1. ~(Cardinality(Newer(PointerOrder, U, x)) < j)
      BY <1>4
    <3>2. Cardinality(Newer(PointerOrder, U, x)) \in Nat
      BY <1>3, LogSubset
    <3> QED BY <1>6, <1>8, <2>1, <3>1, <3>2
  <2>3. Cardinality(Newer(PointerOrder, Group(Y, x), x)) < fp_cap(x)
    BY DEF V, Fair
  <2>4. Group(X, x) \in SUBSET Group(Y, x) /\ Group(Y, x) \in SUBSET E
    BY <1>2 DEF Group
  <2>5. IsFiniteSet(Group(Y, x)) /\ fp_cap(x) \in Nat
    BY <1>1, <2>1, <2>4, LogOrder, PointerTypes
  <2>6. Cardinality(Newer(PointerOrder, Group(X, x), x)) < fp_cap(x)
    BY <2>3, <2>4, <2>5, NewerMonotone
  <2> QED BY <2>2, <2>6 DEF U, Fair
<1>9. ASSUME NEW x \in U, Cardinality(Newer(PointerOrder, U, x)) < k
      PROVE  x \in V
  <2> SUFFICES ASSUME x \notin V PROVE FALSE
    OBVIOUS
  <2> DEFINE G == Group(Y, x)
             K == Newest(PointerOrder, fp_cap(x), G)
  <2>1. x \in E /\ x \in X /\ x \in Y /\ x \in Pointer
    BY <1>1, <1>3
  <2>2. ~(Cardinality(Newer(PointerOrder, G, x)) < fp_cap(x))
    BY <2>1 DEF V, Fair
  <2>3. G \in SUBSET E /\ IsFiniteSet(G) /\ fp_cap(x) \in Nat
    <3>1. G \in SUBSET E
      BY <1>2 DEF Group
    <3> QED BY <2>1, <3>1, LogOrder, PointerTypes
  <2>4. Group(V, x) = K
    BY <1>2, <2>1, FairGroups DEF V
  <2> HIDE DEF G
  <2>5. ~(Cardinality(Newer(PointerOrder, K, x)) < fp_cap(x))
    BY <1>1, <2>1, <2>2, <2>3, NewestPushesOut
  <2> HIDE DEF K
  <2>6. CASE \A v \in Newer(PointerOrder, K, x) : v \in X
    <3>1. Newer(PointerOrder, K, x) \in SUBSET Newer(PointerOrder, Group(X, x), x)
      BY <2>4, <2>6 DEF Newer, Group
    <3>2. Newer(PointerOrder, Group(X, x), x) \in SUBSET E
      BY <1>2 DEF Newer, Group
    <3>3. /\ IsFiniteSet(Newer(PointerOrder, Group(X, x), x))
          /\ Cardinality(Newer(PointerOrder, Group(X, x), x)) \in Nat
          /\ Cardinality(Newer(PointerOrder, K, x)) \in Nat
      BY <3>1, <3>2, LogOrder
    <3>4. Cardinality(Newer(PointerOrder, K, x))
            <= Cardinality(Newer(PointerOrder, Group(X, x), x))
      BY <3>1, <3>3, FS_Subset
    <3>5. Cardinality(Newer(PointerOrder, Group(X, x), x)) < fp_cap(x)
      BY DEF U, Fair
    <3> QED BY <2>3, <2>5, <3>3, <3>4, <3>5
  <2>7. CASE \E v \in Newer(PointerOrder, K, x) : v \notin X
    <3>1. PICK v \in V : v \notin X /\ <<x, v>> \in PointerOrder
      BY <2>4, <2>7 DEF Newer, Group
    <3> QED BY <1>5, <1>9, <2>1, <3>1
  <2> QED BY <2>6, <2>7
<1>10. \A x \in U \cup V : x \in E
  BY <1>3
<1>11. Newest(PointerOrder, k, U) = Newest(PointerOrder, k, V)
  BY <1>6, <1>7, <1>8, <1>9, <1>10 DEF Newest
<1> QED BY <1>11 DEF T, X, Y, U, V, Cut, EarlyCutIsHarmless

\* Another cut of more, or of the same, is no smaller.
LEMMA CutGrows ==
  ASSUME NEW E \in Log, NEW Q \in SUBSET E, NEW P \in SUBSET Q, IsFair(P),
         NEW k \in Nat, Cardinality(P) <= k
  PROVE  Cardinality(P) <= Cardinality(Cut(k, Q))
<1> DEFINE F == Fair(Q)
           X == Newest(PointerOrder, k, F)
<1>1. /\ StrictTotalOrder(PointerOrder, E) /\ F \in SUBSET E /\ IsFiniteSet(F)
      /\ Cardinality(P) <= Cardinality(F) /\ Cardinality(P) \in Nat
  <2>1. P \in SUBSET E /\ F \in SUBSET E
    BY LogSubset
  <2> QED BY <2>1, LogOrder, FairCount
<1> HIDE DEF F
<1>2. X \in SUBSET F /\ IsFiniteSet(X) /\ Cardinality(X) \in Nat
  BY <1>1, NewestBounded
<1>3. CASE X = F
  BY <1>1, <1>3 DEF Cut, F
<1>4. CASE X # F
  <2>1. PICK x \in F : ~(Cardinality(Newer(PointerOrder, F, x)) < k)
    BY <1>4 DEF Newest
  <2>2. ~(Cardinality(Newer(PointerOrder, X, x)) < k)
    BY <1>1, <2>1, NewestPushesOut
  <2> HIDE DEF X
  <2>3. Newer(PointerOrder, X, x) \in SUBSET X
    BY DEF Newer
  <2>4. /\ Cardinality(Newer(PointerOrder, X, x)) \in Nat
        /\ Cardinality(Newer(PointerOrder, X, x)) <= Cardinality(X)
    BY <1>2, <2>3, FS_Subset, FS_CardinalityType
  <2>5. Cardinality(P) <= Cardinality(X)
    BY <1>1, <1>2, <2>2, <2>4
  <2> QED BY <2>5 DEF X, F, Cut
<1> QED BY <1>3, <1>4

-----------------------------------------------------------------------------
(* The two tiers *)

\* What capped leaves in each tier.
Kept(S) == Cut(MAX_POINTERS, Attested(S))
Seated(S) == Cut(share(Kept(S)), Anon(S))

\* The pointers split in two tiers, and a fingerprint is in one of them.
LEMMA Tiers ==
  ASSUME NEW S \in SUBSET Pointer
  PROVE  /\ Attested(S) \in SUBSET S /\ Anon(S) \in SUBSET S /\ S = Attested(S) \cup Anon(S)
         /\ \A p \in Attested(S) : p \notin Anon(S) /\ Group(S, p) = Group(Attested(S), p)
         /\ \A p \in Anon(S) : p \notin Attested(S) /\ Group(S, p) = Group(Anon(S), p)
         /\ \A T : Attested(S \cup T) = Attested(S) \cup Attested(T)
                     /\ Anon(S \cup T) = Anon(S) \cup Anon(T)
BY DEF Attested, Anon, Group, is_anon

\* capped cuts each tier by itself: the anonymous one to the share that the
\* attested one leaves.
LEMMA CappedIsCuts ==
  ASSUME NEW S \in SUBSET Pointer
  PROVE  /\ capped(S) = Kept(S) \cup Seated(S)
         /\ Attested(capped(S)) = Kept(S) /\ Anon(capped(S)) = Seated(S)
<1> DEFINE fair == {p \in S : Cardinality(Newer(PointerOrder, Group(S, p), p)) < fp_cap(p)}
<1>1. Attested(fair) = Fair(Attested(S)) /\ Anon(fair) = Fair(Anon(S))
  <2>1. \A p : p \in Attested(fair) <=> p \in Fair(Attested(S))
    BY Tiers DEF Attested, Fair
  <2>2. \A p : p \in Anon(fair) <=> p \in Fair(Anon(S))
    BY Tiers DEF Anon, Fair
  <2> QED BY <2>1, <2>2
<1>2. capped(S) = LET kept == Newest(PointerOrder, MAX_POINTERS, Attested(fair))
                  IN  kept \cup Newest(PointerOrder, share(kept), Anon(fair))
  BY DEF capped
<1> HIDE DEF fair
<1>3. capped(S) = Kept(S) \cup Seated(S)
  BY <1>1, <1>2 DEF Kept, Seated, Cut
<1>4. Kept(S) \in SUBSET Attested(S) /\ Seated(S) \in SUBSET Anon(S)
  BY DEF Kept, Seated, Cut, Newest, Fair
<1>5. Attested(Kept(S) \cup Seated(S)) = Kept(S) /\ Anon(Kept(S) \cup Seated(S)) = Seated(S)
  BY <1>4 DEF Attested, Anon
<1> QED BY <1>3, <1>5

\* The share is what the attested pointers leave, and shrinks as they grow.
LEMMA ShareBounded ==
  ASSUME NEW S, Cardinality(S) \in Nat
  PROVE  /\ share(S) \in Nat /\ share(S) <= ANON_POINTER_SLOTS
         /\ Cardinality(S) <= MAX_POINTERS => share(S) + Cardinality(S) <= MAX_POINTERS
         /\ \A n \in Nat : n <= ANON_POINTER_SLOTS /\ n + Cardinality(S) <= MAX_POINTERS
                             => n <= share(S)
         /\ \A T : Cardinality(T) \in Nat /\ Cardinality(S) <= Cardinality(T)
                     => share(T) <= share(S)
BY InboxAssumption DEF share

\* The size of two disjoint sets together.
LEMMA DisjointCount ==
  ASSUME NEW S, NEW T, IsFiniteSet(S), IsFiniteSet(T), S \cap T = {}
  PROVE  Cardinality(S \cup T) = Cardinality(S) + Cardinality(T)
<1>1. Cardinality(S \cap T) = 0
  BY FS_EmptySet
<1>2. Cardinality(S \cup T) = Cardinality(S) + Cardinality(T) - Cardinality(S \cap T)
  BY FS_Union
<1>3. Cardinality(S) \in Nat /\ Cardinality(T) \in Nat
  BY FS_CardinalityType
<1> QED BY <1>1, <1>2, <1>3

\* An inbox after enforce_caps is fair and within both caps.
LEMMA CappedBounded ==
  ASSUME NEW E \in Log, NEW S \in SUBSET E
  PROVE  /\ Kept(S) \in SUBSET Attested(S) /\ Kept(S) \in SUBSET E /\ IsFair(Kept(S))
         /\ Cardinality(Kept(S)) \in Nat /\ Cardinality(Kept(S)) <= MAX_POINTERS
         /\ share(Kept(S)) \in Nat
         /\ Seated(S) \in SUBSET Anon(S) /\ Seated(S) \in SUBSET E /\ IsFair(Seated(S))
         /\ Cardinality(Seated(S)) \in Nat /\ Cardinality(Seated(S)) <= share(Kept(S))
         /\ capped(S) \in SUBSET S /\ IsFair(capped(S))
         /\ Cardinality(capped(S)) \in Nat /\ Cardinality(capped(S)) <= MAX_POINTERS
         /\ Cardinality(Anon(capped(S))) <= ANON_POINTER_SLOTS
<1>1. S \in SUBSET Pointer /\ MAX_POINTERS \in Nat /\ ANON_POINTER_SLOTS \in Nat
  BY LogOrder, InboxAssumption
<1>2. /\ Attested(S) \in SUBSET E /\ Anon(S) \in SUBSET E
      /\ Attested(S) \in SUBSET S /\ Anon(S) \in SUBSET S
  BY <1>1, Tiers
<1>3. /\ Kept(S) \in SUBSET Attested(S) /\ Kept(S) \in SUBSET E /\ IsFair(Kept(S))
      /\ Cardinality(Kept(S)) \in Nat /\ Cardinality(Kept(S)) <= MAX_POINTERS
  BY <1>1, <1>2, CutBounded DEF Kept
<1>4. /\ share(Kept(S)) \in Nat /\ share(Kept(S)) <= ANON_POINTER_SLOTS
      /\ share(Kept(S)) + Cardinality(Kept(S)) <= MAX_POINTERS
  BY <1>3, ShareBounded
<1>5. /\ Seated(S) \in SUBSET Anon(S) /\ Seated(S) \in SUBSET E /\ IsFair(Seated(S))
      /\ Cardinality(Seated(S)) \in Nat /\ Cardinality(Seated(S)) <= share(Kept(S))
  BY <1>2, <1>4, CutBounded DEF Seated
<1>6. /\ capped(S) = Kept(S) \cup Seated(S)
      /\ Attested(capped(S)) = Kept(S) /\ Anon(capped(S)) = Seated(S)
  BY <1>1, CappedIsCuts
<1>7. capped(S) \in SUBSET S /\ capped(S) \in SUBSET E /\ capped(S) \in SUBSET Pointer
  BY <1>1, <1>2, <1>3, <1>5, <1>6
<1>8. IsFair(capped(S))
  <2> SUFFICES ASSUME NEW p \in capped(S)
               PROVE  Cardinality(Group(capped(S), p)) <= fp_cap(p)
    BY DEF IsFair
  <2>1. CASE p \in Attested(capped(S))
    <3>1. Group(capped(S), p) = Group(Kept(S), p) /\ p \in Kept(S)
      BY <1>6, <1>7, <2>1, Tiers
    <3> QED BY <1>3, <3>1 DEF IsFair
  <2>2. CASE p \in Anon(capped(S))
    <3>1. Group(capped(S), p) = Group(Seated(S), p) /\ p \in Seated(S)
      BY <1>6, <1>7, <2>2, Tiers
    <3> QED BY <1>5, <3>1 DEF IsFair
  <2> QED BY <1>7, <2>1, <2>2, Tiers
<1>9. IsFiniteSet(Kept(S)) /\ IsFiniteSet(Seated(S)) /\ Kept(S) \cap Seated(S) = {}
  <2>1. Kept(S) \cap Seated(S) = {}
    BY <1>3, <1>5 DEF Attested, Anon
  <2> QED BY <1>3, <1>5, <2>1, LogOrder
<1>10. Cardinality(Kept(S) \cup Seated(S)) = Cardinality(Kept(S)) + Cardinality(Seated(S))
  BY <1>9, DisjointCount
<1>11. Cardinality(capped(S)) = Cardinality(Kept(S)) + Cardinality(Seated(S))
  BY <1>6, <1>10
<1>12. Cardinality(capped(S)) \in Nat /\ Cardinality(capped(S)) <= MAX_POINTERS
  BY <1>1, <1>3, <1>4, <1>5, <1>11
<1>13. Cardinality(Anon(capped(S))) <= ANON_POINTER_SLOTS
  BY <1>1, <1>4, <1>5, <1>6
<1> QED BY <1>3, <1>4, <1>5, <1>7, <1>8, <1>12, <1>13

\* Pointers within all three caps are their own one pass.
LEMMA CappedOfFew ==
  ASSUME NEW E \in Log, NEW S \in SUBSET E, IsFair(S), Cardinality(S) <= MAX_POINTERS,
         Cardinality(Anon(S)) <= ANON_POINTER_SLOTS
  PROVE  capped(S) = S
<1>1. S \in SUBSET Pointer
  BY LogOrder
<1>2. /\ Attested(S) \in SUBSET S /\ Anon(S) \in SUBSET S /\ S = Attested(S) \cup Anon(S)
      /\ Attested(S) \cap Anon(S) = {}
      /\ Attested(S) \in SUBSET E /\ Anon(S) \in SUBSET E
  BY <1>1, Tiers
<1>3. IsFair(Attested(S)) /\ IsFair(Anon(S))
  BY <1>2, FairOfFair
<1>4. /\ IsFiniteSet(Attested(S)) /\ IsFiniteSet(Anon(S))
      /\ Cardinality(Attested(S)) \in Nat /\ Cardinality(Anon(S)) \in Nat
      /\ Cardinality(S) \in Nat
  BY <1>2, LogOrder
<1>5. Cardinality(Attested(S) \cup Anon(S)) = Cardinality(Attested(S)) + Cardinality(Anon(S))
  BY <1>2, <1>4, DisjointCount
<1>6. Cardinality(Attested(S)) + Cardinality(Anon(S)) <= MAX_POINTERS
  BY <1>2, <1>5
<1>7. Cardinality(Attested(S)) <= MAX_POINTERS /\ MAX_POINTERS \in Nat
  BY <1>4, <1>6, InboxAssumption
<1>8. Kept(S) = Attested(S)
  BY <1>2, <1>3, <1>7, CutOfFew DEF Kept
<1>9. share(Kept(S)) \in Nat /\ Cardinality(Anon(S)) <= share(Kept(S))
  <2>1. Cardinality(Anon(S)) + Cardinality(Kept(S)) <= MAX_POINTERS
    BY <1>4, <1>6, <1>8
  <2> QED BY <1>4, <1>8, <2>1, ShareBounded
<1>10. Seated(S) = Anon(S)
  <2> HIDE DEF Kept
  <2> QED BY <1>2, <1>3, <1>9, CutOfFew DEF Seated
<1> QED BY <1>1, <1>2, <1>8, <1>10, CappedIsCuts

\* A cap over a cap: capping A before B is merged in changes nothing.
CapsDoNotCompound(A, B) == capped(capped(A) \cup B) = capped(A \cup B)

(***************************************************************************)
(* The claim of canonicalize: the fairness caps, the anonymous share and   *)
(* the global cap, applied at every merge, leave what one pass over all    *)
(* pointers leaves.  The attested tier never shrinks in number, so the     *)
(* share never grows, and CutAbsorbs covers each tier.                     *)
(***************************************************************************)
THEOREM CappedAbsorbs ==
  ASSUME NEW E \in Log, NEW A \in SUBSET E, NEW B \in SUBSET E
  PROVE  CapsDoNotCompound(A, B)
<1> DEFINE Z == capped(A) \cup B
<1>1. /\ A \in SUBSET Pointer /\ B \in SUBSET Pointer /\ MAX_POINTERS \in Nat
      /\ A \cup B \in SUBSET E /\ A \cup B \in SUBSET Pointer
  BY LogOrder, InboxAssumption
<1>2. /\ capped(A) \in SUBSET A
      /\ IsFair(Kept(A)) /\ Kept(A) \in SUBSET Attested(A)
      /\ Cardinality(Kept(A)) \in Nat /\ Cardinality(Kept(A)) <= MAX_POINTERS
      /\ share(Kept(A)) \in Nat
  BY CappedBounded
<1>3. /\ Attested(capped(A)) = Kept(A) /\ Anon(capped(A)) = Seated(A)
      /\ capped(A) \in SUBSET Pointer
  BY <1>1, <1>2, CappedIsCuts
<1>4. /\ Attested(Z) = Kept(A) \cup Attested(B) /\ Anon(Z) = Seated(A) \cup Anon(B)
      /\ Attested(A \cup B) = Attested(A) \cup Attested(B)
      /\ Anon(A \cup B) = Anon(A) \cup Anon(B)
  BY <1>1, <1>3, Tiers
<1>5. /\ Attested(A) \in SUBSET E /\ Attested(B) \in SUBSET E
      /\ Anon(A) \in SUBSET E /\ Anon(B) \in SUBSET E
      /\ Attested(A) \cup Attested(B) \in SUBSET E
  BY <1>1, Tiers
<1>6. Kept(Z) = Kept(A \cup B)
  <2>1. EarlyCutIsHarmless(MAX_POINTERS, MAX_POINTERS, Attested(A), Attested(B))
    BY <1>1, <1>5, CutAbsorbs
  <2>2. Cut(MAX_POINTERS, Kept(A) \cup Attested(B))
          = Cut(MAX_POINTERS, Attested(A) \cup Attested(B))
    BY <2>1 DEF EarlyCutIsHarmless, Kept
  <2> HIDE DEF Z
  <2> QED BY <1>4, <2>2 DEF Kept
<1> HIDE DEF Z
<1>7. Cardinality(Kept(A)) <= Cardinality(Kept(A \cup B))
  <2>1. Kept(A) \in SUBSET (Attested(A) \cup Attested(B))
    BY <1>2
  <2>2. Cardinality(Kept(A)) <= Cardinality(Cut(MAX_POINTERS, Attested(A) \cup Attested(B)))
    BY <1>1, <1>2, <1>5, <2>1, CutGrows
  <2>3. Kept(A \cup B) = Cut(MAX_POINTERS, Attested(A) \cup Attested(B))
    BY <1>4 DEF Kept
  <2> QED BY <2>2, <2>3
<1>8. /\ Cardinality(Kept(A \cup B)) \in Nat
      /\ share(Kept(A \cup B)) \in Nat /\ share(Kept(A \cup B)) <= share(Kept(A))
  <2>1. Cardinality(Kept(A \cup B)) \in Nat
    BY <1>1, CappedBounded
  <2> QED BY <1>2, <1>7, <2>1, ShareBounded
<1>9. Seated(Z) = Seated(A \cup B)
  <2>1. EarlyCutIsHarmless(share(Kept(A)), share(Kept(A \cup B)), Anon(A), Anon(B))
    BY <1>2, <1>5, <1>8, CutAbsorbs
  <2>2. Cut(share(Kept(A \cup B)), Seated(A) \cup Anon(B))
          = Cut(share(Kept(A \cup B)), Anon(A) \cup Anon(B))
    BY <2>1 DEF EarlyCutIsHarmless, Seated
  <2> QED BY <1>4, <1>6, <2>2 DEF Seated
<1>10. Z \in SUBSET Pointer
  BY <1>1, <1>2 DEF Z
<1>11. capped(Z) = capped(A \cup B)
  BY <1>1, <1>6, <1>9, <1>10, CappedIsCuts
<1> QED BY <1>11 DEF CapsDoNotCompound, Z

-----------------------------------------------------------------------------
(* What a peer stores *)

\* A map of credentials: one a key.
OneEach(C) == \A c, e \in C : c.replier = e.replier => c = e

\* The shape of the code's maps and vectors, in a state as in a delta.
Shaped(d) == d \in InboxState /\ OneEach(d.creds) /\ OnePost(d.pointers)

Timely(S, now) == \A p \in S : p.time <= now + MAX_FUTURE_MS

\* A credential of p's key in C, of the group p was signed for.
Matches(C, p) == \E c \in CredOf(C, p) : c.fp = p.fp

Accepted == [creds : SUBSET Cred, pointers : SUBSET Pointer]

(***************************************************************************)
(* d is valid and comes from acc, the pointers and credentials that passed *)
(* the checks: as long as no key traded its credential and no two pointers *)
(* named one reply, in one pass.                                           *)
(***************************************************************************)
Sound(d, acc, now) ==
  /\ Shaped(d) /\ verify(d) /\ Timely(d.pointers, now)
  /\ acc \in Accepted
  /\ d.creds \subseteq acc.creds /\ d.pointers \subseteq acc.pointers
  /\ \A p \in acc.pointers : Matches(acc.creds, p)
  /\ OnePost(acc.pointers) /\ OneEach(acc.creds) => d.pointers = capped(acc.pointers)

\* The scrub drops the pointers dated ahead and nothing else.
LEMMA ScrubOfTimely ==
  ASSUME NEW d \in InboxState, NEW now
  PROVE  /\ scrub_future(d, now) \in InboxState
         /\ Timely(scrub_future(d, now).pointers, now)
         /\ scrub_future(d, now).creds = d.creds
         /\ scrub_future(d, now).pointers \subseteq d.pointers
         /\ scrub_future(d, now) = d <=> Timely(d.pointers, now)
<1> DEFINE T == {p \in d.pointers : p.time <= now + MAX_FUTURE_MS}
<1>1. scrub_future(d, now) = [creds |-> d.creds, pointers |-> T, pow |-> d.pow]
  BY DEF scrub_future, InboxState
<1>2. d = [creds |-> d.creds, pointers |-> d.pointers, pow |-> d.pow]
  BY DEF InboxState
<1>3. T \in SUBSET d.pointers /\ Timely(T, now) /\ (T = d.pointers <=> Timely(d.pointers, now))
  BY DEF Timely
<1>4. /\ d.creds \in SUBSET Cred /\ d.pointers \in SUBSET Pointer
      /\ d.pow \in Difficulty \cup {None}
  BY DEF InboxState
<1> HIDE DEF T
<1>5. [creds |-> d.creds, pointers |-> T, pow |-> d.pow] \in InboxState
  BY <1>3, <1>4 DEF InboxState
<1>6. scrub_future(d, now) = d <=> T = d.pointers
  BY <1>1, <1>2
<1> QED BY <1>1, <1>3, <1>5, <1>6

\* The scrub keeps the shape of an inbox.
LEMMA ScrubShaped ==
  ASSUME NEW d, Shaped(d), NEW now
  PROVE  /\ Shaped(scrub_future(d, now))
         /\ Timely(scrub_future(d, now).pointers, now)
BY ScrubOfTimely DEF Shaped, OnePost, OneEach

\* A sound inbox passes validate_state, and the scrub does not change it.
LEMMA SoundIsValid ==
  ASSUME NEW d, NEW acc, NEW now, Sound(d, acc, now)
  PROVE  validate_state(d, now) /\ scrub_future(d, now) = d
BY ScrubOfTimely DEF Sound, Shaped, validate_state

\* The latch: a record of the publisher, never an older one.
LEMMA LatchKeeps ==
  ASSUME NEW held \in Difficulty \cup {None}, NEW c \in Difficulty \cup {None}
  PROVE  /\ adopt_difficulty(held, c) \in Difficulty \cup {None}
         /\ held \notin Malformed => adopt_difficulty(held, c) \notin Malformed
         /\ difficulty_seq(held) \in Nat
         /\ difficulty_seq(adopt_difficulty(held, c)) >= difficulty_seq(held)
         /\ c \notin Malformed => difficulty_seq(adopt_difficulty(held, c)) >= difficulty_seq(c)
         /\ difficulty_bits(held) \in Nat /\ difficulty_bits(held) >= POW_FLOOR_BITS
BY PowAssumption DEF adopt_difficulty, difficulty_seq, difficulty_bits

\* One record has one seq, and only no record has seq 0.
LEMMA SeqIsRecord ==
  ASSUME NEW c \in Difficulty \cup {None}, NEW e \in Difficulty \cup {None},
         difficulty_seq(c) = difficulty_seq(e)
  PROVE  c = e
BY PowAssumption DEF difficulty_seq

\* in is what the checks let through of news, and the credentials held then:
\* a key has its old one or a later one.
CheckedWell(in, d, news) ==
  /\ in.let_in \in SUBSET news.pointers
  /\ \A p \in in.let_in : is_anon(p) /\ p \notin Foreign
       => p.bits >= difficulty_bits(adopt_difficulty(d.pow, news.pow))
  /\ in.fresh \in SUBSET news.creds
  /\ \A c \in in.fresh : \A h \in CredOf(d.creds, c) : h.hash < c.hash
  /\ in.fresh \subseteq in.creds /\ in.creds \subseteq d.creds \cup in.fresh
  /\ in.creds \in SUBSET Cred /\ OneEach(in.creds)
  /\ \A h \in d.creds : h \in in.creds
       \/ \E e \in in.fresh : e.replier = h.replier /\ h.hash < e.hash

\* The checks of an update do what CheckedWell says, whatever they are given.
LEMMA CheckedShape ==
  ASSUME NEW d, Shaped(d), NEW news, Shaped(news)
  PROVE  CheckedWell(Checked(d, news), d, news)
<1> DEFINE in == Checked(d, news)
           let_in == Clearing(news.pointers, adopt_difficulty(d.pow, news.pow))
           fresh  == {c \in news.creds :
                        /\ \E p \in let_in \cup d.pointers : p.replier = c.replier
                        /\ \A h \in CredOf(d.creds, c) : h.hash < c.hash}
<1>1. /\ in.fresh = fresh /\ in.let_in = let_in
      /\ in.creds = {h \in d.creds : CredOf(fresh, h) = {}} \cup fresh
  BY DEF Checked
<1>2. /\ let_in \in SUBSET news.pointers
      /\ \A p \in let_in : is_anon(p) /\ p \notin Foreign
           => p.bits >= difficulty_bits(adopt_difficulty(d.pow, news.pow))
  BY DEF Clearing
<1> HIDE DEF let_in, in
<1>3. /\ fresh \in SUBSET news.creds
      /\ \A c \in fresh : \A h \in CredOf(d.creds, c) : h.hash < c.hash
  OBVIOUS
<1> HIDE DEF fresh
<1>4. d.creds \in SUBSET Cred /\ news.creds \in SUBSET Cred
  BY DEF Shaped, InboxState
<1>5. OneEach({h \in d.creds : CredOf(fresh, h) = {}} \cup fresh)
  BY <1>3 DEF Shaped, OneEach, CredOf
<1>6. ASSUME NEW h \in d.creds, CredOf(fresh, h) # {}
      PROVE  \E e \in fresh : e.replier = h.replier /\ h.hash < e.hash
  BY <1>3, <1>6 DEF CredOf
<1>7. CheckedWell(in, d, news)
  BY <1>1, <1>2, <1>3, <1>4, <1>5, <1>6 DEF CheckedWell
<1> QED BY <1>7 DEF in

\* d with S joined in, before the caps.
Joined(d, S) == dedup(d.pointers, S)

\* new is d with what the checks let through of news joined in, the caps cut
\* once, and the pointers gone whose credential is.
OneCut(new, d, news) ==
  LET in == Checked(d, news) IN
  /\ new = [creds |-> new.creds, pointers |-> new.pointers, pow |-> new.pow]
  /\ new.pointers = {p \in capped(Joined(d, Resolving(in.creds, in.let_in))) : Matches(in.creds, p)}
  /\ new.creds = {c \in in.creds : \E p \in new.pointers : p.replier = c.replier}
  /\ new.pow = adopt_difficulty(d.pow, news.pow)
  /\ in.fresh \cap Malformed = {}

\* Joining an inbox with news keeps one pointer a reply, loses no reply, and
\* replaces a pointer by an earlier one only.
LEMMA JoinedIsLog ==
  ASSUME NEW d, Shaped(d), NEW S \in SUBSET Pointer, OnePost(S)
  PROVE  /\ Joined(d, S) \in Log /\ Joined(d, S) \in SUBSET Pointer
         /\ Joined(d, S) \subseteq d.pointers \cup S
         /\ \A p \in d.pointers : p \in Joined(d, S)
              \/ \E q \in S : q.post = p.post /\ q.time < p.time
         /\ \A p \in S : \E q \in Joined(d, S) : q.post = p.post
<1> DEFINE P == d.pointers
           J == Joined(d, S)
<1>1. P \in SUBSET Pointer /\ OnePost(P)
  BY DEF Shaped, InboxState
<1>2. J = {p \in P : \A q \in S : q.post = p.post => p.time <= q.time}
            \cup {q \in S : \A p \in P : p.post = q.post => q.time < p.time}
  BY DEF Joined, dedup
<1> HIDE DEF P, J
<1>3. \A p \in Pointer : p.time \in Nat
  BY PointerTypes
<1>4. \A p \in P, q \in S : (p.time <= q.time) <=> ~(q.time < p.time)
  BY <1>1, <1>3
<1>5. J \subseteq P \cup S /\ J \in SUBSET Pointer
  BY <1>1, <1>2
<1>6. OnePost(J)
  BY <1>1, <1>2, <1>4 DEF OnePost
<1>7. \A p \in P : p \in J \/ \E q \in S : q.post = p.post /\ q.time < p.time
  BY <1>2, <1>4
<1>8. ASSUME NEW q \in S PROVE \E j \in J : j.post = q.post
  <2>1. CASE q \in J
    BY <2>1
  <2>2. CASE q \notin J
    <3>1. PICK p \in P : p.post = q.post /\ ~(q.time < p.time)
      BY <1>2, <2>2
    <3>2. \A r \in S : r.post = p.post => r = q
      BY <3>1 DEF OnePost
    <3>3. p \in J
      BY <1>2, <1>4, <3>1, <3>2
    <3> QED BY <3>1, <3>3
  <2> QED BY <2>1, <2>2
<1> QED BY <1>5, <1>6, <1>7, <1>8 DEF Log, P, J

\* Where inbox and news do not point at one reply, nothing is left out.
LEMMA JoinedIsUnion ==
  ASSUME NEW d, Shaped(d), NEW S \in SUBSET Pointer,
         \A p \in d.pointers, q \in S : p.post = q.post => p = q
  PROVE  Joined(d, S) = d.pointers \cup S
<1>1. d.pointers \in SUBSET Pointer
  BY DEF Shaped, InboxState
<1>2. \A p \in Pointer : p.time \in Nat
  BY PointerTypes
<1>3. \A p \in d.pointers : \A q \in S : q.post = p.post => p.time <= q.time
  BY <1>1, <1>2
<1> QED BY <1>3 DEF Joined, dedup

(***************************************************************************)
(* The second pass of the caps, after the cleanup, evicts nothing: only a  *)
(* pointer without its credential leaves there, and that frees room.       *)
(***************************************************************************)
LEMMA UpdateIsOneCut ==
  ASSUME NEW d, Shaped(d), NEW news, Shaped(news),
         NEW new, new = apply_delta(d, news), new # None
  PROVE  OneCut(new, d, news)
<1> DEFINE in == Checked(d, news)
           res == Resolving(in.creds, in.let_in)
           M == Joined(d, res)
           pow == adopt_difficulty(d.pow, news.pow)
           X == [creds |-> in.creds, pointers |-> capped(M), pow |-> pow]
           F == {p \in capped(M) : \E c \in CredOf(in.creds, p) : c.fp = p.fp}
<1>1. new = post_apply_cleanup(X) /\ in.fresh \cap Malformed = {}
  BY DEF apply_delta, pointers_apply, canonicalize, Joined
<1>2. CheckedWell(in, d, news)
  BY CheckedShape
<1> HIDE DEF in
<1>3. res \in SUBSET Pointer /\ OnePost(res)
  BY <1>2 DEF CheckedWell, Shaped, InboxState, OnePost, Resolving
<1> HIDE DEF res
<1>4. M \in Log
  BY <1>3, JoinedIsLog
<1> HIDE DEF M, pow
<1>5. /\ capped(M) \in SUBSET M /\ IsFair(capped(M))
      /\ Cardinality(capped(M)) <= MAX_POINTERS
      /\ Cardinality(Anon(capped(M))) <= ANON_POINTER_SLOTS
  BY <1>4, CappedBounded
<1> DEFINE K == capped(M)
<1> HIDE DEF K
<1>6. F \in SUBSET K
  BY DEF K
<1>7. K \in SUBSET M /\ F \in SUBSET M /\ Anon(F) \in SUBSET Anon(K) /\ Anon(K) \in SUBSET M
  BY <1>5, <1>6 DEF K, Anon
<1> HIDE DEF F
<1>8. IsFair(F)
  BY <1>4, <1>5, <1>6, <1>7, FairOfFair DEF K
<1>9. /\ IsFiniteSet(K) /\ Cardinality(K) \in Nat /\ Cardinality(F) \in Nat
      /\ IsFiniteSet(Anon(K)) /\ Cardinality(Anon(K)) \in Nat /\ Cardinality(Anon(F)) \in Nat
  BY <1>4, <1>7, LogOrder
<1>10. Cardinality(F) <= Cardinality(K) /\ Cardinality(Anon(F)) <= Cardinality(Anon(K))
  BY <1>6, <1>7, <1>9, FS_Subset
<1>11. Cardinality(F) <= MAX_POINTERS /\ Cardinality(Anon(F)) <= ANON_POINTER_SLOTS
  BY <1>5, <1>9, <1>10, InboxAssumption DEF K
<1>12. capped(F) = F
  BY <1>4, <1>7, <1>8, <1>11, CappedOfFew
<1>13. canonicalize(F, {}) = F
  <2>1. dedup(F, {}) = F
    BY DEF dedup
  <2> QED BY <1>12, <2>1 DEF canonicalize
<1>14. /\ X.creds = in.creds /\ X.pow = pow /\ X.pointers = capped(M)
       /\ DOMAIN X = {"creds", "pointers", "pow"}
  OBVIOUS
<1>15. F = {p \in X.pointers : \E c \in CredOf(X.creds, p) : c.fp = p.fp}
  BY <1>14 DEF F
<1> HIDE DEF X
<1>16. post_apply_cleanup(X) = [X EXCEPT !.pointers = F,
           !.creds = {c \in @ : \E p \in F : p.replier = c.replier}]
  BY <1>13, <1>15 DEF post_apply_cleanup
<1>17. new = [creds |-> {c \in in.creds : \E p \in F : p.replier = c.replier},
              pointers |-> F, pow |-> pow]
  <2>1. X = [creds |-> in.creds, pointers |-> capped(M), pow |-> pow]
    BY DEF X
  <2> QED BY <1>1, <1>16, <2>1
<1>18. F = {p \in capped(M) : Matches(in.creds, p)}
  BY DEF F, Matches
<1>19. /\ new.pointers = F /\ new.pow = pow
       /\ new.creds = {c \in in.creds : \E p \in F : p.replier = c.replier}
       /\ new = [creds |-> new.creds, pointers |-> new.pointers, pow |-> new.pow]
  BY <1>17
<1> QED BY <1>1, <1>18, <1>19 DEF OneCut, in, M, res, pow

\* Credentials that all have a pointer are no more than the pointers.
LEMMA CredsBounded ==
  ASSUME NEW C, OneEach(C), NEW S, IsFiniteSet(S),
         \A c \in C : \E p \in S : p.replier = c.replier
  PROVE  IsFiniteSet(C) /\ Cardinality(C) \in Nat /\ Cardinality(C) <= Cardinality(S)
<1> DEFINE f == [c \in C |-> CHOOSE p \in S : p.replier = c.replier]
<1>1. \A c \in C : f[c] \in S /\ f[c].replier = c.replier
  OBVIOUS
<1>2. f \in Injection(C, S)
  BY <1>1 DEF Injection, IsInjective, OneEach
<1> QED BY <1>2, FS_Injection, FS_CardinalityType

\* acc with what the checks of d let through of news.
Passed(acc, d, news) ==
  LET in == Checked(d, news)
  IN  [creds |-> acc.creds \cup in.fresh,
       pointers |-> acc.pointers \cup Resolving(in.creds, in.let_in)]

\* The cut leaves a state that verifies.
LEMMA UpdateIsValid ==
  ASSUME NEW now, NEW d, Shaped(d), verify(d), Timely(d.pointers, now),
         NEW news, Shaped(news), Timely(news.pointers, now),
         NEW new, OneCut(new, d, news)
  PROVE  Shaped(new) /\ verify(new) /\ Timely(new.pointers, now)
<1> DEFINE in == Checked(d, news)
           res == Resolving(in.creds, in.let_in)
           M == Joined(d, res)
<1>1. /\ new = [creds |-> new.creds, pointers |-> new.pointers, pow |-> new.pow]
      /\ new.pointers = {p \in capped(M) : Matches(in.creds, p)}
      /\ new.creds = {c \in in.creds : \E p \in new.pointers : p.replier = c.replier}
      /\ new.pow = adopt_difficulty(d.pow, news.pow)
      /\ in.fresh \cap Malformed = {}
  BY DEF OneCut
<1>2. /\ in.let_in \in SUBSET news.pointers
      /\ \A p \in in.let_in : is_anon(p) /\ p \notin Foreign => p.bits >= difficulty_bits(new.pow)
      /\ in.fresh \in SUBSET news.creds
      /\ in.creds \subseteq d.creds \cup in.fresh
      /\ in.creds \in SUBSET Cred /\ OneEach(in.creds)
  <2>1. CheckedWell(in, d, news)
    BY CheckedShape
  <2> HIDE DEF in
  <2> QED BY <1>1, <2>1 DEF CheckedWell
<1> HIDE DEF in
<1>3. /\ \A p \in res : p \in in.let_in /\ Resolves(in.creds, p)
      /\ res \in SUBSET Pointer /\ OnePost(res)
  BY <1>2 DEF Shaped, InboxState, OnePost, Resolving
<1> HIDE DEF res
<1>4. /\ M \in Log /\ M \in SUBSET Pointer /\ M \subseteq d.pointers \cup res
  BY <1>3, JoinedIsLog
<1> HIDE DEF M
<1>5. /\ capped(M) \in SUBSET M /\ IsFair(capped(M))
      /\ Cardinality(capped(M)) <= MAX_POINTERS /\ Cardinality(capped(M)) \in Nat
      /\ Cardinality(Anon(capped(M))) <= ANON_POINTER_SLOTS
  BY <1>4, CappedBounded
<1> DEFINE K == capped(M)
           P == new.pointers
<1> HIDE DEF K
<1>6. /\ P \in SUBSET K /\ K \in SUBSET M /\ P \in SUBSET M
      /\ Anon(P) \in SUBSET Anon(K) /\ Anon(K) \in SUBSET M
  BY <1>1, <1>5 DEF K, Anon
<1>7. IsFair(P)
  BY <1>4, <1>5, <1>6, FairOfFair DEF K
<1>8. /\ IsFiniteSet(K) /\ Cardinality(K) \in Nat
      /\ IsFiniteSet(P) /\ Cardinality(P) \in Nat
      /\ IsFiniteSet(Anon(K)) /\ Cardinality(Anon(K)) \in Nat /\ Cardinality(Anon(P)) \in Nat
  BY <1>4, <1>6, LogOrder
<1>9. Cardinality(P) <= Cardinality(K) /\ Cardinality(Anon(P)) <= Cardinality(Anon(K))
  BY <1>6, <1>8, FS_Subset
<1>10. Cardinality(P) <= MAX_POINTERS /\ Cardinality(Anon(P)) <= ANON_POINTER_SLOTS
  BY <1>5, <1>8, <1>9, InboxAssumption DEF K
<1>11. OneEach(new.creds) /\ new.creds \in SUBSET Cred
       /\ \A c \in new.creds : \E p \in P : p.replier = c.replier
  BY <1>1, <1>2 DEF OneEach
<1>12. Cardinality(new.creds) \in Nat /\ Cardinality(new.creds) <= Cardinality(P)
  BY <1>8, <1>11, CredsBounded
<1>13. Cardinality(new.creds) <= MAX_POINTERS
  BY <1>8, <1>10, <1>12, InboxAssumption
<1>14. d.pow \in Difficulty \cup {None} /\ news.pow \in Difficulty \cup {None}
       /\ d.pow \notin Malformed
  BY DEF Shaped, InboxState, verify
<1>15. /\ new.pow \in Difficulty \cup {None} /\ new.pow \notin Malformed
       /\ difficulty_bits(new.pow) \in Nat /\ difficulty_bits(new.pow) >= POW_FLOOR_BITS
  BY <1>1, <1>14, LatchKeeps
<1>16. Shaped(new)
  <2>1. P \in SUBSET Pointer /\ OnePost(P)
    BY <1>4, <1>6 DEF Log, OnePost
  <2> QED BY <1>1, <1>11, <1>15, <2>1 DEF Shaped, InboxState
<1>17. new.creds \cap Malformed = {}
  <2>1. d.creds \cap Malformed = {}
    BY DEF verify, creds_verify
  <2> QED BY <1>1, <1>2, <2>1
<1>18. creds_verify(new)
  BY <1>11, <1>13, <1>17 DEF creds_verify
<1>19. ASSUME NEW p \in P
       PROVE  /\ Resolves(new.creds, p)
              /\ is_anon(p) => p.bits >= POW_FLOOR_BITS
              /\ p.time <= now + MAX_FUTURE_MS
  <2>1. PICK c \in CredOf(in.creds, p) : c.fp = p.fp
    BY <1>1 DEF Matches
  <2>2. c \in CredOf(new.creds, p)
    BY <1>1, <2>1 DEF CredOf
  <2>3. CASE p \in d.pointers
    <3>1. Resolves(d.creds, p) /\ (is_anon(p) => p.bits >= POW_FLOOR_BITS)
      BY <2>3 DEF verify, pointers_verify
    <3>2. p.time <= now + MAX_FUTURE_MS
      BY <2>3 DEF Timely
    <3> QED BY <2>1, <2>2, <3>1, <3>2 DEF Resolves
  <2>4. CASE p \in res
    <3>1. p \in in.let_in /\ Resolves(in.creds, p) /\ p \in Pointer
      BY <1>3, <2>4
    <3>2. p \notin Foreign \cup Malformed /\ p \in news.pointers
      BY <1>2, <3>1 DEF Resolves
    <3>3. p.time <= now + MAX_FUTURE_MS
      BY <3>2 DEF Timely
    <3>4. is_anon(p) => p.bits >= POW_FLOOR_BITS
      <4>1. p.bits \in Nat
        BY <3>1, PointerTypes
      <4>2. is_anon(p) => p.bits >= difficulty_bits(new.pow)
        BY <1>2, <3>1, <3>2
      <4> QED BY <1>15, <4>1, <4>2, PowAssumption
    <3> QED BY <2>1, <2>2, <3>2, <3>3, <3>4 DEF Resolves
  <2> QED BY <1>4, <1>6, <2>3, <2>4
<1>20. pointers_verify(new)
  <2>1. \A p \in P : Cardinality(Group(P, p)) <= fp_cap(p)
    BY <1>7 DEF IsFair
  <2>2. \A p, q \in P : q.post = p.post => q = p
    BY <1>16 DEF Shaped, OnePost
  <2> QED BY <1>10, <1>19, <2>1, <2>2 DEF pointers_verify
<1> QED BY <1>15, <1>16, <1>18, <1>19, <1>20 DEF verify, Timely

(***************************************************************************)
(* An update keeps a state sound: what passes the checks joins what did.   *)
(***************************************************************************)
LEMMA UpdateIsSound ==
  ASSUME NEW now, NEW d, NEW acc, Sound(d, acc, now),
         NEW news, Shaped(news), Timely(news.pointers, now),
         NEW new, OneCut(new, d, news)
  PROVE  Sound(new, Passed(acc, d, news), now)
<1> DEFINE in == Checked(d, news)
           res == Resolving(in.creds, in.let_in)
           M == Joined(d, res)
           all == Passed(acc, d, news)
<1>0. /\ Shaped(d) /\ verify(d) /\ Timely(d.pointers, now)
      /\ acc \in Accepted
      /\ d.creds \subseteq acc.creds /\ d.pointers \subseteq acc.pointers
      /\ \A p \in acc.pointers : Matches(acc.creds, p)
      /\ OnePost(acc.pointers) /\ OneEach(acc.creds) => d.pointers = capped(acc.pointers)
  BY DEF Sound
<1>1. /\ new.pointers = {p \in capped(M) : Matches(in.creds, p)}
      /\ new.creds = {c \in in.creds : \E p \in new.pointers : p.replier = c.replier}
  BY DEF OneCut
<1>2. /\ in.let_in \in SUBSET news.pointers
      /\ \A q \in in.let_in : is_anon(q) /\ q \notin Foreign
           => q.bits >= difficulty_bits(adopt_difficulty(d.pow, news.pow))
      /\ in.fresh \in SUBSET news.creds
      /\ \A c \in in.fresh : \A h \in CredOf(d.creds, c) : h.hash < c.hash
      /\ in.fresh \subseteq in.creds /\ in.creds \subseteq d.creds \cup in.fresh
      /\ in.creds \in SUBSET Cred /\ OneEach(in.creds)
      /\ \A h \in d.creds : h \in in.creds
           \/ \E e \in in.fresh : e.replier = h.replier /\ h.hash < e.hash
  <2>1. CheckedWell(in, d, news)
    BY <1>0, CheckedShape
  <2> HIDE DEF in
  <2> QED BY <2>1 DEF CheckedWell
<1>3. all.creds = acc.creds \cup in.fresh /\ all.pointers = acc.pointers \cup res
      /\ all = [creds |-> all.creds, pointers |-> all.pointers]
  BY DEF Passed
<1> HIDE DEF in, all
<1>4. /\ \A p \in res : p \in in.let_in /\ Resolves(in.creds, p)
      /\ res \in SUBSET Pointer /\ OnePost(res)
  BY <1>2 DEF Shaped, InboxState, OnePost, Resolving
<1> HIDE DEF res
<1>5. /\ M \in Log /\ M \in SUBSET Pointer
      /\ M \subseteq d.pointers \cup res
      /\ (\A p \in d.pointers, q \in res : p.post = q.post => p = q) => M = d.pointers \cup res
  BY <1>0, <1>4, JoinedIsLog, JoinedIsUnion
<1> HIDE DEF M
<1>6. capped(M) \in SUBSET M
  BY <1>5, CappedBounded
<1>7. all \in Accepted
  BY <1>0, <1>2, <1>3, <1>4 DEF Accepted, Shaped, InboxState
<1>8. new.creds \subseteq all.creds /\ new.pointers \subseteq all.pointers
  BY <1>0, <1>1, <1>2, <1>3, <1>5, <1>6
<1>9. \A p \in all.pointers : Matches(all.creds, p)
  <2>1. \A p \in acc.pointers : Matches(all.creds, p)
    BY <1>0, <1>3 DEF Matches, CredOf
  <2>2. \A p \in res : Matches(all.creds, p)
    BY <1>0, <1>2, <1>3, <1>4 DEF Matches, Resolves, CredOf
  <2> QED BY <1>3, <2>1, <2>2
<1>10. ASSUME OnePost(all.pointers), OneEach(all.creds)
       PROVE  new.pointers = capped(all.pointers)
  <2>1. OneEach(acc.creds)
    BY <1>3, <1>10 DEF OneEach
  <2>2. OnePost(acc.pointers)
    BY <1>3, <1>10 DEF OnePost
  <2>3. all.pointers \in Log
    BY <1>7, <1>10 DEF Log, Accepted
  <2>4. M = d.pointers \cup res
    BY <1>0, <1>3, <1>5, <1>10 DEF OnePost
  <2>5. \A p \in capped(M) : Matches(in.creds, p)
    <3>1. ASSUME NEW p \in d.pointers PROVE Matches(in.creds, p)
      <4>1. PICK h \in d.creds : h.replier = p.replier /\ h.fp = p.fp
        BY <1>0 DEF verify, pointers_verify, Resolves, CredOf
      <4>2. h \in in.creds
        <5> SUFFICES ASSUME NEW e \in in.fresh, e.replier = h.replier, h.hash < e.hash
                     PROVE  FALSE
          BY <1>2
        <5>1. e = h
          BY <1>0, <1>3, <1>10 DEF OneEach
        <5>2. h \in Cred
          BY <1>0 DEF Shaped, InboxState
        <5>3. h.hash \in Nat
          BY <5>2, InboxAssumption DEF CredType
        <5> QED BY <5>1, <5>3
      <4> QED BY <4>1, <4>2 DEF Matches, CredOf
    <3>2. \A p \in res : Matches(in.creds, p)
      BY <1>4 DEF Matches, Resolves
    <3> QED BY <1>5, <1>6, <3>1, <3>2
  <2>6. new.pointers = capped(M)
    BY <1>1, <2>5
  <2>7. acc.pointers \in SUBSET all.pointers /\ res \in SUBSET all.pointers
    BY <1>3
  <2>8. CapsDoNotCompound(acc.pointers, res)
    BY <2>3, <2>7, CappedAbsorbs
  <2>9. d.pointers = capped(acc.pointers)
    BY <1>0, <2>1, <2>2
  <2> QED BY <1>3, <2>4, <2>6, <2>8, <2>9 DEF CapsDoNotCompound
<1>11. Shaped(new) /\ verify(new) /\ Timely(new.pointers, now)
  BY <1>0, UpdateIsValid
<1> QED BY <1>7, <1>8, <1>9, <1>10, <1>11 DEF Sound, all

\* A valid state that is stored whole is sound: it counts as what passed.
LEMMA StoreIsSound ==
  ASSUME NEW d, Shaped(d), NEW now, validate_state(d, now)
  PROVE  Sound(d, [creds |-> d.creds, pointers |-> d.pointers], now)
<1>1. verify(d) /\ Timely(d.pointers, now)
  BY ScrubOfTimely DEF validate_state, Shaped
<1>2. d.creds \in SUBSET Cred /\ d.pointers \in SUBSET Pointer
  BY DEF Shaped, InboxState
<1>3. d.pointers \in Log /\ IsFair(d.pointers)
      /\ Cardinality(d.pointers) <= MAX_POINTERS
      /\ Cardinality(Anon(d.pointers)) <= ANON_POINTER_SLOTS
      /\ \A p \in d.pointers : Matches(d.creds, p)
  BY <1>1, <1>2 DEF Shaped, Log, IsFair, verify, pointers_verify, Resolves, Matches
<1>4. capped(d.pointers) = d.pointers
  BY <1>3, CappedOfFew
<1> QED BY <1>1, <1>2, <1>3, <1>4 DEF Sound, Accepted

\* The inbox of a new peer is sound, with nothing merged.
LEMMA EmptyIsSound ==
  ASSUME NEW now
  PROVE  Shaped(EmptyInbox)
         /\ Sound(EmptyInbox, [creds |-> {}, pointers |-> {}], now)
<1>1. /\ EmptyInbox = [creds |-> {}, pointers |-> {}, pow |-> None]
      /\ EmptyInbox.creds = {} /\ EmptyInbox.pointers = {} /\ EmptyInbox.pow = None
  BY DEF EmptyInbox
<1>2. Shaped(EmptyInbox) /\ EmptyInbox \in InboxState
  BY <1>1 DEF Shaped, InboxState, OneEach, OnePost
<1>3. Cardinality({}) = 0 /\ Anon({}) = {}
  BY FS_EmptySet DEF Anon
<1>4. verify(EmptyInbox)
  BY <1>1, <1>3, PowAssumption, InboxAssumption DEF verify, creds_verify, pointers_verify
<1>5. validate_state(EmptyInbox, now)
  BY <1>1, <1>2, <1>4, ScrubOfTimely DEF validate_state, Timely
<1> QED BY <1>1, <1>2, <1>5, StoreIsSound

\* A clock that runs on makes no state unsound.
LEMMA SoundLater ==
  ASSUME NEW d, NEW acc, NEW now \in Nat, NEW later \in Nat, now <= later,
         Sound(d, acc, now)
  PROVE  Sound(d, acc, later)
<1>1. \A p \in d.pointers : p.time \in Nat /\ p.time <= now + MAX_FUTURE_MS
  BY PointerTypes DEF Sound, Shaped, InboxState, Timely
<1>2. Timely(d.pointers, later)
  BY <1>1, InboxAssumption DEF Timely
<1> QED BY <1>2 DEF Sound

\* What is offered has the shape of what it is offered from.
LEMMA DeltaShaped ==
  ASSUME NEW d, Shaped(d), NEW theirs
  PROVE  /\ Shaped(delta(d, theirs))
         /\ delta(d, theirs).creds \in SUBSET d.creds
         /\ delta(d, theirs).pointers \in SUBSET d.pointers
         /\ delta(d, theirs).pow \in {d.pow, None}
<1>1. /\ CredsFor(d, theirs) \in SUBSET d.creds /\ PointersFor(d, theirs) \in SUBSET d.pointers
      /\ delta(d, theirs).pow \in {d.pow, None}
      /\ delta(d, theirs) = [creds |-> CredsFor(d, theirs), pointers |-> PointersFor(d, theirs),
                             pow |-> delta(d, theirs).pow]
  BY DEF CredsFor, PointersFor, delta
<1>2. /\ d.creds \in SUBSET Cred /\ d.pointers \in SUBSET Pointer
      /\ d.pow \in Difficulty \cup {None} /\ OneEach(d.creds) /\ OnePost(d.pointers)
  BY DEF Shaped, InboxState
<1>3. /\ OneEach(CredsFor(d, theirs)) /\ OnePost(PointersFor(d, theirs))
  BY <1>1, <1>2 DEF OneEach, OnePost
<1>4. delta(d, theirs) \in InboxState
  BY <1>1, <1>2 DEF InboxState
<1> QED BY <1>1, <1>3, <1>4 DEF Shaped

\* What of update u a peer that stores d considers news.
News(d, u, now) ==
  LET body == scrub_future(u.body, now)
  IN  IF u.whole THEN delta(body, summarize(d)) ELSE body

\* What an update brings, after the scrub, has the shape of an inbox.
LEMMA NewsShaped ==
  ASSUME NEW d, NEW now, NEW u, Shaped(u.body)
  PROVE  Shaped(News(d, u, now)) /\ Timely(News(d, u, now).pointers, now)
<1>1. /\ Shaped(scrub_future(u.body, now))
      /\ Timely(scrub_future(u.body, now).pointers, now)
  BY ScrubShaped
<1> DEFINE body == scrub_future(u.body, now)
<1> HIDE DEF body
<1>2. /\ Shaped(delta(body, summarize(d)))
      /\ delta(body, summarize(d)).pointers \in SUBSET body.pointers
  BY <1>1, DeltaShaped DEF body
<1>3. Timely(delta(body, summarize(d)).pointers, now)
  BY <1>1, <1>2 DEF Timely, body
<1> QED BY <1>1, <1>2, <1>3 DEF News, body

\* An update is one cut, or nothing.
LEMMA UpdateCuts ==
  ASSUME NEW stored, NEW d, d = Stored(stored), NEW acc, NEW now, Sound(d, acc, now),
         NEW u, Shaped(u.body),
         NEW new, new = update_state(stored, u, now), new # None
  PROVE  OneCut(new, d, News(d, u, now))
         \/ (new = d /\ News(d, u, now) = EmptyInbox)
<1>1. scrub_future(d, now) = d /\ Shaped(d)
  BY SoundIsValid DEF Sound
<1>2. \/ new = d /\ News(d, u, now) = EmptyInbox
      \/ new = apply_delta(d, News(d, u, now))
  BY <1>1 DEF update_state, merge, News
<1>3. Shaped(News(d, u, now))
  BY NewsShaped
<1> QED BY <1>1, <1>2, <1>3, UpdateIsOneCut

\* Without news nothing is merged.
LEMMA NothingPassed ==
  ASSUME NEW acc \in Accepted, NEW d
  PROVE  Passed(acc, d, EmptyInbox) = acc
<1>1. EmptyInbox.creds = {} /\ EmptyInbox.pointers = {}
  BY DEF EmptyInbox
<1>2. Checked(d, EmptyInbox).fresh = {} /\ Checked(d, EmptyInbox).let_in = {}
  BY <1>1 DEF Checked, Clearing
<1>3. \A C : Resolving(C, {}) = {}
  BY DEF Resolving
<1> QED BY <1>2, <1>3 DEF Passed, Accepted

-----------------------------------------------------------------------------
(* The inductive invariant *)

(***************************************************************************)
(* Each peer's state is sound, and each update in flight has the shape of  *)
(* the code's types.  A stale or a repeated update does no harm.           *)
(***************************************************************************)
InboxInv ==
  /\ inbox \in [Replica -> InboxState \cup {None}]
  /\ clock \in [Replica -> 0 .. MaxClock]
  /\ wire \in [Replica -> [Replica -> Update \cup {None}]]
  /\ merged \in [Replica -> Accepted]
  /\ \A r \in Replica : Sound(Stored(inbox[r]), merged[r], clock[r])
  /\ \A s, r \in Replica : wire[s][r] # None => Shaped(wire[s][r].body)

\* An update is one join and one cut of what the peer stores.
LEMMA HostUpdateCuts ==
  ASSUME InboxInv, NEW r \in Replica, NEW u, Shaped(u.body), HostUpdate(r, u)
  PROVE  LET new  == update_state(inbox[r], u, clock[r])
             d    == Stored(inbox[r])
             news == News(d, u, clock[r])
         IN  /\ inbox' = [inbox EXCEPT ![r] = new] /\ new # None
             /\ merged' = [merged EXCEPT ![r] = Passed(merged[r], d, news)]
             /\ Shaped(news) /\ Timely(news.pointers, clock[r])
             /\ OneCut(new, d, news) \/ (new = d /\ news = EmptyInbox)
<1> DEFINE new  == update_state(inbox[r], u, clock[r])
           d    == Stored(inbox[r])
           news == News(d, u, clock[r])
           kept == scrub_future(Stored(inbox[r]), clock[r])
           body == scrub_future(u.body, clock[r])
           in   == Checked(kept, IF u.whole THEN delta(body, summarize(kept)) ELSE body)
<1>1. Sound(d, merged[r], clock[r])
  BY DEF InboxInv
<1>2. kept = d
  BY <1>1, SoundIsValid
<1>3. in = Checked(d, news)
  BY <1>2 DEF News
<1>4. /\ new # None
      /\ inbox' = [inbox EXCEPT ![r] = new]
      /\ merged' = [merged EXCEPT ![r] = [creds |-> @.creds \cup in.fresh,
                                         pointers |-> @.pointers \cup Resolving(in.creds, in.let_in)]]
  <2>1. /\ inbox' = [inbox EXCEPT ![r] = new]
        /\ inbox'[r] # None
        /\ \E x \in {in} :
             merged' = [merged EXCEPT ![r] = [creds |-> @.creds \cup x.fresh,
                                             pointers |-> @.pointers \cup Resolving(x.creds, x.let_in)]]
    BY Zenon DEF HostUpdate
  <2>2. r \in DOMAIN inbox
    BY DEF InboxInv
  <2> HIDE DEF new, in
  <2>3. inbox'[r] = new
    BY <2>1, <2>2
  <2> QED BY <2>1, <2>3
<1> HIDE DEF in
<1>5. merged' = [merged EXCEPT ![r] = Passed(merged[r], d, news)]
  BY <1>3, <1>4 DEF Passed
<1>6. Shaped(news) /\ Timely(news.pointers, clock[r])
  BY NewsShaped
<1>7. OneCut(new, d, news) \/ (new = d /\ news = EmptyInbox)
  BY <1>1, <1>4, UpdateCuts
<1> QED BY <1>4, <1>5, <1>6, <1>7

\* An update keeps the invariant.
LEMMA HostUpdateKeeps ==
  ASSUME InboxInv, NEW r \in Replica, NEW u, Shaped(u.body), HostUpdate(r, u),
         UNCHANGED <<clock, wire>>
  PROVE  InboxInv'
<1> DEFINE new  == update_state(inbox[r], u, clock[r])
           d    == Stored(inbox[r])
           news == News(d, u, clock[r])
           acc  == Passed(merged[r], d, news)
<1>1. /\ inbox' = [inbox EXCEPT ![r] = new] /\ new # None
      /\ merged' = [merged EXCEPT ![r] = acc]
      /\ Shaped(news) /\ Timely(news.pointers, clock[r])
      /\ OneCut(new, d, news) \/ (new = d /\ news = EmptyInbox)
  BY HostUpdateCuts
<1>2. Sound(d, merged[r], clock[r]) /\ merged[r] \in Accepted
  BY DEF InboxInv
<1> HIDE DEF new, d, news
<1>3. Sound(new, acc, clock[r])
  <2>1. CASE OneCut(new, d, news)
    BY <1>1, <1>2, <2>1, UpdateIsSound
  <2>2. CASE new = d /\ news = EmptyInbox
    BY <1>2, <2>2, NothingPassed
  <2> QED BY <1>1, <2>1, <2>2
<1> HIDE DEF acc
<1>4. new \in InboxState /\ acc \in Accepted
  BY <1>3 DEF Sound, Shaped
<1>5. \A q \in Replica : inbox'[q] = (IF q = r THEN new ELSE inbox[q])
                        /\ merged'[q] = (IF q = r THEN acc ELSE merged[q])
  BY <1>1 DEF InboxInv
<1>6. \A q \in Replica : Sound(Stored(inbox'[q]), merged'[q], clock[q])
  BY <1>1, <1>3, <1>5 DEF InboxInv, Stored
<1>7. /\ inbox' \in [Replica -> InboxState \cup {None}]
      /\ merged' \in [Replica -> Accepted]
  BY <1>1, <1>4 DEF InboxInv
<1> QED BY <1>6, <1>7 DEF InboxInv

\* A first copy that the node stores keeps the invariant.
LEMMA HostStoreKeeps ==
  ASSUME InboxInv, NEW r \in Replica, NEW d, Shaped(d), HostStore(r, d),
         UNCHANGED <<clock, wire>>
  PROVE  InboxInv'
<1> DEFINE acc == [creds |-> d.creds, pointers |-> d.pointers]
<1>1. /\ inbox' = [inbox EXCEPT ![r] = d] /\ validate_state(d, clock[r])
      /\ merged' = [merged EXCEPT ![r] = acc]
  BY DEF HostStore
<1>2. Sound(d, acc, clock[r])
  BY <1>1, StoreIsSound
<1> HIDE DEF acc
<1>3. d \in InboxState /\ acc \in Accepted /\ d # None
  BY <1>2, InboxNone DEF Sound, Shaped
<1>4. \A q \in Replica : inbox'[q] = (IF q = r THEN d ELSE inbox[q])
                        /\ merged'[q] = (IF q = r THEN acc ELSE merged[q])
  BY <1>1 DEF InboxInv
<1>5. \A q \in Replica : Sound(Stored(inbox'[q]), merged'[q], clock[q])
  BY <1>2, <1>3, <1>4 DEF InboxInv, Stored
<1>6. /\ inbox' \in [Replica -> InboxState \cup {None}]
      /\ merged' \in [Replica -> Accepted]
  BY <1>1, <1>3 DEF InboxInv
<1> QED BY <1>5, <1>6 DEF InboxInv

\* A copy put on top of a stored one keeps the invariant.
LEMMA HostPutKeeps ==
  ASSUME InboxInv, NEW r \in Replica, NEW d, Shaped(d), HostPut(r, d),
         UNCHANGED <<clock, wire>>
  PROVE  InboxInv'
<1>1. CASE HostStore(r, d)
  BY <1>1, HostStoreKeeps
<1>2. CASE HostUpdate(r, [whole |-> TRUE, body |-> d])
  <2>1. Shaped([whole |-> TRUE, body |-> d].body)
    OBVIOUS
  <2> QED BY <1>2, <2>1, HostUpdateKeeps
<1> QED BY <1>1, <1>2 DEF HostPut

\* What a client sends.
LEMMA MaterializedShaped ==
  ASSUME NEW c \in Cred, NEW p \in Pointer, NEW pow \in Difficulty \cup {None},
         Materialized(c, p, pow) # None
  PROVE  Shaped(Materialized(c, p, pow))
<1> DEFINE news == [creds |-> {c}, pointers |-> {p}, pow |-> pow]
           new  == Materialized(c, p, pow)
<1>1. Shaped(news)
  BY DEF Shaped, InboxState, OneEach, OnePost
<1>2. Timely(news.pointers, p.time)
  BY PointerTypes, InboxAssumption DEF Timely
<1>3. new = apply_delta(EmptyInbox, news)
  BY DEF Materialized
<1> HIDE DEF news, new
<1>4. /\ Shaped(EmptyInbox) /\ verify(EmptyInbox) /\ Timely(EmptyInbox.pointers, p.time)
  BY EmptyIsSound DEF Sound
<1>5. OneCut(new, EmptyInbox, news)
  BY <1>1, <1>3, <1>4, UpdateIsOneCut DEF new
<1>6. Shaped(new)
  BY <1>1, <1>2, <1>4, <1>5, UpdateIsValid
<1> QED BY <1>6 DEF new

\* At first no peer has an inbox.
LEMMA InboxInvInit == Init => InboxInv
<1> SUFFICES ASSUME Init PROVE InboxInv
  OBVIOUS
<1>1. /\ inbox = [r \in Replica |-> None]
      /\ clock \in [Replica -> 0 .. MaxClock]
      /\ wire = [s \in Replica |-> [r \in Replica |-> None]]
      /\ merged = [r \in Replica |-> [creds |-> {}, pointers |-> {}]]
  BY DEF Init
<1>2. [creds |-> {}, pointers |-> {}] \in Accepted
  BY DEF Accepted
<1>3. \A r \in Replica : Sound(Stored(inbox[r]), merged[r], clock[r])
  BY <1>1, EmptyIsSound DEF Stored
<1> QED BY <1>1, <1>2, <1>3 DEF InboxInv

\* Every step keeps the invariant.
LEMMA InboxInvStep == InboxInv /\ [Next]_vars => InboxInv'
<1> SUFFICES ASSUME InboxInv, [Next]_vars PROVE InboxInv'
  OBVIOUS
<1>1. ASSUME NEW r \in Replica, Tick(r) PROVE InboxInv'
  <2>1. /\ clock' = [clock EXCEPT ![r] = clock[r] + 1] /\ clock[r] < MaxClock
        /\ UNCHANGED <<inbox, wire, merged>>
    BY <1>1 DEF Tick
  <2>2. clock' \in [Replica -> 0 .. MaxClock] /\ \A q \in Replica : clock[q] <= clock'[q]
    BY <2>1, InboxAssumption DEF InboxInv
  <2>3. \A q \in Replica : clock[q] \in Nat /\ clock'[q] \in Nat
    BY <2>2, InboxAssumption DEF InboxInv
  <2>4. \A q \in Replica : Sound(Stored(inbox[q]), merged[q], clock'[q])
    BY <2>2, <2>3, SoundLater DEF InboxInv
  <2> QED BY <2>1, <2>2, <2>4 DEF InboxInv
<1>2. ASSUME NEW r \in Replica, EnsureInbox(r) PROVE InboxInv'
  BY <1>2, EmptyIsSound, HostPutKeeps DEF EnsureInbox
<1>3. ASSUME NEW r \in Replica, NEW c \in Cred, NEW p \in Pointer,
             NEW pow \in Difficulty \cup {None}, Put(r, c, p, pow)
      PROVE  InboxInv'
  BY <1>3, MaterializedShaped, HostPutKeeps DEF Put
<1>4. ASSUME NEW r \in Replica, NEW p \in Pointer,
             NEW C \in {{}} \cup {{c} : c \in CredOf(Cred, p)}, Write(r, C, p)
      PROVE  InboxInv'
  <2> DEFINE u == [whole |-> FALSE, body |-> [creds |-> C, pointers |-> {p}, pow |-> None]]
  <2>1. C \in SUBSET Cred /\ OneEach(C)
    BY DEF CredOf, OneEach
  <2>2. Shaped(u.body)
    BY <2>1 DEF Shaped, InboxState, OnePost
  <2>3. HostUpdate(r, u) /\ UNCHANGED <<clock, wire>>
    BY <1>4 DEF Write
  <2> HIDE DEF u
  <2> QED BY <2>2, <2>3, HostUpdateKeeps
<1>5. ASSUME NEW s \in Replica, NEW r \in Replica, Offer(s, r) PROVE InboxInv'
  <2>1. Shaped(inbox[s]) /\ UNCHANGED <<inbox, clock, merged>>
    BY <1>5 DEF Offer, InboxInv, Stored, Sound
  <2>2. PICK u \in Update : wire' = [wire EXCEPT ![s][r] = u] /\ Shaped(u.body)
    <3>1. [whole |-> TRUE, body |-> inbox[s]] \in Update
      BY <2>1 DEF Update, Shaped
    <3>2. \A t : /\ Shaped(delta(inbox[s], t))
                 /\ [whole |-> FALSE, body |-> delta(inbox[s], t)] \in Update
      BY <2>1, DeltaShaped DEF Update, Shaped
    <3> QED BY <1>5, <2>1, <3>1, <3>2 DEF Offer
  <2>3. wire' \in [Replica -> [Replica -> Update \cup {None}]]
    BY <2>2 DEF InboxInv
  <2>4. \A q, t \in Replica : wire'[q][t] = (IF q = s /\ t = r THEN u ELSE wire[q][t])
    BY <2>2 DEF InboxInv
  <2> QED BY <2>1, <2>2, <2>3, <2>4 DEF InboxInv
<1>6. ASSUME NEW s \in Replica, NEW r \in Replica, Deliver(s, r) PROVE InboxInv'
  BY <1>6, HostUpdateKeeps DEF Deliver, InboxInv
<1>7. ASSUME NEW s \in Replica, NEW r \in Replica, Lose(s, r) PROVE InboxInv'
  BY <1>7 DEF Lose, InboxInv
<1>8. ASSUME NEW r \in Replica, NEW s \in Replica, Fetch(r, s) PROVE InboxInv'
  <2>1. Shaped(inbox[s])
    BY <1>8 DEF Fetch, InboxInv, Stored, Sound
  <2> QED BY <1>8, <2>1, HostStoreKeeps DEF Fetch
<1>9. ASSUME UNCHANGED vars PROVE InboxInv'
  BY <1>9 DEF vars, InboxInv
<1> QED BY <1>1, <1>2, <1>3, <1>4, <1>5, <1>6, <1>7, <1>8, <1>9 DEF Next

\* The invariant holds in every state of every run.
LEMMA InboxInvHolds == Spec => []InboxInv
BY InboxInvInit, InboxInvStep, PTL DEF Spec

-----------------------------------------------------------------------------
(* What the invariant gives *)

\* Type correctness: one credential a key, as the code's map has it.
THEOREM InboxTypes == Spec => []InboxTypeOK
<1>1. ASSUME InboxInv PROVE InboxTypeOK
  <2>1. ASSUME NEW r \in Replica, inbox[r] # None, NEW c \in inbox[r].creds
        PROVE  CredOf(inbox[r].creds, c) = {c}
    <3>1. OneEach(inbox[r].creds)
      BY <1>1, <2>1 DEF InboxInv, Stored, Sound, Shaped
    <3> QED BY <2>1, <3>1 DEF OneEach, CredOf
  <2> QED BY <1>1, <2>1 DEF InboxTypeOK, InboxInv, Accepted
<1> QED BY <1>1, InboxInvHolds, PTL

(***************************************************************************)
(* What a peer stores, its own validate_state accepts: every pointer under *)
(* a live credential and every credential under a live pointer, within all *)
(* caps, whatever was merged in whatever order.                            *)
(***************************************************************************)
THEOREM InboxStatesValidHolds == Spec => []InboxStatesValid
<1>1. InboxInv => InboxStatesValid
  BY SoundIsValid DEF InboxInv, InboxStatesValid, Seeded, Stored
<1> QED BY <1>1, InboxInvHolds, PTL

(***************************************************************************)
(* "A pure function of the pointer set": while no key traded its           *)
(* credential and no two pointers named one reply, a peer stores one pass  *)
(* of the caps over all that passed.                                       *)
(***************************************************************************)
THEOREM InboxIsOnePassHolds == Spec => []InboxIsOnePass
<1>1. ASSUME InboxInv PROVE InboxIsOnePass
  <2> SUFFICES ASSUME NEW r \in Replica, Seeded(r),
                      \A c, e \in merged[r].creds : c.replier = e.replier => c = e,
                      \A p, q \in merged[r].pointers : p.post = q.post => p = q
               PROVE  inbox[r].pointers = capped(merged[r].pointers)
    BY DEF InboxIsOnePass
  <2>1. Sound(inbox[r], merged[r], clock[r])
    BY <1>1 DEF InboxInv, Seeded, Stored
  <2>2. OneEach(merged[r].creds) /\ OnePost(merged[r].pointers)
    BY DEF OneEach, OnePost
  <2> QED BY <2>1, <2>2 DEF Sound
<1> QED BY <1>1, InboxInvHolds, PTL

-----------------------------------------------------------------------------
(* What a horizon says *)

\* x has the fairness cap of newer ones of its group in the tier T, or the
\* tier has k newer ones.
Blocked(T, k, x) ==
  \/ ~(Cardinality(Newer(PointerOrder, Group(T, x), x)) < fp_cap(x))
  \/ ~(Cardinality(Newer(PointerOrder, T, x)) < k)

TierOf(S, x) == IF is_anon(x) THEN Anon(S) ELSE Attested(S)

\* The slots of x's tier, beside the attested pointers of S.
SlotsOf(S, x) == IF is_anon(x) THEN share(Attested(S)) ELSE MAX_POINTERS

\* What a peer's horizons would let it be offered.
Admitted(theirs, p) ==
  /\ admits(IF is_anon(p) THEN theirs.anon_horizon ELSE theirs.attested_horizon, p)
  /\ \A o \in Group(theirs.fp_horizons, p) : <<o, p>> \in PointerOrder

\* A delta carries the pointers that are unknown to the receiver and that its
\* horizons admit.
LEMMA PointersForIsAdmitted ==
  ASSUME NEW d, NEW theirs, NEW p
  PROVE  p \in PointersFor(d, theirs)
           <=> p \in d.pointers /\ p.post \notin theirs.ids /\ Admitted(theirs, p)
BY DEF PointersFor, Admitted

\* A sound inbox keeps its tiers within their slots and each fingerprint within
\* its cap.
LEMMA TierBounds ==
  ASSUME NEW d, NEW acc, NEW now, Sound(d, acc, now), NEW x \in Pointer
  PROVE  /\ d.pointers \in Log /\ IsFair(d.pointers)
         /\ TierOf(d.pointers, x) \in SUBSET d.pointers
         /\ Group(TierOf(d.pointers, x), x) = Group(d.pointers, x)
         /\ SlotsOf(d.pointers, x) \in Nat
         /\ Cardinality(TierOf(d.pointers, x)) \in Nat
         /\ Cardinality(TierOf(d.pointers, x)) <= SlotsOf(d.pointers, x)
         /\ Cardinality(Group(d.pointers, x)) <= fp_cap(x)
<1> DEFINE P == d.pointers
<1>1. P \in Log /\ P \in SUBSET Pointer /\ pointers_verify(d)
  BY DEF Sound, Shaped, InboxState, Log, verify
<1>2. /\ IsFair(P) /\ Cardinality(P) <= MAX_POINTERS
      /\ Cardinality(Anon(P)) <= ANON_POINTER_SLOTS
  BY <1>1 DEF pointers_verify, IsFair
<1> HIDE DEF P
<1>3. /\ Attested(P) \in SUBSET P /\ Anon(P) \in SUBSET P /\ P = Attested(P) \cup Anon(P)
      /\ Attested(P) \cap Anon(P) = {}
  BY <1>1, Tiers
<1>4. /\ IsFiniteSet(P) /\ IsFiniteSet(Attested(P)) /\ IsFiniteSet(Anon(P))
      /\ Cardinality(Attested(P)) \in Nat /\ Cardinality(Anon(P)) \in Nat
  BY <1>1, <1>3, LogOrder
<1>5. Cardinality(Attested(P)) + Cardinality(Anon(P)) <= MAX_POINTERS
  <2>1. Cardinality(Attested(P) \cup Anon(P)) = Cardinality(Attested(P)) + Cardinality(Anon(P))
    BY <1>3, <1>4, DisjointCount
  <2> QED BY <1>2, <1>3, <2>1
<1>6. /\ share(Attested(P)) \in Nat /\ Cardinality(Anon(P)) <= share(Attested(P))
      /\ Cardinality(Attested(P)) <= MAX_POINTERS /\ MAX_POINTERS \in Nat
  <2>1. Cardinality(Anon(P)) + Cardinality(Attested(P)) <= MAX_POINTERS
    BY <1>4, <1>5
  <2> QED BY <1>2, <1>4, <1>5, <2>1, ShareBounded, InboxAssumption
<1>7. Group(TierOf(P, x), x) = Group(P, x)
  BY DEF TierOf, Group, Attested, Anon, is_anon
<1>8. Cardinality(Group(P, x)) <= fp_cap(x)
  <2>1. CASE Group(P, x) = {}
    BY <2>1, FS_EmptySet, PointerTypes
  <2>2. ASSUME NEW q \in Group(P, x) PROVE Cardinality(Group(P, x)) <= fp_cap(x)
    <3>1. q \in P /\ Group(P, q) = Group(P, x) /\ fp_cap(q) = fp_cap(x)
      BY DEF Group, fp_cap, is_anon
    <3> QED BY <1>2, <3>1 DEF IsFair
  <2> QED BY <2>1, <2>2
<1> QED BY <1>1, <1>2, <1>3, <1>4, <1>6, <1>7, <1>8 DEF TierOf, SlotsOf, P

\* The meaning of the summary's horizons: they stop exactly the pointers that
\* the caps of the receiver would evict again.
LEMMA AdmittedIsExact ==
  ASSUME NEW d, NEW acc, NEW now, Sound(d, acc, now), NEW p \in Pointer,
         p.post \notin summarize(d).ids
  PROVE  Admitted(summarize(d), p)
           <=> ~Blocked(TierOf(d.pointers, p), SlotsOf(d.pointers, p), p)
<1> DEFINE P == d.pointers
           T == TierOf(P, p)
           k == SlotsOf(P, p)
           G == Group(P, p)
           E == P \cup {p}
<1>1. /\ P \in Log /\ T \in SUBSET P /\ Group(T, p) = G
      /\ k \in Nat /\ Cardinality(T) \in Nat /\ Cardinality(T) <= k
      /\ Cardinality(G) <= fp_cap(p)
  BY TierBounds
<1>2. summarize(d).ids = {q.post : q \in P}
  BY DEF summarize
<1>3. E \in Log /\ p \notin P
  BY <1>1, <1>2 DEF Log, OnePost
<1> HIDE DEF E, T, G
<1>4. /\ StrictTotalOrder(PointerOrder, E) /\ E \subseteq Pointer
      /\ T \in SUBSET E /\ G \in SUBSET E /\ p \in E /\ p \notin T /\ p \notin G
  <2>1. G \in SUBSET P
    BY DEF G, Group
  <2> QED BY <1>1, <1>3, <2>1, LogOrder DEF E
<1>5. IsFiniteSet(T) /\ IsFiniteSet(G) /\ fp_cap(p) \in Nat \ {0}
  BY <1>3, <1>4, LogOrder, PointerTypes
<1>6. (IF is_anon(p) THEN summarize(d).anon_horizon ELSE summarize(d).attested_horizon)
        = tier_horizon(k, T)
  BY DEF summarize, T, TierOf, SlotsOf
<1>7. admits(tier_horizon(k, T), p) <=> Cardinality(Newer(PointerOrder, T, p)) < k
  <2>1. admits(tier_horizon(k, T), p)
          <=> k # 0 /\ AboveHorizon(PointerOrder, Horizon(PointerOrder, k, T), p)
    BY DEF admits, tier_horizon, AboveHorizon
  <2>2. CASE k = 0
    <3>1. Newer(PointerOrder, T, p) \in SUBSET E
      BY <1>4 DEF Newer
    <3>2. Cardinality(Newer(PointerOrder, T, p)) \in Nat
      BY <1>3, <3>1, LogOrder
    <3> QED BY <2>1, <2>2, <3>2
  <2>3. CASE k # 0
    <3>1. k \in Nat \ {0}
      BY <1>1, <2>3
    <3>2. AboveHorizon(PointerOrder, Horizon(PointerOrder, k, T), p)
            <=> Cardinality(Newer(PointerOrder, T, p)) < k
      <4> HIDE DEF k
      <4> QED BY <1>1, <1>4, <1>5, <3>1, HorizonIsExact
    <3> QED BY <2>1, <2>3, <3>2
  <2> QED BY <2>2, <2>3
<1>8. (\A o \in Group(summarize(d).fp_horizons, p) : <<o, p>> \in PointerOrder)
        <=> AboveHorizon(PointerOrder, Horizon(PointerOrder, fp_cap(p), G), p)
  <2>1. summarize(d).fp_horizons
          = UNION {Horizon(PointerOrder, fp_cap(q), Group(P, q)) : q \in P}
    BY DEF summarize, fp_horizons
  <2>2. \A S : Horizon(PointerOrder, fp_cap(p), S) \in SUBSET S
    BY DEF Horizon, Oldest
  <2>3. ASSUME NEW o \in Group(summarize(d).fp_horizons, p)
        PROVE  o \in Horizon(PointerOrder, fp_cap(p), G)
    <3>1. o.fp = p.fp
      BY DEF Group
    <3>2. PICK q \in P : o \in Horizon(PointerOrder, fp_cap(q), Group(P, q))
      BY <2>1 DEF Group
    <3>3. o \in Group(P, q)
      BY <3>2 DEF Horizon, Oldest
    <3>4. q.fp = p.fp
      BY <3>1, <3>3 DEF Group
    <3>5. Group(P, q) = G /\ fp_cap(q) = fp_cap(p)
      BY <3>4 DEF Group, fp_cap, is_anon, G
    <3> QED BY <3>2, <3>5
  <2>4. ASSUME NEW o \in Horizon(PointerOrder, fp_cap(p), G)
        PROVE  o \in Group(summarize(d).fp_horizons, p)
    <3>1. o \in G
      BY <2>2
    <3>2. o \in P /\ o.fp = p.fp
      BY <3>1 DEF G, Group
    <3>3. Group(P, o) = G /\ fp_cap(o) = fp_cap(p)
      BY <3>2 DEF Group, fp_cap, is_anon, G
    <3>4. o \in Horizon(PointerOrder, fp_cap(o), Group(P, o))
      BY <3>3
    <3>5. o \in summarize(d).fp_horizons
      BY <2>1, <3>2, <3>4
    <3> QED BY <3>2, <3>5 DEF Group
  <2> QED BY <2>3, <2>4 DEF AboveHorizon
<1>9. AboveHorizon(PointerOrder, Horizon(PointerOrder, fp_cap(p), G), p)
        <=> Cardinality(Newer(PointerOrder, G, p)) < fp_cap(p)
  BY <1>1, <1>4, <1>5, HorizonIsExact
<1> QED BY <1>1, <1>6, <1>7, <1>8, <1>9 DEF Admitted, Blocked, T

-----------------------------------------------------------------------------
(* Peers with nothing to offer each other *)

\* The newest pointer in which two tiers differ cannot be blocked where it is
\* missing: the pointers that would block it are in the other tier too, which
\* would then be over a cap.
LEMMA NewestIsNotBlocked ==
  ASSUME NEW E \in Log, NEW S \in SUBSET E, NEW T \in SUBSET E, IsFair(T),
         NEW k \in Nat, Cardinality(T) <= k,
         NEW x \in T, x \notin S,
         \A y \in (S \ T) \cup (T \ S) : <<x, y>> \notin PointerOrder
  PROVE  ~Blocked(S, k, x)
<1>1. /\ x \in Pointer /\ x \in E
      /\ Newer(PointerOrder, S, x) = Newer(PointerOrder, T, x)
      /\ Newer(PointerOrder, Group(S, x), x) = Newer(PointerOrder, Group(T, x), x)
  BY LogOrder DEF Newer, Group
<1>2. /\ x \in Group(T, x) /\ Group(T, x) \in SUBSET E
      /\ x \notin Newer(PointerOrder, T, x) /\ x \notin Newer(PointerOrder, Group(T, x), x)
  BY <1>1, OrderTransitive DEF Group, Newer
<1>3. /\ IsFiniteSet(T) /\ IsFiniteSet(Group(T, x)) /\ fp_cap(x) \in Nat
      /\ Cardinality(Group(T, x)) <= fp_cap(x)
  BY <1>1, <1>2, LogOrder, PointerTypes DEF IsFair
<1>4. Cardinality(Newer(PointerOrder, T, x)) < k
  BY <1>2, <1>3, PushedOutByAll
<1>5. Cardinality(Newer(PointerOrder, Group(T, x), x)) < fp_cap(x)
  BY <1>2, <1>3, PushedOutByAll
<1> QED BY <1>1, <1>4, <1>5 DEF Blocked

\* Two tiers each of which blocks what the other has more are equal.
LEMMA SilentTiersAgree ==
  ASSUME NEW E \in Log, NEW S \in SUBSET E, IsFair(S), NEW T \in SUBSET E, IsFair(T),
         NEW k \in Nat, Cardinality(S) <= k, Cardinality(T) <= k,
         \A x \in T \ S : Blocked(S, k, x),
         \A x \in S \ T : Blocked(T, k, x)
  PROVE  S = T
<1> DEFINE D == (S \ T) \cup (T \ S)
<1> SUFFICES ASSUME D # {} PROVE FALSE
  BY DEF D
<1>1. D \in SUBSET E /\ StrictTotalOrder(PointerOrder, E) /\ IsFiniteSet(E)
  BY LogOrder
<1> HIDE DEF D
<1>2. PICK x \in D : \A y \in D : <<x, y>> \notin PointerOrder
  BY <1>1, NewestOfExists
<1>3. CASE x \in T \ S
  <2>1. ~Blocked(S, k, x)
    BY <1>2, <1>3, NewestIsNotBlocked DEF D
  <2> QED BY <1>3, <2>1
<1>4. CASE x \in S \ T
  <2>1. \A y \in (T \ S) \cup (S \ T) : <<x, y>> \notin PointerOrder
    BY <1>2 DEF D
  <2>2. ~Blocked(T, k, x)
    BY <1>4, <2>1, NewestIsNotBlocked
  <2> QED BY <1>4, <2>2
<1> QED BY <1>2, <1>3, <1>4 DEF D

Silent(d, e) == delta(e, summarize(d)) = EmptyInbox

\* What silence says of the sender e and the receiver d, field by field.
LEMMA SilenceSays ==
  ASSUME NEW d, NEW acc, NEW now, Sound(d, acc, now), NEW e, Shaped(e), Silent(d, e)
  PROVE  /\ difficulty_seq(e.pow) <= difficulty_seq(d.pow)
         /\ \A c \in e.creds : \A t \in d.creds : t.replier = c.replier => ~(t.hash < c.hash)
         /\ \A p \in e.pointers : p.post \in {q.post : q \in d.pointers}
              \/ Blocked(TierOf(d.pointers, p), SlotsOf(d.pointers, p), p)
<1> DEFINE s == summarize(d)
<1>1. /\ s.creds = d.creds /\ s.ids = {q.post : q \in d.pointers}
      /\ s.pow_seq = difficulty_seq(d.pow)
  BY DEF summarize
<1>2. /\ CredsFor(e, s) = {} /\ PointersFor(e, s) = {}
      /\ (IF difficulty_seq(e.pow) > s.pow_seq THEN e.pow ELSE None) = None
  <2> DEFINE x == IF difficulty_seq(e.pow) > s.pow_seq THEN e.pow ELSE None
  <2>1. [creds |-> CredsFor(e, s), pointers |-> PointersFor(e, s), pow |-> x]
          = [creds |-> {}, pointers |-> {}, pow |-> None]
    BY DEF Silent, delta, EmptyInbox
  <2> HIDE DEF x
  <2> QED BY <2>1 DEF x
<1>3. /\ e.pow \in Difficulty \cup {None} /\ d.pow \in Difficulty \cup {None}
      /\ e.pointers \in SUBSET Pointer /\ e.creds \in SUBSET Cred
  BY DEF Shaped, InboxState, Sound
<1>4. difficulty_seq(e.pow) \in Nat /\ difficulty_seq(d.pow) \in Nat
  BY <1>3, LatchKeeps
<1>5. difficulty_seq(e.pow) <= difficulty_seq(d.pow)
  <2>1. CASE e.pow = None
    BY <1>4, <2>1 DEF difficulty_seq
  <2>2. CASE e.pow # None
    BY <1>1, <1>2, <1>4, <2>2
  <2> QED BY <2>1, <2>2
<1>6. ASSUME NEW c \in e.creds, NEW t \in d.creds, t.replier = c.replier, t.hash < c.hash
      PROVE  FALSE
  <2>1. \A h \in CredOf(s.creds, c) : h.hash < c.hash
    BY <1>1, <1>6 DEF CredOf, Sound, Shaped, OneEach
  <2>2. CredOf(s.creds, c) # {}
    BY <1>1, <1>6 DEF CredOf
  <2> QED BY <1>2, <1>6, <2>1, <2>2 DEF CredsFor
<1>7. ASSUME NEW p \in e.pointers, p.post \notin s.ids
      PROVE  Blocked(TierOf(d.pointers, p), SlotsOf(d.pointers, p), p)
  <2>1. ~Admitted(s, p)
    BY <1>2, <1>7, PointersForIsAdmitted
  <2> QED BY <1>3, <1>7, <2>1, AdmittedIsExact
<1> QED BY <1>1, <1>5, <1>6, <1>7

\* No two pointers of S and T are rivals, or two stamps of one key, at a reply.
Unrivalled(S, T) ==
  \A p \in S, q \in T : ~Rival(p, q) /\ (p.post = q.post /\ p.fp = q.fp => p = q)

\* Peers that hold a key's pointers hold the same credential for it, so they
\* agree on what one post is.
LEMMA SilentPostsAgree ==
  ASSUME NEW d, Shaped(d), verify(d), NEW e, Shaped(e), verify(e),
         Unrivalled(d.pointers, e.pointers),
         \A c \in e.creds : \A t \in d.creds : t.replier = c.replier => ~(t.hash < c.hash),
         \A c \in d.creds : \A t \in e.creds : t.replier = c.replier => ~(t.hash < c.hash)
  PROVE  /\ d.pointers \cup e.pointers \in Log
         /\ \A c \in e.creds : \A t \in d.creds : t.replier = c.replier => c = t
<1>1. /\ d.creds \in SUBSET Cred /\ e.creds \in SUBSET Cred
      /\ d.pointers \in SUBSET Pointer /\ e.pointers \in SUBSET Pointer
      /\ OnePost(d.pointers) /\ OnePost(e.pointers)
  BY DEF Shaped, InboxState
<1>2. ASSUME NEW c \in e.creds, NEW t \in d.creds, t.replier = c.replier PROVE c = t
  <2>1. c \in Cred /\ t \in Cred
    BY <1>1
  <2>2. c.hash \in Nat /\ t.hash \in Nat
    BY <2>1, InboxAssumption DEF CredType
  <2>3. c.hash = t.hash
    BY <1>2, <2>2
  <2> QED BY <1>2, <2>1, <2>3, InboxAssumption
<1>3. ASSUME NEW p \in d.pointers, NEW q \in e.pointers, p.post = q.post PROVE p = q
  <2>2. p.replier = q.replier
    BY <1>3 DEF Unrivalled, Rival
  <2>3. PICK t \in d.creds : t.replier = p.replier /\ t.fp = p.fp
    BY DEF verify, pointers_verify, Resolves, CredOf
  <2>4. PICK c \in e.creds : c.replier = q.replier /\ c.fp = q.fp
    BY DEF verify, pointers_verify, Resolves, CredOf
  <2>5. p.fp = q.fp
    BY <1>2, <2>2, <2>3, <2>4
  <2> QED BY <1>3, <2>5 DEF Unrivalled
<1>4. d.pointers \cup e.pointers \in Log
  BY <1>1, <1>3 DEF Log, OnePost
<1> QED BY <1>2, <1>4

\* Two sound inboxes that have nothing to send each other are equal, where they
\* hold no rivals.
LEMMA SilentPeersAgree ==
  ASSUME NEW d, NEW dacc, NEW dnow, Sound(d, dacc, dnow),
         NEW e, NEW eacc, NEW enow, Sound(e, eacc, enow),
         Unrivalled(d.pointers, e.pointers),
         Silent(d, e), Silent(e, d)
  PROVE  d = e
<1> DEFINE P == d.pointers
           Q == e.pointers
           E == P \cup Q
<1>1. Shaped(d) /\ verify(d) /\ Shaped(e) /\ verify(e)
  BY DEF Sound
<1>2. /\ difficulty_seq(e.pow) <= difficulty_seq(d.pow)
      /\ \A c \in e.creds : \A t \in d.creds : t.replier = c.replier => ~(t.hash < c.hash)
      /\ \A p \in Q : p.post \in {q.post : q \in P}
           \/ Blocked(TierOf(P, p), SlotsOf(P, p), p)
  BY <1>1, SilenceSays
<1>3. /\ difficulty_seq(d.pow) <= difficulty_seq(e.pow)
      /\ \A c \in d.creds : \A t \in e.creds : t.replier = c.replier => ~(t.hash < c.hash)
      /\ \A p \in P : p.post \in {q.post : q \in Q}
           \/ Blocked(TierOf(Q, p), SlotsOf(Q, p), p)
  BY <1>1, SilenceSays
<1>4. /\ E \in Log
      /\ \A c \in e.creds : \A t \in d.creds : t.replier = c.replier => c = t
  <2> HIDE DEF E
  <2> QED BY <1>1, <1>2, <1>3, SilentPostsAgree DEF E
<1>5. /\ P \in SUBSET E /\ Q \in SUBSET E /\ E \in SUBSET Pointer
      /\ P \in SUBSET Pointer /\ Q \in SUBSET Pointer
  BY <1>4, LogOrder
<1>6. /\ \A x \in Q \ P : Blocked(TierOf(P, x), SlotsOf(P, x), x)
      /\ \A x \in P \ Q : Blocked(TierOf(Q, x), SlotsOf(Q, x), x)
  <2>1. ASSUME NEW x \in Q, x \notin P, NEW q \in P, x.post = q.post PROVE FALSE
    BY <1>4, <2>1 DEF Log, OnePost
  <2>2. ASSUME NEW x \in P, x \notin Q, NEW q \in Q, x.post = q.post PROVE FALSE
    BY <1>4, <2>2 DEF Log, OnePost
  <2> QED BY <1>2, <1>3, <2>1, <2>2
<1>7. /\ IsFair(P) /\ IsFair(Q)
      /\ \A x \in Pointer : /\ SlotsOf(P, x) \in Nat
                            /\ Cardinality(TierOf(P, x)) <= SlotsOf(P, x)
                            /\ SlotsOf(Q, x) \in Nat
                            /\ Cardinality(TierOf(Q, x)) <= SlotsOf(Q, x)
  <2>1. ASSUME NEW x \in Pointer
        PROVE  /\ IsFair(P) /\ SlotsOf(P, x) \in Nat
               /\ Cardinality(TierOf(P, x)) <= SlotsOf(P, x)
    BY TierBounds
  <2>2. ASSUME NEW x \in Pointer
        PROVE  /\ IsFair(Q) /\ SlotsOf(Q, x) \in Nat
               /\ Cardinality(TierOf(Q, x)) <= SlotsOf(Q, x)
    BY TierBounds
  <2>3. IsFair(P) /\ IsFair(Q)
    BY <1>1 DEF verify, pointers_verify, IsFair
  <2> QED BY <2>1, <2>2, <2>3
<1> HIDE DEF P, Q, E
<1>8. /\ Attested(P) \in SUBSET P /\ Anon(P) \in SUBSET P /\ P = Attested(P) \cup Anon(P)
      /\ Attested(Q) \in SUBSET Q /\ Anon(Q) \in SUBSET Q /\ Q = Attested(Q) \cup Anon(Q)
      /\ Attested(P) \in SUBSET E /\ Anon(P) \in SUBSET E
      /\ Attested(Q) \in SUBSET E /\ Anon(Q) \in SUBSET E
  BY <1>5, Tiers
<1>9. IsFair(Attested(P)) /\ IsFair(Anon(P)) /\ IsFair(Attested(Q)) /\ IsFair(Anon(Q))
  BY <1>4, <1>5, <1>7, <1>8, FairOfFair
<1>10. Attested(P) = Attested(Q)
  <2>1. /\ \A x \in Attested(Q) \ Attested(P) : Blocked(Attested(P), MAX_POINTERS, x)
        /\ \A x \in Attested(P) \ Attested(Q) : Blocked(Attested(Q), MAX_POINTERS, x)
    BY <1>6, <1>8 DEF Attested, TierOf, SlotsOf
  <2>2. Cardinality(Attested(P)) <= MAX_POINTERS \/ Attested(P) = {}
    BY <1>5, <1>7, <1>8 DEF Attested, TierOf, SlotsOf
  <2>3. Cardinality(Attested(Q)) <= MAX_POINTERS \/ Attested(Q) = {}
    BY <1>5, <1>7, <1>8 DEF Attested, TierOf, SlotsOf
  <2>4. MAX_POINTERS \in Nat /\ Cardinality({}) = 0
    BY InboxAssumption, FS_EmptySet
  <2>5. Cardinality(Attested(P)) <= MAX_POINTERS /\ Cardinality(Attested(Q)) <= MAX_POINTERS
    BY <2>2, <2>3, <2>4
  <2> QED BY <1>4, <1>8, <1>9, <2>1, <2>4, <2>5, SilentTiersAgree
<1>11. Anon(P) = Anon(Q)
  <2> DEFINE k == share(Attested(P))
  <2>1. /\ \A x \in Anon(Q) \ Anon(P) : Blocked(Anon(P), k, x)
        /\ \A x \in Anon(P) \ Anon(Q) : Blocked(Anon(Q), k, x)
    BY <1>6, <1>8, <1>10 DEF Anon, TierOf, SlotsOf
  <2>2. (Cardinality(Anon(P)) <= k /\ k \in Nat) \/ Anon(P) = {}
    BY <1>5, <1>7, <1>8 DEF Anon, TierOf, SlotsOf
  <2>3. (Cardinality(Anon(Q)) <= k /\ k \in Nat) \/ Anon(Q) = {}
    BY <1>5, <1>7, <1>8, <1>10 DEF Anon, TierOf, SlotsOf
  <2>4. Cardinality({}) = 0
    BY FS_EmptySet
  <2> HIDE DEF k
  <2>5. CASE Anon(P) = {} /\ Anon(Q) = {}
    BY <2>5
  <2>6. CASE k \in Nat
    <3>1. Cardinality(Anon(P)) <= k /\ Cardinality(Anon(Q)) <= k
      BY <2>2, <2>3, <2>4, <2>6
    <3> QED BY <1>4, <1>8, <1>9, <2>1, <2>6, <3>1, SilentTiersAgree
  <2> QED BY <2>2, <2>3, <2>5, <2>6
<1>12. P = Q
  BY <1>8, <1>10, <1>11
<1>13. d.creds = e.creds
  <2>1. \A c \in e.creds : \E p \in P : p.replier = c.replier
    BY <1>1, <1>12 DEF verify, creds_verify, Q
  <2>2. \A c \in d.creds : \E p \in P : p.replier = c.replier
    BY <1>1 DEF verify, creds_verify, P
  <2>3. \A p \in P : \E c \in d.creds : c.replier = p.replier
    BY <1>1 DEF verify, pointers_verify, Resolves, CredOf, P
  <2>4. \A p \in P : \E c \in e.creds : c.replier = p.replier
    BY <1>1, <1>12 DEF verify, pointers_verify, Resolves, CredOf, Q
  <2>5. ASSUME NEW c \in e.creds PROVE c \in d.creds
    BY <1>4, <2>1, <2>3
  <2>6. ASSUME NEW c \in d.creds PROVE c \in e.creds
    BY <1>4, <2>2, <2>4
  <2> QED BY <2>5, <2>6
<1>14. d.pow = e.pow
  <2>1. d.pow \in Difficulty \cup {None} /\ e.pow \in Difficulty \cup {None}
    BY <1>1 DEF Shaped, InboxState
  <2>2. difficulty_seq(d.pow) \in Nat /\ difficulty_seq(e.pow) \in Nat
    BY <2>1, LatchKeeps
  <2>3. difficulty_seq(d.pow) = difficulty_seq(e.pow)
    BY <1>2, <1>3, <2>2
  <2> QED BY <2>1, <2>3, SeqIsRecord
<1>15. /\ d = [creds |-> d.creds, pointers |-> P, pow |-> d.pow]
       /\ e = [creds |-> e.creds, pointers |-> Q, pow |-> e.pow]
  BY <1>1 DEF Shaped, InboxState, P, Q
<1> QED BY <1>12, <1>13, <1>14, <1>15

(***************************************************************************)
(* Two peers with nothing to offer each other store the same inbox, unless *)
(* they hold rivals, or two stamps of one key, at one reply: the caps and  *)
(* the horizons hide no difference that an exchange could still mend.      *)
(***************************************************************************)
THEOREM InboxPairAgreementHolds == Spec => []InboxPairAgreement
<1>1. ASSUME InboxInv PROVE InboxPairAgreement
  <2> SUFFICES ASSUME NEW r \in Replica, NEW s \in Replica, Seeded(r), Seeded(s),
                      OfferNow(s, r) = EmptyInbox, OfferNow(r, s) = EmptyInbox,
                      Unrivalled(inbox[r].pointers, inbox[s].pointers)
               PROVE  inbox[r] = inbox[s]
    BY DEF InboxPairAgreement, Unrivalled
  <2>1. /\ Sound(inbox[r], merged[r], clock[r]) /\ Sound(inbox[s], merged[s], clock[s])
        /\ Silent(inbox[r], inbox[s]) /\ Silent(inbox[s], inbox[r])
    BY <1>1 DEF InboxInv, Seeded, Stored, OfferNow, Silent
  <2> QED BY <2>1, SilentPeersAgree
<1> QED BY <1>1, InboxInvHolds, PTL

-----------------------------------------------------------------------------
(* What an exchange leaves to offer *)

\* What the fairness cap or the cut of S stops, the cut itself blocks.
LEMMA CutBlocks ==
  ASSUME NEW E \in Log, NEW S \in SUBSET E, NEW k \in Nat, NEW x \in E,
         \/ ~(Cardinality(Newer(PointerOrder, Group(S, x), x)) < fp_cap(x))
         \/ ~(Cardinality(Newer(PointerOrder, Fair(S), x)) < k)
  PROVE  Blocked(Cut(k, S), k, x)
<1> DEFINE T == Cut(k, S)
           G == Group(S, x)
           F == Newest(PointerOrder, fp_cap(x), G)
<1>1. /\ StrictTotalOrder(PointerOrder, E) /\ x \in Pointer
      /\ T \in SUBSET E /\ G \in SUBSET E
  BY LogOrder, CutBounded DEF Group
<1>2. IsFiniteSet(G) /\ fp_cap(x) \in Nat
  BY <1>1, LogOrder, PointerTypes
<1>3. CASE ~(Cardinality(Newer(PointerOrder, Fair(S), x)) < k)
  BY <1>3, CutPushesOut DEF Blocked
<1>4. CASE ~(Cardinality(Newer(PointerOrder, G, x)) < fp_cap(x))
  <2> HIDE DEF G
  <2>1. ~(Cardinality(Newer(PointerOrder, F, x)) < fp_cap(x))
    BY <1>1, <1>2, <1>4, NewestPushesOut
  <2>2. F = Group(Fair(S), x)
    BY <1>1, FairGroups DEF G
  <2>3. F \in SUBSET Fair(S) /\ Fair(S) \in SUBSET E /\ \A z \in F : z.fp = x.fp
    BY <2>2, LogSubset DEF Group
  <2> HIDE DEF F
  <2>4. CASE \A z \in Newer(PointerOrder, F, x) : z \in T
    <3>1. Newer(PointerOrder, F, x) \in SUBSET Newer(PointerOrder, Group(T, x), x)
      BY <2>3, <2>4 DEF Newer, Group
    <3>2. /\ Newer(PointerOrder, Group(T, x), x) \in SUBSET E
          /\ Newer(PointerOrder, F, x) \in SUBSET E
      BY <1>1, <2>3 DEF Newer, Group
    <3>3. /\ IsFiniteSet(Newer(PointerOrder, Group(T, x), x))
          /\ Cardinality(Newer(PointerOrder, Group(T, x), x)) \in Nat
          /\ Cardinality(Newer(PointerOrder, F, x)) \in Nat
      BY <3>2, LogOrder
    <3>4. Cardinality(Newer(PointerOrder, F, x))
            <= Cardinality(Newer(PointerOrder, Group(T, x), x))
      BY <3>1, <3>3, FS_Subset
    <3> QED BY <1>2, <2>1, <3>3, <3>4 DEF Blocked, T
  <2>5. ASSUME NEW z \in Newer(PointerOrder, F, x), z \notin T
        PROVE  Blocked(T, k, x)
    <3>1. z \in Fair(S) /\ z \in E /\ z \in Pointer /\ <<x, z>> \in PointerOrder
      BY <1>1, <2>3, LogOrder DEF Newer
    <3>2. ~(Cardinality(Newer(PointerOrder, Fair(S), z)) < k)
      BY <2>5, <3>1 DEF T, Cut, Newest
    <3>3. ~(Cardinality(Newer(PointerOrder, Fair(S), x)) < k)
      BY <1>1, <2>3, <3>1, <3>2, OlderGoesToo
    <3> QED BY <3>3, CutPushesOut DEF Blocked, T
  <2> QED BY <2>4, <2>5 DEF T
<1> QED BY <1>3, <1>4 DEF G

\* What a cut leaves out, it blocks.
LEMMA LeftOutIsBlocked ==
  ASSUME NEW E \in Log, NEW S \in SUBSET E, NEW k \in Nat, NEW x \in S, x \notin Cut(k, S)
  PROVE  Blocked(Cut(k, S), k, x)
<1>1. \/ ~(Cardinality(Newer(PointerOrder, Group(S, x), x)) < fp_cap(x))
      \/ ~(Cardinality(Newer(PointerOrder, Fair(S), x)) < k)
  BY DEF Cut, Newest, Fair
<1> QED BY <1>1, CutBlocks

\* What a fair tier blocks, the cut of a larger one to no more slots does.
LEMMA BlockedStays ==
  ASSUME NEW E \in Log, NEW S \in SUBSET E, NEW T \in SUBSET S, IsFair(T),
         NEW j \in Nat, NEW k \in Nat, k <= j, NEW x \in E, Blocked(T, j, x)
  PROVE  Blocked(Cut(k, S), k, x)
<1>1. x \in Pointer /\ T \in SUBSET E
  BY LogOrder
<1>2. CASE ~(Cardinality(Newer(PointerOrder, Group(T, x), x)) < fp_cap(x))
  <2>1. Group(T, x) \in SUBSET Group(S, x) /\ Group(S, x) \in SUBSET E
    BY DEF Group
  <2>2. IsFiniteSet(Group(S, x)) /\ fp_cap(x) \in Nat
    BY <1>1, <2>1, LogOrder, PointerTypes
  <2>3. ~(Cardinality(Newer(PointerOrder, Group(S, x), x)) < fp_cap(x))
    BY <1>2, <2>1, <2>2, NewerMonotone
  <2> QED BY <2>3, CutBlocks
<1>3. CASE ~(Cardinality(Newer(PointerOrder, T, x)) < j)
  <2>1. ~(Cardinality(Newer(PointerOrder, Fair(S), x)) < j)
    BY <1>1, <1>3, FairPushesOut
  <2>2. Fair(S) \in SUBSET E
    BY LogSubset
  <2>3. Cardinality(Newer(PointerOrder, Fair(S), x)) \in Nat
    BY <2>2, LogSubset
  <2>4. ~(Cardinality(Newer(PointerOrder, Fair(S), x)) < k)
    BY <2>1, <2>3
  <2> QED BY <2>4, CutBlocks
<1> QED BY <1>2, <1>3 DEF Blocked

\* A tier after the caps is the cut of the tier before them.
LEMMA CappedTier ==
  ASSUME NEW E \in Log, NEW S \in SUBSET E, NEW x
  PROVE  /\ TierOf(capped(S), x) = Cut(SlotsOf(capped(S), x), TierOf(S, x))
         /\ SlotsOf(capped(S), x) \in Nat
         /\ TierOf(S, x) \in SUBSET E
<1>1. S \in SUBSET Pointer
  BY LogOrder
<1>2. /\ Attested(capped(S)) = Kept(S) /\ Anon(capped(S)) = Seated(S)
      /\ share(Kept(S)) \in Nat /\ MAX_POINTERS \in Nat
  BY <1>1, CappedIsCuts, CappedBounded, InboxAssumption
<1>3. TierOf(S, x) \in SUBSET E
  BY DEF TierOf, Attested, Anon
<1>4. CASE is_anon(x)
  BY <1>2, <1>3, <1>4 DEF TierOf, SlotsOf, Seated
<1>5. CASE ~is_anon(x)
  BY <1>2, <1>3, <1>5 DEF TierOf, SlotsOf, Kept
<1> QED BY <1>4, <1>5

\* What enforce_caps evicts is blocked by what it keeps.
LEMMA EvictedIsBlocked ==
  ASSUME NEW E \in Log, NEW S \in SUBSET E, NEW x \in S, x \notin capped(S)
  PROVE  Blocked(TierOf(capped(S), x), SlotsOf(capped(S), x), x)
<1> DEFINE k == SlotsOf(capped(S), x)
           T == TierOf(S, x)
<1>1. TierOf(capped(S), x) = Cut(k, T) /\ k \in Nat /\ T \in SUBSET E
  BY CappedTier
<1>2. x \in T /\ x \notin TierOf(capped(S), x)
  BY DEF TierOf, Attested, Anon
<1> HIDE DEF k, T
<1>3. Blocked(Cut(k, T), k, x)
  BY <1>1, <1>2, LeftOutIsBlocked
<1> QED BY <1>1, <1>3 DEF k

\* What a sound inbox blocks is blocked after any further merge.
LEMMA BlockedStaysBlocked ==
  ASSUME NEW d, NEW acc, NEW now, Sound(d, acc, now),
         NEW E \in Log, NEW S \in SUBSET E, d.pointers \subseteq S, NEW x \in E,
         Blocked(TierOf(d.pointers, x), SlotsOf(d.pointers, x), x)
  PROVE  Blocked(TierOf(capped(S), x), SlotsOf(capped(S), x), x)
<1> DEFINE P == d.pointers
           k == SlotsOf(capped(S), x)
           j == SlotsOf(P, x)
           T == TierOf(S, x)
           V == TierOf(P, x)
<1>1. TierOf(capped(S), x) = Cut(k, T) /\ k \in Nat /\ T \in SUBSET E
  BY CappedTier
<1>2. x \in Pointer /\ S \in SUBSET Pointer
  BY LogOrder
<1>3. P \in Log /\ IsFair(P) /\ V \in SUBSET P /\ j \in Nat
  BY <1>2, TierBounds
<1>4. IsFair(V)
  BY <1>3, FairOfFair
<1>5. V \in SUBSET T
  BY DEF TierOf, Attested, Anon
<1>6. k <= j
  <2>1. CASE ~is_anon(x)
    BY <2>1, InboxAssumption DEF SlotsOf
  <2>2. CASE is_anon(x)
    <3>1. /\ Attested(P) \in SUBSET Attested(S) /\ Attested(S) \in SUBSET E
          /\ Attested(P) \in SUBSET P
      BY DEF Attested
    <3>2. IsFair(Attested(P)) /\ Cardinality(Attested(P)) \in Nat
      BY <1>3, <3>1, FairOfFair, LogOrder
    <3>3. Cardinality(Attested(P)) <= MAX_POINTERS /\ MAX_POINTERS \in Nat
      <4>1. Cardinality(P) <= MAX_POINTERS
        BY DEF Sound, verify, pointers_verify
      <4>2. IsFiniteSet(P) /\ Cardinality(P) \in Nat
        BY <1>3, LogOrder
      <4>3. Cardinality(Attested(P)) <= Cardinality(P)
        BY <3>1, <4>2, FS_Subset
      <4> QED BY <3>2, <4>1, <4>2, <4>3, InboxAssumption
    <3>4. Cardinality(Attested(P)) <= Cardinality(Kept(S))
      <4> HIDE DEF P
      <4> QED BY <3>1, <3>2, <3>3, CutGrows DEF Kept
    <3>5. Cardinality(Kept(S)) \in Nat /\ Attested(capped(S)) = Kept(S)
      BY <1>2, CappedBounded, CappedIsCuts
    <3>6. share(Kept(S)) <= share(Attested(P))
      BY <3>2, <3>4, <3>5, ShareBounded
    <3> QED BY <2>2, <3>5, <3>6 DEF SlotsOf
  <2> QED BY <2>1, <2>2
<1> HIDE DEF P, k, j, T, V
<1>7. Blocked(Cut(k, T), k, x)
  BY <1>1, <1>3, <1>4, <1>5, <1>6, BlockedStays DEF P, j, V
<1> QED BY <1>1, <1>7 DEF k

\* Of two pointers of one group and order key both are blocked or none.
LEMMA TwinIsBlocked ==
  ASSUME NEW p \in Pointer, NEW q \in Pointer, NEW S,
         p.post = q.post, p.time = q.time, p.fp = q.fp,
         Blocked(TierOf(S, q), SlotsOf(S, q), q)
  PROVE  Blocked(TierOf(S, p), SlotsOf(S, p), p)
<1>2. TierOf(S, p) = TierOf(S, q) /\ SlotsOf(S, p) = SlotsOf(S, q) /\ fp_cap(p) = fp_cap(q)
  BY DEF TierOf, SlotsOf, fp_cap, is_anon
<1>3. \A y : <<p, y>> \in PointerOrder <=> <<q, y>> \in PointerOrder
  BY DEF PointerOrder
<1>4. \A T : Newer(PointerOrder, T, p) = Newer(PointerOrder, T, q) /\ Group(T, p) = Group(T, q)
  BY <1>3 DEF Newer, Group
<1> QED BY <1>2, <1>4 DEF Blocked

\* D is what e offers a peer that stores d, field by field.
Offered(d, e, D) ==
  /\ Shaped(D)
  /\ D.creds \in SUBSET e.creds
  /\ \A c \in e.creds : c \in D.creds
       <=> /\ \A t \in d.creds : t.replier = c.replier => t.hash < c.hash
           /\ \/ \E t \in d.creds : t.replier = c.replier
              \/ \E p \in D.pointers : p.replier = c.replier
  /\ D.pointers \in SUBSET e.pointers
  /\ \A p \in e.pointers : p \in D.pointers
       <=> p.post \notin {q.post : q \in d.pointers} /\ Admitted(summarize(d), p)
  /\ D.pow = IF difficulty_seq(e.pow) > difficulty_seq(d.pow) THEN e.pow ELSE None

\* A delta against the summary of d is that.
LEMMA OfferSays ==
  ASSUME NEW d, Shaped(d), NEW e, Shaped(e), NEW D, D = delta(e, summarize(d))
  PROVE  Offered(d, e, D)
<1> DEFINE s == summarize(d)
<1>1. /\ s.creds = d.creds /\ s.ids = {q.post : q \in d.pointers}
      /\ s.pow_seq = difficulty_seq(d.pow)
  BY DEF summarize
<1>2. /\ D.creds = CredsFor(e, s) /\ D.pointers = PointersFor(e, s)
      /\ D.pow = IF difficulty_seq(e.pow) > s.pow_seq THEN e.pow ELSE None
  BY DEF delta
<1>3. Shaped(D) /\ D.creds \in SUBSET e.creds /\ D.pointers \in SUBSET e.pointers
  BY DeltaShaped
<1> HIDE DEF s
<1>4. \A c \in e.creds : c \in D.creds
        <=> /\ \A t \in d.creds : t.replier = c.replier => t.hash < c.hash
            /\ \/ \E t \in d.creds : t.replier = c.replier
               \/ \E p \in D.pointers : p.replier = c.replier
  BY <1>1, <1>2 DEF CredsFor, CredOf
<1>5. \A p \in e.pointers : p \in D.pointers
        <=> p.post \notin {q.post : q \in d.pointers} /\ Admitted(s, p)
  BY <1>1, <1>2, PointersForIsAdmitted
<1> QED BY <1>1, <1>2, <1>3, <1>4, <1>5 DEF s, Offered

\* An offer against the receiver's own summary fails none of its checks.
LEMMA OfferIsAccepted ==
  ASSUME NEW d, Shaped(d), NEW e, Shaped(e), verify(e), NEW D, Offered(d, e, D)
  PROVE  apply_delta(d, D) # None
<1> DEFINE in == Checked(d, D)
<1>1. Shaped(D) /\ D.creds \in SUBSET e.creds /\ D.pointers \in SUBSET e.pointers
  BY DEF Offered
<1>2. /\ in.let_in \in SUBSET D.pointers /\ in.fresh \in SUBSET D.creds
      /\ in.creds \in SUBSET Cred
  <2>1. CheckedWell(in, d, D)
    BY <1>1, CheckedShape
  <2> HIDE DEF in
  <2> QED BY <2>1 DEF CheckedWell
<1> HIDE DEF in
<1>3. /\ e.creds \cap Malformed = {} /\ Cardinality(e.creds) <= MAX_POINTERS
      /\ \A p \in e.pointers : p \notin Foreign \cup Malformed
  BY DEF verify, creds_verify, pointers_verify, Resolves
<1>4. Cardinality(D.creds) <= MAX_POINTERS
  <2>1. IsFiniteSet(e.creds)
    BY InboxAssumption, FS_Subset DEF Shaped, InboxState
  <2>2. /\ Cardinality(D.creds) <= Cardinality(e.creds)
        /\ Cardinality(D.creds) \in Nat /\ Cardinality(e.creds) \in Nat
    BY <1>1, <2>1, FS_Subset, FS_CardinalityType
  <2>3. MAX_POINTERS \in Nat
    BY InboxAssumption
  <2> QED BY <1>3, <2>2, <2>3
<1>5. ~ \/ Cardinality(D.creds) > MAX_POINTERS
        \/ in.let_in \cap Foreign # {}
        \/ \E p \in in.let_in \cap Malformed : CredOf(d.creds \cup D.creds, p) # {}
        \/ in.fresh \cap Malformed # {}
  <2>1. Cardinality(D.creds) \in Nat /\ MAX_POINTERS \in Nat
    <3>1. IsFiniteSet(D.creds)
      BY <1>1, InboxAssumption, FS_Subset DEF Shaped, InboxState
    <3> QED BY <3>1, FS_CardinalityType, InboxAssumption
  <2> QED BY <1>1, <1>2, <1>3, <1>4, <2>1
<1> DEFINE res == Resolving(in.creds, in.let_in)
           M == Joined(d, res)
           F == {p \in capped(M) : \E c \in CredOf(in.creds, p) : c.fp = p.fp}
           pow == adopt_difficulty(d.pow, D.pow)
           X == [creds |-> in.creds, pointers |-> capped(M), pow |-> pow]
<1>6. apply_delta(d, D) = post_apply_cleanup(X)
  BY <1>5 DEF apply_delta, in, pointers_apply, canonicalize, Joined
<1>7. /\ in.creds \in SUBSET Cred
      /\ pow \in Difficulty \cup {None}
  BY <1>1, <1>2, LatchKeeps DEF Shaped, InboxState
<1>8. F \in Log /\ F \in SUBSET Pointer
  <2>1. res \in SUBSET Pointer /\ OnePost(res)
    BY <1>1, <1>2 DEF Shaped, InboxState, OnePost, Resolving
  <2> HIDE DEF res
  <2>2. M \in Log
    BY <2>1, JoinedIsLog
  <2> HIDE DEF M
  <2>3. capped(M) \in SUBSET M
    BY <2>2, CappedBounded
  <2>4. F \in SUBSET M
    BY <2>3
  <2> HIDE DEF F
  <2>5. F \in Log
    BY <2>2, <2>4, LogSubset
  <2> QED BY <2>5 DEF Log
<1>9. canonicalize(F, {}) \in SUBSET Pointer
  <2> HIDE DEF F
  <2>1. dedup(F, {}) = F
    BY DEF dedup
  <2>2. capped(F) \in SUBSET F
    BY <1>8, CappedBounded
  <2> QED BY <1>8, <2>1, <2>2 DEF canonicalize
<1>10. /\ X = [creds |-> in.creds, pointers |-> capped(M), pow |-> X.pow]
       /\ F = {p \in X.pointers : \E c \in CredOf(X.creds, p) : c.fp = p.fp}
  OBVIOUS
<1> HIDE DEF X, F, M, pow
<1>11. post_apply_cleanup(X) = [X EXCEPT !.pointers = canonicalize(F, {}),
           !.creds = {c \in @ : \E p \in canonicalize(F, {}) : p.replier = c.replier}]
  BY <1>10 DEF post_apply_cleanup
<1>12. post_apply_cleanup(X) \in InboxState
  <2> DEFINE G == canonicalize(F, {})
  <2> HIDE DEF G
  <2>1. post_apply_cleanup(X)
          = [creds |-> {c \in in.creds : \E p \in G : p.replier = c.replier}, pointers |-> G,
             pow |-> pow]
    <3>1. post_apply_cleanup(X) = [X EXCEPT !.pointers = G,
            !.creds = {c \in @ : \E p \in G : p.replier = c.replier}]
      BY <1>11 DEF G
    <3>2. X = [creds |-> in.creds, pointers |-> capped(M), pow |-> pow]
      BY DEF X
    <3> QED BY <3>1, <3>2
  <2> QED BY <1>7, <1>9, <2>1 DEF InboxState, G
<1> QED BY <1>6, <1>12, InboxNone

\* With an exchange goes the sender's difficulty record.
LEMMA NoRecordLeft ==
  ASSUME NEW d, Shaped(d), NEW e, Shaped(e), verify(e),
         NEW D, Offered(d, e, D), NEW new, Shaped(new), OneCut(new, d, D),
         NEW rest, Offered(new, e, rest)
  PROVE  rest.pow = None
<1>1. /\ D.pow = IF difficulty_seq(e.pow) > difficulty_seq(d.pow) THEN e.pow ELSE None
      /\ rest.pow = IF difficulty_seq(e.pow) > difficulty_seq(new.pow) THEN e.pow ELSE None
  BY DEF Offered
<1>2. new.pow = adopt_difficulty(d.pow, D.pow)
  BY DEF OneCut
<1>3. /\ e.pow \notin Malformed
      /\ d.pow \in Difficulty \cup {None} /\ e.pow \in Difficulty \cup {None}
      /\ new.pow \in Difficulty \cup {None}
  BY DEF verify, Shaped, InboxState
<1>4. /\ difficulty_seq(d.pow) \in Nat /\ difficulty_seq(e.pow) \in Nat
      /\ difficulty_seq(new.pow) \in Nat
  BY <1>3, LatchKeeps
<1>5. ~(difficulty_seq(e.pow) > difficulty_seq(new.pow))
  <2>1. CASE difficulty_seq(e.pow) > difficulty_seq(d.pow)
    <3>1. D.pow = e.pow
      BY <1>1, <2>1
    <3>2. difficulty_seq(new.pow) >= difficulty_seq(e.pow)
      BY <1>2, <1>3, <3>1, LatchKeeps
    <3> QED BY <1>4, <3>2
  <2>2. CASE ~(difficulty_seq(e.pow) > difficulty_seq(d.pow))
    <3>1. D.pow = None
      BY <1>1, <2>2
    <3>2. difficulty_seq(new.pow) >= difficulty_seq(d.pow)
      BY <1>2, <1>3, <3>1, LatchKeeps
    <3> QED BY <1>4, <2>2, <3>2
  <2> QED BY <2>1, <2>2
<1> QED BY <1>1, <1>5

\* With an exchange goes every credential that beats one the receiver holds
\* (the livelock of issue 49).
LEMMA NoUpgradeLeft ==
  ASSUME NEW d, Shaped(d), verify(d), NEW e, Shaped(e),
         NEW D, Offered(d, e, D), NEW new, Shaped(new), OneCut(new, d, D),
         NEW rest, Offered(new, e, rest), NEW c \in rest.creds
  PROVE  CredOf(new.creds, c) = {}
<1> DEFINE in == Checked(d, D)
<1>1. /\ c \in e.creds
      /\ \A t \in new.creds : t.replier = c.replier => t.hash < c.hash
  BY DEF Offered
<1>2. /\ Shaped(D) /\ D.creds \in SUBSET e.creds
      /\ \A x \in e.creds : x \in D.creds
           <=> /\ \A t \in d.creds : t.replier = x.replier => t.hash < x.hash
               /\ \/ \E t \in d.creds : t.replier = x.replier
                  \/ \E p \in D.pointers : p.replier = x.replier
  BY DEF Offered
<1>3. new.creds \subseteq in.creds
  BY DEF OneCut
<1>4. /\ in.fresh = {x \in D.creds :
                       /\ \E p \in in.let_in \cup d.pointers : p.replier = x.replier
                       /\ \A h \in CredOf(d.creds, x) : h.hash < x.hash}
      /\ in.creds = {h \in d.creds : CredOf(in.fresh, h) = {}} \cup in.fresh
  BY DEF Checked
<1>5. /\ in.creds \in SUBSET Cred /\ OneEach(in.creds) /\ in.fresh \in SUBSET D.creds
  <2>1. CheckedWell(in, d, D)
    BY <1>2, CheckedShape
  <2> HIDE DEF in
  <2> QED BY <2>1 DEF CheckedWell
<1> HIDE DEF in
<1> SUFFICES ASSUME NEW t \in new.creds, t.replier = c.replier
             PROVE  FALSE
  BY DEF CredOf
<1>6. /\ t \in in.creds /\ t \in Cred /\ c \in Cred /\ t.hash \in Nat
      /\ t.hash < c.hash
  BY <1>1, <1>3, <1>5, InboxAssumption DEF CredType, Shaped, InboxState
<1>7. CASE t \in in.fresh
  <2>1. t \in e.creds
    BY <1>2, <1>5, <1>7
  <2>2. t = c
    BY <1>1, <2>1 DEF Shaped, OneEach
  <2> QED BY <1>6, <2>2
<1>8. CASE t \notin in.fresh
  <2>1. t \in d.creds
    BY <1>4, <1>6, <1>8
  <2>2. \A h \in d.creds : h.replier = c.replier => h = t
    BY <2>1 DEF Shaped, OneEach
  <2>3. c \in D.creds
    BY <1>1, <1>2, <1>6, <2>1, <2>2
  <2>4. \E p \in d.pointers : p.replier = c.replier
    BY <2>1 DEF verify, creds_verify
  <2>5. c \in in.fresh
    BY <1>4, <1>6, <2>2, <2>3, <2>4 DEF CredOf
  <2>6. CredOf(in.fresh, t) # {}
    BY <2>5 DEF CredOf
  <2> QED BY <1>4, <1>6, <1>8, <2>6
<1> QED BY <1>7, <1>8

\* An exchange that upgrades no key leaves no pointer to offer that the
\* receiver's bar and its credentials would let in, but a rival of one it held.
LEMMA NoPointerLeft ==
  ASSUME NEW now, NEW d, NEW acc, Sound(d, acc, now), NEW e, Shaped(e), verify(e),
         NEW D, Offered(d, e, D), NEW new, NEW nacc, Sound(new, nacc, now), OneCut(new, d, D),
         NEW rest, Offered(new, e, rest), NEW p \in rest.pointers,
         \A c \in D.creds : CredOf(d.creds, c) = {}
  PROVE  \/ Clearing({p}, new.pow) = {}
         \/ \E c \in CredOf(d.creds, p) : c.fp # p.fp
         \/ \E h \in d.pointers : Rival(h, p)
<1> SUFFICES ASSUME Clearing({p}, new.pow) # {},
                    \A c \in d.creds : c.replier = p.replier => c.fp = p.fp,
                    \A h \in d.pointers : ~Rival(h, p)
             PROVE  FALSE
  BY DEF CredOf
<1> DEFINE in == Checked(d, D)
           res == Resolving(in.creds, in.let_in)
           M == Joined(d, res)
<1>1. /\ Shaped(d) /\ verify(d) /\ Shaped(D) /\ D.pointers \in SUBSET e.pointers
      /\ D.creds \in SUBSET e.creds
  BY DEF Sound, Offered
<1>2. /\ p \in e.pointers /\ p \notin Foreign \cup Malformed
      /\ p.post \notin {q.post : q \in new.pointers} /\ Admitted(summarize(new), p)
  BY DEF Offered, verify, pointers_verify, Resolves
<1>3. p \in Pointer /\ d.pointers \in SUBSET Pointer
  BY <1>1, <1>2 DEF Shaped, InboxState
<1>4. ~Blocked(TierOf(new.pointers, p), SlotsOf(new.pointers, p), p)
  <2>1. p.post \notin summarize(new).ids
    BY <1>2 DEF summarize
  <2> QED BY <1>2, <1>3, <2>1, AdmittedIsExact
<1>5. /\ in.let_in = Clearing(D.pointers, new.pow)
      /\ in.fresh = {c \in D.creds :
                       /\ \E q \in in.let_in \cup d.pointers : q.replier = c.replier
                       /\ \A h \in CredOf(d.creds, c) : h.hash < c.hash}
      /\ in.creds = {h \in d.creds : CredOf(in.fresh, h) = {}} \cup in.fresh
      /\ new.pointers = {q \in capped(M) : Matches(in.creds, q)}
  BY DEF Checked, OneCut
<1>6. in.let_in \in SUBSET D.pointers
  BY <1>5 DEF Clearing
<1> HIDE DEF in
<1>7. in.creds = d.creds \cup in.fresh
  <2>1. \A c \in in.fresh : CredOf(d.creds, c) = {}
    BY <1>5
  <2>2. \A h \in d.creds : CredOf(in.fresh, h) = {}
    BY <2>1 DEF CredOf
  <2> QED BY <1>5, <2>2
<1>8. \A q \in res : q \in D.pointers /\ Matches(in.creds, q)
  BY <1>6 DEF Resolving, Resolves, Matches
<1>9. \A q \in d.pointers : Matches(in.creds, q)
  BY <1>1, <1>7 DEF verify, pointers_verify, Resolves, Matches, CredOf
<1>10. p \in D.pointers => p \in res
  <2> SUFFICES ASSUME p \in D.pointers PROVE p \in res
    OBVIOUS
  <2>1. p \in in.let_in
    BY <1>5 DEF Clearing
  <2>2. PICK c \in e.creds : c.replier = p.replier /\ c.fp = p.fp
    BY <1>2 DEF verify, pointers_verify, Resolves, CredOf
  <2>3. CASE \E h \in d.creds : h.replier = p.replier
    BY <1>2, <1>7, <2>1, <2>3 DEF Resolving, Resolves, CredOf
  <2>4. CASE ~\E h \in d.creds : h.replier = p.replier
    <3>1. c \in D.creds
      BY <2>2, <2>4 DEF Offered
    <3>2. c \in in.fresh
      BY <1>5, <2>1, <2>2, <2>4, <3>1 DEF CredOf
    <3> QED BY <1>2, <1>7, <2>1, <2>2, <3>2 DEF Resolving, Resolves, CredOf
  <2> QED BY <2>3, <2>4
<1>11. res \in SUBSET Pointer /\ OnePost(res) /\ res \in SUBSET D.pointers
  BY <1>1, <1>8 DEF Shaped, InboxState, OnePost
<1> HIDE DEF res
<1>12. /\ M \in Log /\ M \in SUBSET Pointer
       /\ d.pointers \subseteq M /\ M \subseteq d.pointers \cup res
       /\ \A q \in res : \E m \in M : m.post = q.post
  <2>1. \A q \in d.pointers, x \in res : q.post = x.post => q = x
    BY <1>11 DEF Offered
  <2> QED BY <1>1, <1>11, <2>1, JoinedIsLog, JoinedIsUnion
<1> HIDE DEF M
<1>13. new.pointers = capped(M)
  <2>1. capped(M) \in SUBSET M
    BY <1>12, CappedBounded
  <2> QED BY <1>5, <1>8, <1>9, <1>12, <2>1
<1>14. ASSUME NEW q \in M, q.post = p.post, q.time = p.time, q.fp = p.fp
       PROVE  FALSE
  <2>1. q \notin capped(M)
    BY <1>2, <1>13, <1>14
  <2>2. Blocked(TierOf(capped(M), q), SlotsOf(capped(M), q), q)
    BY <1>12, <2>1, EvictedIsBlocked
  <2>3. q \in Pointer
    BY <1>12
  <2>4. Blocked(TierOf(capped(M), p), SlotsOf(capped(M), p), p)
    BY <1>3, <1>14, <2>2, <2>3, TwinIsBlocked
  <2> QED BY <1>4, <1>13, <2>4
<1>15. ASSUME NEW q \in d.pointers, q.post = p.post
       PROVE  FALSE
  <2>1. q.replier = p.replier /\ q.time = p.time
    BY <1>15 DEF Rival
  <2>2. PICK h \in d.creds : h.replier = q.replier /\ h.fp = q.fp
    BY <1>1 DEF verify, pointers_verify, Resolves, CredOf
  <2> QED BY <1>12, <1>14, <1>15, <2>1, <2>2
<1>16. CASE p \in D.pointers
  <2>1. PICK q \in M : q.post = p.post
    BY <1>10, <1>12, <1>16
  <2>2. CASE q \in d.pointers
    BY <1>15, <2>1, <2>2
  <2>3. CASE q \in res
    <3>1. q = p
      BY <1>10, <1>11, <1>16, <2>1, <2>3 DEF OnePost
    <3> QED BY <1>14, <2>1, <3>1
  <2> QED BY <1>12, <2>2, <2>3
<1>17. CASE p \notin D.pointers /\ p.post \notin {q.post : q \in d.pointers}
  <2>1. ~Admitted(summarize(d), p)
    BY <1>2, <1>17 DEF Offered
  <2>2. Blocked(TierOf(d.pointers, p), SlotsOf(d.pointers, p), p)
    <3>1. p.post \notin summarize(d).ids
      BY <1>17 DEF summarize
    <3> QED BY <1>3, <2>1, <3>1, AdmittedIsExact
  <2> DEFINE E == M \cup {p}
  <2>3. \A q \in M : q.post # p.post
    BY <1>1, <1>2, <1>11, <1>12, <1>17 DEF Shaped, OnePost
  <2>4. E \in Log /\ p \in E /\ M \in SUBSET E
    BY <1>3, <1>12, <2>3 DEF Log, OnePost
  <2> HIDE DEF E
  <2>5. Blocked(TierOf(capped(M), p), SlotsOf(capped(M), p), p)
    BY <1>12, <2>2, <2>4, BlockedStaysBlocked
  <2> QED BY <1>4, <1>13, <2>5
<1> QED BY <1>15, <1>16, <1>17

\* The exchange of two sound states: accepted, and then settled.
Settles(d, e, D, now) ==
  LET new  == update_state(d, [whole |-> FALSE, body |-> D], now)
      rest == delta(e, summarize(new))
  IN  /\ new # None /\ rest.pow = None
      /\ \A c \in rest.creds : CredOf(new.creds, c) = {}
      /\ (\A c \in D.creds : CredOf(d.creds, c) = {}) =>
           \A p \in rest.pointers :
             \/ Clearing({p}, new.pow) = {}
             \/ \E c \in CredOf(d.creds, p) : c.fp # p.fp
             \/ \E h \in d.pointers : Rival(h, p)

\* A delta that is applied leaves the sender nothing more to send, and it is not
\* empty only if it changes the receiver.
LEMMA ExchangeSettles ==
  ASSUME NEW now, NEW d, NEW acc, Sound(d, acc, now), d # None,
         NEW e, Shaped(e), verify(e),
         NEW D, D = delta(e, summarize(d)), scrub_future(D, now) = D
  PROVE  Settles(d, e, D, now)
<1> DEFINE u == [whole |-> FALSE, body |-> D]
           new == update_state(d, u, now)
           rest == delta(e, summarize(new))
           nacc == Passed(acc, d, D)
<1>1. Shaped(d) /\ verify(d) /\ Stored(d) = d /\ scrub_future(d, now) = d
  BY SoundIsValid DEF Sound, Stored
<1>2. Offered(d, e, D)
  BY <1>1, OfferSays
<1>3. Shaped(D) /\ Timely(D.pointers, now)
  <2>1. Shaped(D) /\ D \in InboxState
    BY <1>2 DEF Offered, Shaped
  <2> QED BY <2>1, ScrubOfTimely
<1>4. new = apply_delta(d, D)
  BY <1>1 DEF update_state
<1> HIDE DEF new
<1>5. new # None
  BY <1>1, <1>2, <1>4, OfferIsAccepted
<1>6. OneCut(new, d, D)
  BY <1>1, <1>3, <1>4, <1>5, UpdateIsOneCut
<1>7. Sound(new, nacc, now)
  BY <1>3, <1>6, UpdateIsSound
<1> HIDE DEF nacc
<1>8. Shaped(new)
  BY <1>7 DEF Sound
<1>9. Offered(new, e, rest)
  BY <1>8, OfferSays
<1> HIDE DEF rest
<1>10. rest.pow = None
  BY <1>1, <1>2, <1>6, <1>8, <1>9, NoRecordLeft
<1>11. \A c \in rest.creds : CredOf(new.creds, c) = {}
  BY <1>1, <1>2, <1>6, <1>8, <1>9, NoUpgradeLeft
<1>12. ASSUME \A c \in D.creds : CredOf(d.creds, c) = {}, NEW p \in rest.pointers
       PROVE  \/ Clearing({p}, new.pow) = {}
              \/ \E c \in CredOf(d.creds, p) : c.fp # p.fp
              \/ \E h \in d.pointers : Rival(h, p)
  BY <1>2, <1>6, <1>7, <1>9, <1>12, NoPointerLeft
<1> QED BY <1>5, <1>10, <1>11, <1>12 DEF Settles, new, rest

(***************************************************************************)
(* A delta against the receiver's current summary is accepted; with it go  *)
(* the sender's record and every upgrade; and if it upgrades no key, what  *)
(* the sender could still offer is nothing the receiver would take, or the *)
(* rival of a pointer that the exchange evicted.                           *)
(***************************************************************************)
THEOREM InboxExchangeSettlesHolds == Spec => []InboxExchangeSettles
<1>1. ASSUME InboxInv PROVE InboxExchangeSettles
  <2>1. ASSUME NEW r \in Replica, NEW s \in Replica, Seeded(r), Seeded(s),
               scrub_future(OfferNow(s, r), clock[r]) = OfferNow(s, r)
        PROVE  Settles(inbox[r], inbox[s], OfferNow(s, r), clock[r])
    <3>1. /\ Sound(inbox[r], merged[r], clock[r]) /\ Sound(inbox[s], merged[s], clock[s])
          /\ inbox[r] # None /\ OfferNow(s, r) = delta(inbox[s], summarize(inbox[r]))
      BY <1>1, <2>1 DEF InboxInv, Seeded, Stored, OfferNow
    <3>2. Shaped(inbox[s]) /\ verify(inbox[s])
      BY <3>1 DEF Sound
    <3> QED BY <2>1, <3>1, <3>2, ExchangeSettles
  <2> QED BY <2>1 DEF InboxExchangeSettles, Settles
<1> QED BY <1>1, InboxInvHolds, PTL

-----------------------------------------------------------------------------
(* What makes an attested pointer leave *)

\* The attested pointers of d that new has no more.
Gone(d, new) == Attested(d.pointers \ new.pointers)

\* A credential of creds takes the place of the one that z is under in d.
Traded(d, creds, z) ==
  \E c \in CredOf(creds, z) : c.fp # z.fp /\ \A h \in CredOf(d.creds, z) : h.hash < c.hash

\* What makes p leave.
Makes(d, new, all, p) ==
  \/ Cardinality(Newer(PointerOrder, Group(new.pointers, p), p)) = MAX_PER_FINGERPRINT
  \/ Cardinality(Newer(PointerOrder, Attested(new.pointers), p)) = MAX_POINTERS
  \/ \E z \in Gone(d, new) : (z = p \/ <<p, z>> \in PointerOrder) /\ Traded(d, all.creds, z)
  \/ \E q \in all.pointers : q.post = p.post /\ q.time < p.time

\* A group or a tier counts no more than its cap: what is newer than p and
\* fills it, fills it exactly.
LEMMA FullIsExact ==
  ASSUME NEW d, NEW acc, NEW now, Sound(d, acc, now), NEW p \in Pointer, ~is_anon(p)
  PROVE  /\ \A T \in SUBSET Newer(PointerOrder, Group(d.pointers, p), p) :
              ~(Cardinality(T) < MAX_PER_FINGERPRINT) =>
                Cardinality(Newer(PointerOrder, Group(d.pointers, p), p)) = MAX_PER_FINGERPRINT
         /\ \A T \in SUBSET Newer(PointerOrder, Attested(d.pointers), p) :
              ~(Cardinality(T) < MAX_POINTERS) =>
                Cardinality(Newer(PointerOrder, Attested(d.pointers), p)) = MAX_POINTERS
<1> DEFINE G == Group(d.pointers, p)
           A == Attested(d.pointers)
<1>1. /\ d.pointers \in Log /\ Cardinality(A) <= MAX_POINTERS
      /\ Cardinality(G) <= MAX_PER_FINGERPRINT
  BY TierBounds DEF TierOf, SlotsOf, fp_cap
<1>2. G \in SUBSET d.pointers /\ A \in SUBSET d.pointers
  BY DEF Group, Attested
<1>3. \A T \in SUBSET d.pointers : IsFiniteSet(T) /\ Cardinality(T) \in Nat
  BY <1>1, LogOrder
<1> HIDE DEF G, A
<1>4. ASSUME NEW S \in SUBSET d.pointers, NEW k \in Nat, Cardinality(S) <= k,
             NEW T \in SUBSET Newer(PointerOrder, S, p), ~(Cardinality(T) < k)
      PROVE  Cardinality(Newer(PointerOrder, S, p)) = k
  <2>1. /\ Newer(PointerOrder, S, p) \in SUBSET S /\ Newer(PointerOrder, S, p) \in SUBSET d.pointers
        /\ T \in SUBSET d.pointers
    BY DEF Newer
  <2>2. /\ Cardinality(T) \in Nat /\ Cardinality(S) \in Nat
        /\ Cardinality(Newer(PointerOrder, S, p)) \in Nat
        /\ IsFiniteSet(S) /\ IsFiniteSet(Newer(PointerOrder, S, p))
    BY <1>3, <2>1
  <2>3. /\ Cardinality(T) <= Cardinality(Newer(PointerOrder, S, p))
        /\ Cardinality(Newer(PointerOrder, S, p)) <= Cardinality(S)
    BY <2>1, <2>2, FS_Subset
  <2> QED BY <1>4, <2>2, <2>3
<1>5. MAX_PER_FINGERPRINT \in Nat /\ MAX_POINTERS \in Nat
  BY InboxAssumption
<1> QED BY <1>1, <1>2, <1>4, <1>5 DEF G, A

\* An update makes an attested pointer leave only so.
LEMMA UpdateMakesLeave ==
  ASSUME NEW now, NEW d, NEW acc, Sound(d, acc, now), NEW news, Shaped(news),
         NEW new, NEW nacc, Sound(new, nacc, now), OneCut(new, d, news),
         NEW p \in Gone(d, new)
  PROVE  Makes(d, new, Passed(acc, d, news), p)
<1> DEFINE in == Checked(d, news)
           res == Resolving(in.creds, in.let_in)
           M == Joined(d, res)
           all == Passed(acc, d, news)
<1>1. /\ Shaped(d) /\ verify(d) /\ p \in Attested(d.pointers) /\ p \notin new.pointers
      /\ p \in Pointer /\ ~is_anon(p)
  BY DEF Sound, Gone, Attested, Shaped, InboxState
<1>2. new.pointers = {q \in capped(M) : Matches(in.creds, q)}
  BY DEF OneCut
<1>3. all.creds = acc.creds \cup in.fresh /\ all.pointers = acc.pointers \cup res
  BY DEF Passed
<1>4. /\ in.let_in \in SUBSET news.pointers
      /\ \A c \in in.fresh : \A h \in CredOf(d.creds, c) : h.hash < c.hash
      /\ in.fresh \subseteq in.creds
      /\ \A h \in d.creds : h \in in.creds
           \/ \E e \in in.fresh : e.replier = h.replier /\ h.hash < e.hash
  <2>1. Shaped(d)
    BY <1>1
  <2>2. CheckedWell(in, d, news)
    BY <2>1, CheckedShape
  <2> HIDE DEF in, res, M, all
  <2> QED BY <2>2 DEF CheckedWell
<1> HIDE DEF all, in
<1>5. /\ \A q \in res : Matches(in.creds, q)
      /\ res \in SUBSET Pointer /\ OnePost(res)
  BY <1>4 DEF Resolving, Resolves, Matches, Shaped, InboxState, OnePost
<1> HIDE DEF res
<1>6. /\ M \in Log /\ M \in SUBSET Pointer /\ M \subseteq d.pointers \cup res
      /\ p \in M \/ \E q \in res : q.post = p.post /\ q.time < p.time
  <2>1. p \in d.pointers
    BY <1>1 DEF Attested
  <2> QED BY <1>1, <1>5, <2>1, JoinedIsLog
<1> HIDE DEF M
<1> DEFINE K == Kept(M)
<1>7. /\ K = Cut(MAX_POINTERS, Attested(M)) /\ K \in SUBSET M /\ K \in SUBSET capped(M)
      /\ Attested(capped(M)) = K /\ capped(M) \in SUBSET M
      /\ \A q \in K : ~is_anon(q)
  <2>1. capped(M) = Kept(M) \cup Seated(M) /\ Attested(capped(M)) = Kept(M)
    BY <1>6, CappedIsCuts
  <2>2. capped(M) \in SUBSET M
    BY <1>6, CappedBounded
  <2> QED BY <2>1, <2>2 DEF Kept, Attested
<1> HIDE DEF K
<1>8. ASSUME NEW z \in K, z \notin new.pointers
      PROVE  z \in Gone(d, new) /\ Traded(d, all.creds, z)
  <2>1. z \in capped(M) /\ ~Matches(in.creds, z) /\ z \in d.pointers /\ ~is_anon(z)
    BY <1>2, <1>5, <1>6, <1>7, <1>8
  <2>2. PICK h \in d.creds : h.replier = z.replier /\ h.fp = z.fp
    BY <1>1, <2>1 DEF verify, pointers_verify, Resolves, CredOf
  <2>3. h \notin in.creds
    BY <2>1, <2>2 DEF Matches, CredOf
  <2>4. PICK c \in in.fresh : c.replier = h.replier
    BY <1>4, <2>3
  <2>5. c \in all.creds /\ c.fp # z.fp /\ c.replier = z.replier
    BY <1>3, <1>4, <2>1, <2>2, <2>4 DEF Matches, CredOf
  <2>6. \A t \in CredOf(d.creds, z) : t.hash < c.hash
    BY <1>4, <2>5 DEF CredOf
  <2>7. Traded(d, all.creds, z)
    BY <2>5, <2>6 DEF Traded, CredOf
  <2> QED BY <1>8, <2>1, <2>7 DEF Gone, Attested
<1>9. CASE p \in K
  BY <1>1, <1>8, <1>9 DEF Makes, all
<1>10. CASE p \in M /\ p \notin K
  <2>1. p \in Attested(M) /\ Attested(M) \in SUBSET M /\ MAX_POINTERS \in Nat
    BY <1>1, <1>10, InboxAssumption DEF Attested
  <2>2. Blocked(K, MAX_POINTERS, p)
    BY <1>6, <1>7, <1>10, <2>1, LeftOutIsBlocked
  <2>3. CASE \A z \in Newer(PointerOrder, K, p) : z \in new.pointers
    <3>1. /\ Newer(PointerOrder, Group(K, p), p)
               \in SUBSET Newer(PointerOrder, Group(new.pointers, p), p)
          /\ Newer(PointerOrder, K, p) \in SUBSET Newer(PointerOrder, Attested(new.pointers), p)
      BY <1>7, <2>3 DEF Newer, Group, Attested
    <3>2. fp_cap(p) = MAX_PER_FINGERPRINT
      BY <1>1 DEF fp_cap
    <3>3. \/ ~(Cardinality(Newer(PointerOrder, Group(K, p), p)) < MAX_PER_FINGERPRINT)
          \/ ~(Cardinality(Newer(PointerOrder, K, p)) < MAX_POINTERS)
      BY <2>2, <3>2 DEF Blocked
    <3>4. \/ Cardinality(Newer(PointerOrder, Group(new.pointers, p), p)) = MAX_PER_FINGERPRINT
          \/ Cardinality(Newer(PointerOrder, Attested(new.pointers), p)) = MAX_POINTERS
      BY <1>1, <3>1, <3>3, FullIsExact
    <3> QED BY <3>4 DEF Makes
  <2>4. ASSUME NEW z \in Newer(PointerOrder, K, p), z \notin new.pointers
        PROVE  Makes(d, new, Passed(acc, d, news), p)
    BY <1>8, <2>4 DEF Newer, Makes, all
  <2> QED BY <2>3, <2>4
<1>11. CASE p \notin M
  BY <1>3, <1>6, <1>11 DEF Makes, all
<1> QED BY <1>9, <1>10, <1>11

\* A step leaves the inbox of a peer that has one, or is one update of it.
LEMMA StepIsUpdate ==
  ASSUME InboxInv, [Next]_vars, NEW r \in Replica, Seeded(r)
  PROVE  \/ inbox'[r] = inbox[r]
         \/ \E news : /\ Shaped(news) /\ Timely(news.pointers, clock[r])
                      /\ OneCut(inbox'[r], inbox[r], news)
                      /\ merged'[r] = Passed(merged[r], inbox[r], news)
<1> DEFINE Updated == \E news : /\ Shaped(news) /\ Timely(news.pointers, clock[r])
                                /\ OneCut(inbox'[r], inbox[r], news)
                                /\ merged'[r] = Passed(merged[r], inbox[r], news)
<1>1. ASSUME NEW q \in Replica, NEW u, Shaped(u.body), HostUpdate(q, u)
      PROVE  inbox'[r] = inbox[r] \/ Updated
  <2> DEFINE new  == update_state(inbox[q], u, clock[q])
             d    == Stored(inbox[q])
             news == News(d, u, clock[q])
  <2>1. /\ inbox' = [inbox EXCEPT ![q] = new]
        /\ merged' = [merged EXCEPT ![q] = Passed(merged[q], d, news)]
        /\ Shaped(news) /\ Timely(news.pointers, clock[q])
        /\ OneCut(new, d, news) \/ (new = d /\ news = EmptyInbox)
    BY <1>1, HostUpdateCuts
  <2>2. /\ inbox \in [Replica -> InboxState \cup {None}] /\ merged \in [Replica -> Accepted]
        /\ Stored(inbox[r]) = inbox[r]
    BY DEF InboxInv, Stored, Seeded
  <2> HIDE DEF new, news
  <2>3. CASE q = r
    <3>1. inbox'[r] = new /\ merged'[r] = Passed(merged[r], inbox[r], news) /\ d = inbox[r]
      BY <2>1, <2>2, <2>3
    <3> HIDE DEF d
    <3> QED BY <2>1, <2>3, <3>1
  <2>4. CASE q # r
    BY <2>1, <2>2, <2>4
  <2> QED BY <2>3, <2>4
<1> HIDE DEF Updated
<1>2. ASSUME NEW q \in Replica, NEW d, HostStore(q, d) PROVE inbox'[r] = inbox[r]
  BY <1>2 DEF HostStore, Seeded, InboxInv
<1>3. ASSUME NEW q \in Replica, NEW d, Shaped(d), HostPut(q, d)
      PROVE  inbox'[r] = inbox[r] \/ Updated
  <2> DEFINE u == [whole |-> TRUE, body |-> d]
  <2>1. Shaped(u.body)
    BY <1>3
  <2>2. HostStore(q, d) \/ HostUpdate(q, u)
    BY <1>3 DEF HostPut
  <2> HIDE DEF u
  <2> QED BY <1>1, <1>2, <2>1, <2>2
<1>4. ASSUME NEW q \in Replica, NEW c \in Cred, NEW p \in Pointer,
             NEW pow \in Difficulty \cup {None}, Put(q, c, p, pow)
      PROVE  inbox'[r] = inbox[r] \/ Updated
  BY <1>3, <1>4, MaterializedShaped DEF Put
<1>5. ASSUME NEW q \in Replica, NEW p \in Pointer,
             NEW C \in {{}} \cup {{c} : c \in CredOf(Cred, p)}, Write(q, C, p)
      PROVE  inbox'[r] = inbox[r] \/ Updated
  <2> DEFINE u == [whole |-> FALSE, body |-> [creds |-> C, pointers |-> {p}, pow |-> None]]
  <2>1. C \in SUBSET Cred /\ OneEach(C)
    BY DEF CredOf, OneEach
  <2>2. Shaped(u.body)
    BY <2>1 DEF Shaped, InboxState, OnePost
  <2>3. HostUpdate(q, u)
    BY <1>5 DEF Write
  <2> HIDE DEF u
  <2> QED BY <1>1, <2>2, <2>3
<1>6. ASSUME NEW s \in Replica, NEW q \in Replica, Deliver(s, q)
      PROVE  inbox'[r] = inbox[r] \/ Updated
  BY <1>1, <1>6 DEF Deliver, InboxInv
<1>7. ASSUME NEW q \in Replica, EnsureInbox(q)
      PROVE  inbox'[r] = inbox[r] \/ Updated
  BY <1>3, <1>7, EmptyIsSound DEF EnsureInbox
<1>8. ASSUME NEW q \in Replica, NEW s \in Replica, Fetch(q, s)
      PROVE  inbox'[r] = inbox[r]
  BY <1>2, <1>8 DEF Fetch
<1>9. inbox'[r] = inbox[r] \/ Updated
  BY <1>4, <1>5, <1>6, <1>7, <1>8 DEF Next, vars, Tick, Offer, Lose
<1> QED BY <1>9 DEF Updated

(***************************************************************************)
(* "Verified is never crowded out by anonymous": an attested pointer       *)
(* leaves only for newer attested ones, of its group or of the tier, when  *)
(* its key, or that of a newer pointer that goes as well, trades its       *)
(* credential in the same update, or for a pointer at the same reply with  *)
(* an earlier time.                                                        *)
(***************************************************************************)
THEOREM VerifiedUncrowdableHolds == Spec => VerifiedUncrowdable
<1> DEFINE Keeps(r) ==
      LET gone == Attested(inbox[r].pointers \ inbox'[r].pointers) IN
      \A p \in gone :
        \/ Cardinality(Newer(PointerOrder, Group(inbox'[r].pointers, p), p)) = MAX_PER_FINGERPRINT
        \/ Cardinality(Newer(PointerOrder, Attested(inbox'[r].pointers), p)) = MAX_POINTERS
        \/ \E z \in gone : /\ z = p \/ <<p, z>> \in PointerOrder
                          /\ \E c \in CredOf(merged'[r].creds, z) :
                               c.fp # z.fp /\ \A h \in CredOf(inbox[r].creds, z) : h.hash < c.hash
        \/ \E q \in merged'[r].pointers : q.post = p.post /\ q.time < p.time
<1>1. ASSUME InboxInv, [Next]_vars, NEW r \in Replica, Seeded(r)
      PROVE  Keeps(r)
  <2>1. Sound(inbox[r], merged[r], clock[r])
    BY <1>1 DEF InboxInv, Seeded, Stored
  <2>2. CASE inbox'[r] = inbox[r]
    BY <2>2 DEF Attested
  <2>3. ASSUME NEW news, Shaped(news), Timely(news.pointers, clock[r]),
               OneCut(inbox'[r], inbox[r], news),
               merged'[r] = Passed(merged[r], inbox[r], news)
        PROVE  Keeps(r)
    <3>1. Sound(inbox'[r], Passed(merged[r], inbox[r], news), clock[r])
      BY <2>1, <2>3, UpdateIsSound
    <3>2. \A p \in Gone(inbox[r], inbox'[r]) :
            Makes(inbox[r], inbox'[r], Passed(merged[r], inbox[r], news), p)
      BY <2>1, <2>3, <3>1, UpdateMakesLeave
    <3>3. \A p \in Gone(inbox[r], inbox'[r]) :
            Makes(inbox[r], inbox'[r], merged'[r], p)
      BY <2>3, <3>2
    <3> QED BY <3>3 DEF Makes, Gone, Traded
  <2> HIDE DEF Keeps
  <2> QED BY <1>1, <2>2, <2>3, StepIsUpdate
<1>2. InboxInv /\ [Next]_vars => [\A r \in Replica : Seeded(r) => Keeps(r)]_vars
  BY <1>1
<1> QED BY <1>2, InboxInvHolds, PTL DEF Spec, VerifiedUncrowdable
=============================================================================

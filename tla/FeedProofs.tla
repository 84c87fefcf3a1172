----------------------------- MODULE FeedProofs -----------------------------
(***************************************************************************)
(* The feed's safety properties, proved for every number of peers, every   *)
(* cap and every set of records.                                           *)
(***************************************************************************)
EXTENDS Feed, CappedLogTheorems

-----------------------------------------------------------------------------
(* Lemmas about the order and the registers *)

\* Posts are totally ordered by time, then id.
LEMMA PostOrderTotal == StrictTotalOrder(PostOrder, Post)
<1>1. \A p, q \in Post : <<p, q>> \in PostOrder <=>
        p.time < q.time \/ (p.time = q.time /\ p.id < q.id)
  BY DEF PostOrder
<1>2. \A p \in Post : p.time \in Nat /\ p.id \in Nat
  BY FeedAssumption
<1>3. \A p, q \in Post : p.time = q.time /\ p.id = q.id => p = q
  BY FeedAssumption
<1> QED BY <1>1, <1>2, <1>3 DEF StrictTotalOrder

\* Sets of posts are finite.
LEMMA PostsAreFinite ==
  ASSUME NEW S \in SUBSET Post
  PROVE  IsFiniteSet(S) /\ Cardinality(S) \in Nat
BY FeedAssumption, FS_Subset, FS_CardinalityType

\* canonicalize keeps at most MAX_POSTS of the posts it is given.
LEMMA CanonicalBounded ==
  ASSUME NEW S \in SUBSET Post
  PROVE  canonicalize(S) \in SUBSET S /\ Cardinality(canonicalize(S)) <= MAX_POSTS
BY PostOrderTotal, PostsAreFinite, NewestBounded, FeedAssumption DEF canonicalize

(***************************************************************************)
(* What a feed offers a peer of its posts, in terms of the peer's log      *)
(* itself: those it lacks and its log would not push out again.            *)
(***************************************************************************)
LEMMA PostsDeltaMeaning ==
  ASSUME NEW S \in SUBSET Post, NEW g \in FeedState, Cardinality(g.posts) <= MAX_POSTS
  PROVE  \A x : x \in PostsDelta(S, summarize(g)) <=>
           x \in S /\ x \notin g.posts /\ Cardinality(Newer(PostOrder, g.posts, x)) < MAX_POSTS
<1>0. g.posts \in SUBSET Post
  BY DEF FeedState
<1>1. ASSUME NEW x \in Post
      PROVE  x.id \in {p.id : p \in g.posts} <=> x \in g.posts
  BY <1>0, FeedAssumption
<1>2. ASSUME NEW x \in Post, x \notin g.posts
      PROVE  AboveHorizon(PostOrder, retention_horizon(g.posts), x)
               <=> Cardinality(Newer(PostOrder, g.posts, x)) < MAX_POSTS
  BY <1>0, <1>2, HorizonIsExact, PostOrderTotal, PostsAreFinite, FeedAssumption
     DEF retention_horizon
<1> QED BY <1>1, <1>2 DEF PostsDelta, summarize

\* The posts that a delta leaves out would not be kept by who asks for it.
LEMMA PostsDeltaIsEnough ==
  ASSUME NEW A \in SUBSET Post, NEW B \in SUBSET Post, Cardinality(B) <= MAX_POSTS,
         NEW D,
         \A x : x \in D <=>
           x \in A /\ x \notin B /\ Cardinality(Newer(PostOrder, B, x)) < MAX_POSTS
  PROVE  canonicalize(B \cup D) = canonicalize(B \cup A)
<1>1. IsFiniteSet(A) /\ IsFiniteSet(B) /\ MAX_POSTS \in Nat
  BY PostsAreFinite, FeedAssumption
<1> QED BY <1>1, DeltaIsEnough, PostOrderTotal DEF canonicalize

\* A delta is well typed.
LEMMA DeltaType ==
  ASSUME NEW f \in FeedState, NEW theirs
  PROVE  delta(f, theirs) \in FeedDelta
BY DEF delta, FeedState, FeedDelta, LwwDelta, SlotDelta, PostsDelta

\* A summary is well typed.
LEMMA SummaryType ==
  ASSUME NEW f \in FeedState
  PROVE  summarize(f) \in FeedSummary
<1>1. f.profile \in LwwKey /\ f.follows \in LwwKey
  BY FeedAssumption DEF FeedState, LwwKey
<1>2. retention_horizon(f.posts) \in SUBSET Post
  BY DEF FeedState, retention_horizon, Horizon, Oldest
<1> QED BY <1>1, <1>2 DEF summarize, FeedSummary, FeedState

\* The scrub keeps a feed a feed and a delta a delta, without posts dated ahead.
LEMMA ScrubType ==
  ASSUME NEW now \in Nat
  PROVE  /\ \A f \in FeedState : /\ scrub(f, now) \in FeedState
                                /\ scrub(f, now).posts = InTime(f.posts, now)
         /\ \A d \in FeedDelta : /\ scrub(d, now) \in FeedDelta
                                /\ scrub(d, now).posts = InTime(d.posts, now)
BY DEF scrub, InTime, FeedState, FeedDelta

\* The scrub leaves posts alone exactly when none is dated ahead, and once is enough.
LEMMA InTimeMeaning ==
  ASSUME NEW S, NEW now
  PROVE  /\ InTime(S, now) = S <=> \A p \in S : p.time <= now + MAX_FUTURE_MS
         /\ InTime(InTime(S, now), now) = InTime(S, now)
BY DEF InTime

-----------------------------------------------------------------------------
(* Lemmas about one update *)

(***************************************************************************)
(* What is stored: a checked, capped feed none of whose posts is ahead of  *)
(* the clock.                                                              *)
(***************************************************************************)
Sound(f, now) ==
  /\ f \in FeedState
  /\ WellFormed(f)
  /\ Cardinality(f.posts) <= MAX_POSTS
  /\ InTime(f.posts, now) = f.posts

\* The feeds that validate_state accepts are the sound ones.
LEMMA SoundIsValid ==
  ASSUME NEW f \in FeedState, NEW now \in Nat
  PROVE  validate_state(f, now) <=> Sound(f, now)
<1>1. scrub(f, now) = f <=> InTime(f.posts, now) = f.posts
  BY DEF scrub, FeedState
<1> QED BY <1>1 DEF validate_state, verify, Sound

\* Applying a delta gives a sound feed, with the newest posts of both.
LEMMA ApplyDeltaEffect ==
  ASSUME NEW now \in Nat, NEW f, Sound(f, now),
         NEW d \in FeedDelta, InTime(d.posts, now) = d.posts,
         apply_delta(f, d) # None
  PROVE  /\ Sound(apply_delta(f, d), now)
         /\ apply_delta(f, d).posts = canonicalize(f.posts \cup d.posts)
<1> DEFINE new == apply_delta(f, d)
<1>1. /\ WellFormed(d)
      /\ new = [profile     |-> LwwWinner(f.profile, d.profile),
                follows     |-> LwwWinner(f.follows, d.follows),
                attestation |-> SlotWinner(f.attestation, d.attestation),
                posts       |-> canonicalize(f.posts \cup d.posts)]
  BY DEF apply_delta
<1>2. f.posts \cup d.posts \in SUBSET Post
  BY DEF Sound, FeedState, FeedDelta
<1>3. canonicalize(f.posts \cup d.posts) \in SUBSET (f.posts \cup d.posts)
  BY <1>2, CanonicalBounded
<1>4. new \in FeedState
  <2>1. LwwWinner(f.profile, d.profile) \in Profile
    BY DEF LwwWinner, Sound, FeedState, FeedDelta
  <2>2. LwwWinner(f.follows, d.follows) \in Follows
    BY DEF LwwWinner, Sound, FeedState, FeedDelta
  <2>3. SlotWinner(f.attestation, d.attestation) \in Attestation \cup {None}
    BY DEF SlotWinner, Sound, FeedState, FeedDelta
  <2> QED BY <1>1, <1>2, <1>3, <2>1, <2>2, <2>3 DEF FeedState
<1>5. WellFormed(new)
  BY <1>1, <1>3 DEF WellFormed, LwwWinner, SlotWinner, Sound
<1>6. Cardinality(new.posts) <= MAX_POSTS
  BY <1>1, <1>2, CanonicalBounded
<1>7. InTime(new.posts, now) = new.posts
  <2>1. \A p \in f.posts \cup d.posts : p.time <= now + MAX_FUTURE_MS
    BY InTimeMeaning DEF Sound
  <2> QED BY <1>1, <1>3, <2>1, InTimeMeaning
<1> QED BY <1>1, <1>4, <1>5, <1>6, <1>7 DEF Sound

\* Merging a feed gives a sound feed, with the newest posts of both.
LEMMA MergeEffect ==
  ASSUME NEW now \in Nat, NEW f, Sound(f, now),
         NEW g \in FeedState, InTime(g.posts, now) = g.posts,
         merge(f, g) # None
  PROVE  /\ Sound(merge(f, g), now)
         /\ merge(f, g).posts = canonicalize(f.posts \cup g.posts)
<1> DEFINE d == delta(g, summarize(f))
<1>1. d \in FeedDelta /\ d.posts = PostsDelta(g.posts, summarize(f))
  BY DeltaType DEF delta
<1>2. f.posts \in SUBSET Post /\ g.posts \in SUBSET Post /\ f \in FeedState
  BY DEF Sound, FeedState
<1>3. \A x : x \in d.posts <=>
        x \in g.posts /\ x \notin f.posts /\ Cardinality(Newer(PostOrder, f.posts, x)) < MAX_POSTS
  BY <1>1, <1>2, PostsDeltaMeaning DEF Sound
<1>4. canonicalize(f.posts \cup d.posts) = canonicalize(f.posts \cup g.posts)
  <2> HIDE DEF d
  <2> QED BY <1>2, <1>3, PostsDeltaIsEnough DEF Sound
<1>5. CASE d = NoDelta
  <2>1. merge(f, g) = f /\ d.posts = {}
    BY <1>5 DEF merge, NoDelta
  <2>2. canonicalize(f.posts) = f.posts
    BY <1>2, NewestOfFew, PostOrderTotal, PostsAreFinite, FeedAssumption
       DEF canonicalize, Sound
  <2> QED BY <1>4, <2>1, <2>2
<1>6. CASE d # NoDelta
  <2>1. merge(f, g) = apply_delta(f, d)
    BY <1>6 DEF merge
  <2>2. InTime(d.posts, now) = d.posts
    BY <1>3 DEF InTime
  <2>3. apply_delta(f, d) # None
    BY <2>1
  <2> HIDE DEF d
  <2> QED BY <1>1, <1>4, <2>1, <2>2, <2>3, ApplyDeltaEffect
<1> QED BY <1>5, <1>6

\* Trimming before a merge loses nothing that trimming after it would keep.
LEMMA CanonicalAbsorbs ==
  ASSUME NEW A \in SUBSET Post, NEW B \in SUBSET Post
  PROVE  canonicalize(canonicalize(A) \cup B) = canonicalize(A \cup B)
<1>1. IsFiniteSet(A) /\ IsFiniteSet(B) /\ MAX_POSTS \in Nat
  BY PostsAreFinite, FeedAssumption
<1> QED BY <1>1, NewestAbsorbs, PostOrderTotal DEF canonicalize

\* canonicalize leaves a log within the cap alone.
LEMMA CanonicalOfFew ==
  ASSUME NEW A \in SUBSET Post, Cardinality(A) <= MAX_POSTS
  PROVE  canonicalize(A) = A
<1>1. IsFiniteSet(A) /\ MAX_POSTS \in Nat
  BY PostsAreFinite, FeedAssumption
<1> QED BY <1>1, NewestOfFew, PostOrderTotal DEF canonicalize

(***************************************************************************)
(* The invariant of one peer: what it stores is sound and is the newest    *)
(* part of its history; a peer without a feed has no history.              *)
(***************************************************************************)
PeerInv(f, acc, now) ==
  \/ f = None /\ acc = {}
  \/ f # None /\ Sound(f, now) /\ f.posts = canonicalize(acc)

(***************************************************************************)
(* Whatever update a peer accepts, State, Delta or both, the invariant     *)
(* holds of the new state and the history with the update's posts.         *)
(***************************************************************************)
LEMMA UpdateEffect ==
  ASSUME NEW now \in Nat, NEW stored, NEW acc \in SUBSET Post, PeerInv(stored, acc, now),
         NEW u \in Update, update_state(stored, u, now) # None
  PROVE  PeerInv(update_state(stored, u, now), acc \cup PostsOf(u, now), now)
<1> DEFINE new  == update_state(stored, u, now)
           kept == IF stored = None THEN None ELSE scrub(stored, now)
           SP   == IF u.state = None THEN {} ELSE InTime(u.state.posts, now)
           DP   == IF u.delta = None THEN {} ELSE InTime(u.delta.posts, now)
           seeded == IF u.state = None THEN kept ELSE MergeState(kept, scrub(u.state, now))
<1>1. kept = stored
  BY DEF PeerInv, Sound, scrub, FeedState
<1>2. u.state \in FeedState \cup {None} /\ u.delta \in FeedDelta \cup {None}
  BY DEF Update
<1>3. SP \in SUBSET Post /\ DP \in SUBSET Post /\ acc \cup PostsOf(u, now) = (acc \cup SP) \cup DP
  BY <1>2 DEF PostsOf, InTime, FeedState, FeedDelta
<1>4. /\ seeded = None \/ u.delta = None => new = seeded
      /\ ~(seeded = None \/ u.delta = None) => new = apply_delta(seeded, scrub(u.delta, now))
  BY DEF update_state
<1>5. seeded # None
  BY <1>4
<1>6. Sound(seeded, now) /\ seeded.posts = canonicalize(acc \cup SP)
  <2>1. CASE u.state = None
    BY <1>1, <1>5, <2>1 DEF PeerInv
  <2>2. CASE u.state # None
    <3> DEFINE g == scrub(u.state, now)
    <3>1. g \in FeedState /\ g.posts = SP /\ InTime(SP, now) = SP
      BY <1>2, <2>2, ScrubType, InTimeMeaning
    <3>2. seeded = MergeState(stored, g)
      BY <1>1, <2>2
    <3> HIDE DEF g, SP, seeded
    <3>3. CASE stored = None
      <4>1. verify(g) /\ seeded = g /\ acc = {}
        BY <1>5, <3>2, <3>3 DEF MergeState, PeerInv
      <4>2. Sound(g, now) /\ Cardinality(SP) <= MAX_POSTS
        BY <3>1, <4>1 DEF Sound, verify
      <4> QED BY <1>3, <3>1, <4>1, <4>2, CanonicalOfFew
    <3>4. CASE stored # None
      <4>1. seeded = merge(stored, g) /\ Sound(stored, now) /\ stored.posts = canonicalize(acc)
        BY <3>2, <3>4 DEF MergeState, PeerInv
      <4>2. Sound(seeded, now) /\ seeded.posts = canonicalize(canonicalize(acc) \cup SP)
        BY <1>5, <3>1, <4>1, MergeEffect
      <4> QED BY <1>3, <4>2, CanonicalAbsorbs
    <3> QED BY <3>3, <3>4
  <2> QED BY <2>1, <2>2
<1>7. CASE u.delta = None
  BY <1>3, <1>4, <1>5, <1>6, <1>7 DEF PeerInv
<1>8. CASE u.delta # None
  <2> DEFINE d == scrub(u.delta, now)
  <2>1. d \in FeedDelta /\ d.posts = DP /\ InTime(DP, now) = DP
    BY <1>2, <1>8, ScrubType, InTimeMeaning
  <2>2. new = apply_delta(seeded, d)
    BY <1>4, <1>5, <1>8
  <2> HIDE DEF d, DP, SP, seeded, new
  <2>3. new # None
    BY DEF new
  <2>4. Sound(new, now) /\ new.posts = canonicalize(canonicalize(acc \cup SP) \cup DP)
    BY <1>6, <2>1, <2>2, <2>3, ApplyDeltaEffect
  <2>5. new.posts = canonicalize((acc \cup SP) \cup DP)
    BY <1>3, <2>4, CanonicalAbsorbs
  <2> QED BY <1>3, <2>3, <2>4, <2>5 DEF PeerInv, new
<1> QED BY <1>7, <1>8

-----------------------------------------------------------------------------
(* The inductive invariant *)

(***************************************************************************)
(* StoredStatesValid and RetainedIsNewest are not inductive as they stand: *)
(* a first state is stored with the history of its posts only, so a peer   *)
(* without a feed must be known to have no history, and what is on the     *)
(* wire must be known to be an update.                                     *)
(***************************************************************************)
IInv ==
  /\ TypeOK
  /\ \A r \in Replica : PeerInv(feed[r], accepted[r], clock[r])

PeersInv ==
  /\ feed \in [Replica -> FeedState \cup {None}]
  /\ accepted \in [Replica -> SUBSET Post]
  /\ \A r \in Replica : PeerInv(feed[r], accepted[r], clock[r])

\* The posts of an update are posts.
LEMMA PostsOfType ==
  ASSUME NEW u \in Update, NEW now
  PROVE  PostsOf(u, now) \in SUBSET Post
BY DEF Update, PostsOf, InTime, FeedState, FeedDelta

\* An update leaves each peer with the newest of what it accepted.
LEMMA HostUpdateInv ==
  ASSUME IInv, NEW r \in Replica, NEW u \in Update, HostUpdate(r, u), UNCHANGED clock
  PROVE  PeersInv'
<1> DEFINE new == update_state(feed[r], u, clock[r])
<1>1. /\ new # None
      /\ feed' = [feed EXCEPT ![r] = new]
      /\ accepted' = [accepted EXCEPT ![r] = @ \cup PostsOf(u, clock[r])]
  BY DEF HostUpdate
<1>2. clock[r] \in Nat /\ accepted[r] \in SUBSET Post
  BY DEF IInv, TypeOK
<1>3. PeerInv(new, accepted[r] \cup PostsOf(u, clock[r]), clock[r])
  BY <1>1, <1>2, UpdateEffect DEF IInv
<1>4. new \in FeedState /\ PostsOf(u, clock[r]) \in SUBSET Post
  BY <1>1, <1>3, PostsOfType DEF PeerInv, Sound
<1> HIDE DEF new
<1>5. /\ feed' \in [Replica -> FeedState \cup {None}]
      /\ accepted' \in [Replica -> SUBSET Post]
  BY <1>1, <1>2, <1>4 DEF IInv, TypeOK
<1>6. ASSUME NEW s \in Replica
      PROVE  PeerInv(feed'[s], accepted'[s], clock'[s])
  <2>1. CASE s = r
    BY <1>1, <1>3, <2>1 DEF IInv, TypeOK
  <2>2. CASE s # r
    BY <1>1, <2>2 DEF IInv, TypeOK
  <2> QED BY <2>1, <2>2
<1> QED BY <1>5, <1>6 DEF PeersInv

\* A first copy that the node stores is the newest of what the peer accepted.
LEMMA HostStoreInv ==
  ASSUME IInv, NEW r \in Replica, NEW f \in FeedState, HostStore(r, f), UNCHANGED clock
  PROVE  PeersInv'
<1>1. /\ feed[r] = None /\ validate_state(f, clock[r])
      /\ feed' = [feed EXCEPT ![r] = f]
      /\ accepted' = [accepted EXCEPT ![r] = @ \cup f.posts]
  BY DEF HostStore
<1>2. clock[r] \in Nat /\ accepted[r] = {} /\ f.posts \in SUBSET Post /\ f # None
  BY <1>1, NoneAssumption DEF IInv, TypeOK, PeerInv, FeedState
<1>3. Sound(f, clock[r])
  BY <1>1, <1>2, SoundIsValid
<1>4. f.posts = canonicalize(f.posts)
  BY <1>2, <1>3, CanonicalOfFew DEF Sound
<1>5. accepted'[r] = f.posts
  BY <1>1, <1>2 DEF IInv, TypeOK
<1>6. PeerInv(f, accepted'[r], clock[r])
  BY <1>2, <1>3, <1>4, <1>5 DEF PeerInv
<1>7. /\ feed' \in [Replica -> FeedState \cup {None}]
      /\ accepted' \in [Replica -> SUBSET Post]
  BY <1>1, <1>2 DEF IInv, TypeOK
<1>8. ASSUME NEW s \in Replica
      PROVE  PeerInv(feed'[s], accepted'[s], clock'[s])
  <2>1. CASE s = r
    BY <1>1, <1>6, <2>1 DEF IInv, TypeOK
  <2>2. CASE s # r
    BY <1>1, <2>2 DEF IInv, TypeOK
  <2> QED BY <2>1, <2>2
<1> QED BY <1>7, <1>8 DEF PeersInv

\* At first no peer has a feed.
LEMMA InitInv == Init => IInv
BY DEF Init, IInv, TypeOK, PeerInv

\* Every step keeps the invariant.
LEMMA NextInv == IInv /\ [Next]_vars => IInv'
<1> SUFFICES ASSUME IInv, [Next]_vars PROVE IInv'
  OBVIOUS
<1> USE DEF IInv
<1>1. ASSUME NEW r \in Replica, Tick(r) PROVE IInv'
  <2>1. TypeOK'
    BY <1>1, FeedAssumption DEF Tick, TypeOK
  <2>2. ASSUME NEW s \in Replica PROVE PeerInv(feed'[s], accepted'[s], clock'[s])
    <3>1. clock[s] \in Nat /\ clock'[s] \in Nat /\ clock[s] <= clock'[s]
      BY <1>1, FeedAssumption DEF Tick, TypeOK
    <3>2. ASSUME NEW f, Sound(f, clock[s]) PROVE Sound(f, clock'[s])
      <4>1. \A p \in f.posts : p.time \in Nat /\ p.time <= clock[s] + MAX_FUTURE_MS
        BY <3>2, InTimeMeaning, FeedAssumption DEF Sound, FeedState
      <4>2. \A p \in f.posts : p.time <= clock'[s] + MAX_FUTURE_MS
        BY <3>1, <4>1, FeedAssumption
      <4> QED BY <3>2, <4>2, InTimeMeaning DEF Sound
    <3>3. feed'[s] = feed[s] /\ accepted'[s] = accepted[s]
      BY <1>1 DEF Tick
    <3> QED BY <3>2, <3>3 DEF PeerInv
  <2> QED BY <2>1, <2>2
<1>2. ASSUME NEW r \in Replica, NEW p \in Profile, NEW q \in Follows, Put(r, p, q)
      PROVE  IInv'
  <2> DEFINE f == [profile |-> p, follows |-> q, attestation |-> None, posts |-> {}]
             u == [state |-> f, delta |-> None]
  <2>1. f \in FeedState /\ u \in Update
    BY DEF FeedState, Update
  <2>2. HostStore(r, f) \/ HostUpdate(r, u)
    BY <1>2 DEF Put
  <2>3. UNCHANGED <<clock, heard, wire>>
    BY <1>2 DEF Put
  <2> HIDE DEF f, u
  <2>4. PeersInv'
    BY <2>1, <2>2, <2>3, HostStoreInv, HostUpdateInv
  <2> QED BY <2>3, <2>4 DEF PeersInv, TypeOK
<1>3. ASSUME NEW r \in Replica, NEW d \in ClientDelta, ClientUpdate(r, d)
      PROVE  IInv'
  <2>1. d \in FeedDelta
    BY DEF ClientDelta, NoDelta, FeedDelta
  <2>2. [state |-> None, delta |-> d] \in Update
    BY <2>1 DEF Update
  <2>3. PeersInv' /\ UNCHANGED <<clock, heard, wire>>
    BY <1>3, <2>2, HostUpdateInv DEF ClientUpdate
  <2> QED BY <2>3 DEF PeersInv, TypeOK
<1>4. ASSUME NEW r \in Replica, NEW s \in Replica, Announce(r, s) PROVE IInv'
  <2>1. summarize_state(feed[r]) \in FeedSummary
    <3>1. empty_summary \in FeedSummary
      BY DEF empty_summary, FeedSummary, LwwKey
    <3> QED BY <3>1, SummaryType DEF summarize_state, TypeOK
  <2>2. heard' \in [Replica -> [Replica -> FeedSummary \cup {None}]]
    BY <1>4, <2>1 DEF Announce, TypeOK
  <2> QED BY <1>4, <2>2 DEF Announce, TypeOK
<1>5. ASSUME NEW s \in Replica, NEW r \in Replica, Offer(s, r) PROVE IInv'
  <2>1. feed[s] \in FeedState
    BY <1>5 DEF Offer, TypeOK
  <2>2. delta(feed[s], heard[s][r]) \in FeedDelta
    BY <2>1, DeltaType
  <2>3. /\ [state |-> feed[s], delta |-> None] \in Update
        /\ [state |-> None, delta |-> delta(feed[s], heard[s][r])] \in Update
    BY <2>1, <2>2 DEF Update
  <2>4. \E u \in Update : wire' = [wire EXCEPT ![s][r] = u]
    BY <1>5, <2>3 DEF Offer
  <2>5. wire' \in [Replica -> [Replica -> Update \cup {None}]]
    BY <2>4 DEF TypeOK
  <2> QED BY <1>5, <2>5 DEF Offer, TypeOK
<1>6. ASSUME NEW s \in Replica, NEW r \in Replica, Deliver(s, r) PROVE IInv'
  <2>1. wire[s][r] \in Update
    BY <1>6 DEF Deliver, TypeOK
  <2>2. PeersInv' /\ UNCHANGED <<clock, heard, wire>>
    BY <1>6, <2>1, HostUpdateInv DEF Deliver
  <2> QED BY <2>2 DEF PeersInv, TypeOK
<1>7. ASSUME NEW s \in Replica, NEW r \in Replica, Lose(s, r) PROVE IInv'
  BY <1>7 DEF Lose, TypeOK
<1>8. ASSUME NEW r \in Replica, NEW s \in Replica, Fetch(r, s) PROVE IInv'
  <2>1. feed[s] \in FeedState
    BY <1>8 DEF Fetch, TypeOK
  <2>2. PeersInv' /\ UNCHANGED <<clock, heard, wire>>
    BY <1>8, <2>1, HostStoreInv DEF Fetch
  <2> QED BY <2>2 DEF PeersInv, TypeOK
<1>9. CASE UNCHANGED vars
  BY <1>9 DEF vars, TypeOK
<1> QED BY <1>1, <1>2, <1>3, <1>4, <1>5, <1>6, <1>7, <1>8, <1>9 DEF Next

\* The invariant holds in every state of every run: each peer's feed is sound
\* and holds the newest posts that it ever accepted.
THEOREM Invariance == Spec => []IInv
BY InitInv, NextInv, PTL DEF Spec

(***************************************************************************)
(* Every variable keeps its type, whatever is lost, repeated or reordered. *)
(***************************************************************************)
THEOREM FeedTypeCorrect == Spec => []TypeOK
<1>1. IInv => TypeOK
  BY DEF IInv
<1> QED BY <1>1, Invariance, PTL

(***************************************************************************)
(* What a peer stores, its own validate_state accepts.                     *)
(***************************************************************************)
THEOREM FeedStoredStatesValid == Spec => []StoredStatesValid
<1>1. IInv => StoredStatesValid
  BY SoundIsValid, FeedAssumption
     DEF IInv, TypeOK, StoredStatesValid, Seeded, PeerInv, Sound
<1> QED BY <1>1, Invariance, PTL

(***************************************************************************)
(* A peer's log is the newest MAX_POSTS of all the posts it ever merged.   *)
(***************************************************************************)
THEOREM FeedRetainedIsNewest == Spec => []RetainedIsNewest
<1>1. IInv => RetainedIsNewest
  BY DEF IInv, RetainedIsNewest, Seeded, PeerInv, canonicalize
<1> QED BY <1>1, Invariance, PTL

-----------------------------------------------------------------------------
(* Agreement *)

Registers == [version : Nat, hash : Nat \ {0}]

\* Two last-writer registers that have nothing to send each other are equal.
LEMMA LwwSilence ==
  ASSUME NEW a \in Registers, NEW b \in Registers, a # None, b # None,
         LwwDelta(a, b) = None, LwwDelta(b, a) = None
  PROVE  a = b
<1>1. ~LwwLess(a, b) /\ ~LwwLess(b, a)
  BY DEF LwwDelta
<1>2. a.version = b.version /\ a.hash = b.hash
  BY <1>1 DEF LwwLess, Registers
<1> QED BY <1>2 DEF Registers

\* Two attestation slots that have nothing to send each other are equal.
LEMMA SlotSilence ==
  ASSUME NEW a \in Attestation \cup {None}, NEW b \in Attestation \cup {None},
         SlotDelta(a, b) = None, SlotDelta(b, a) = None
  PROVE  a = b
<1>1. ~SlotLess(a, b) /\ ~SlotLess(b, a)
  BY DEF SlotDelta, SlotLess
<1>2. CASE a = None \/ b = None
  BY <1>1, <1>2 DEF SlotLess
<1>3. CASE a # None /\ b # None
  <2>1. a \in [hash : Nat \ {0}] /\ b \in [hash : Nat \ {0}]
    BY <1>3, FeedAssumption
  <2>2. a.hash = b.hash
    BY <1>1, <1>3, <2>1 DEF SlotLess
  <2> QED BY <2>1, <2>2
<1> QED BY <1>2, <1>3

\* The registers of a stored feed are set; only the attestation may be missing.
LEMMA StoredRegisters ==
  ASSUME NEW f \in FeedState
  PROVE  /\ f.profile \in Registers /\ f.profile # None
         /\ f.follows \in Registers /\ f.follows # None
         /\ f.attestation \in Attestation \cup {None}
         /\ f.posts \in SUBSET Post
BY FeedAssumption, NoneAssumption DEF FeedState, Registers

\* A summary carries the registers in full.
LEMMA SummaryKeepsRegisters ==
  ASSUME NEW f
  PROVE  /\ summarize(f).profile = f.profile
         /\ summarize(f).follows = f.follows
         /\ summarize(f).attestation = f.attestation
BY DEF summarize

(***************************************************************************)
(* A feed that offers nothing to a summary: what its log still has over    *)
(* the other's, the other would push out.                                  *)
(***************************************************************************)
LEMMA NothingToOffer ==
  ASSUME NEW f \in FeedState, NEW g \in FeedState, Cardinality(g.posts) <= MAX_POSTS,
         delta(f, summarize(g)) = NoDelta
  PROVE  /\ LwwDelta(f.profile, g.profile) = None
         /\ LwwDelta(f.follows, g.follows) = None
         /\ SlotDelta(f.attestation, g.attestation) = None
         /\ \A x \in f.posts : x \in g.posts
              \/ ~(Cardinality(Newer(PostOrder, g.posts, x)) < MAX_POSTS)
<1>1. PostsDelta(f.posts, summarize(g)) = {}
  BY DEF delta, NoDelta
<1>2. /\ LwwDelta(f.profile, g.profile) = None
      /\ LwwDelta(f.follows, g.follows) = None
      /\ SlotDelta(f.attestation, g.attestation) = None
  BY SummaryKeepsRegisters DEF delta, NoDelta
<1>3. f.posts \in SUBSET Post
  BY StoredRegisters
<1> QED BY <1>1, <1>2, <1>3, PostsDeltaMeaning

\* Two sound feeds that have nothing to send each other are equal.
LEMMA SilentPairAgrees ==
  ASSUME NEW now, NEW f, Sound(f, now), NEW now2, NEW g, Sound(g, now2),
         delta(f, summarize(g)) = NoDelta, delta(g, summarize(f)) = NoDelta
  PROVE  f = g
<1>1. /\ f \in FeedState /\ g \in FeedState
      /\ Cardinality(f.posts) <= MAX_POSTS /\ Cardinality(g.posts) <= MAX_POSTS
  BY DEF Sound
<1>2. f.profile = g.profile
  BY <1>1, NothingToOffer, StoredRegisters, LwwSilence
<1>3. f.follows = g.follows
  BY <1>1, NothingToOffer, StoredRegisters, LwwSilence
<1>4. f.attestation = g.attestation
  BY <1>1, NothingToOffer, StoredRegisters, SlotSilence
<1>5. f.posts = g.posts
  <2> DEFINE A == f.posts
             B == g.posts
  <2>1. A \in SUBSET Post /\ B \in SUBSET Post /\ IsFiniteSet(A) /\ IsFiniteSet(B)
    BY <1>1, StoredRegisters, PostsAreFinite
  <2>2. /\ \A x \in A \ B : ~(Cardinality(Newer(PostOrder, B, x)) < MAX_POSTS)
        /\ \A x \in B \ A : ~(Cardinality(Newer(PostOrder, A, x)) < MAX_POSTS)
    BY <1>1, NothingToOffer
  <2>3. MAX_POSTS \in Nat /\ Cardinality(A) <= MAX_POSTS /\ Cardinality(B) <= MAX_POSTS
    BY <1>1, FeedAssumption
  <2> HIDE DEF A, B
  <2>4. A = B
    BY <2>1, <2>2, <2>3, MutualSilenceAgrees, PostOrderTotal
  <2> QED BY <2>4 DEF A, B
<1> QED BY <1>1, <1>2, <1>3, <1>4, <1>5 DEF FeedState

(***************************************************************************)
(* Two peers with nothing to offer each other store the same feed: the     *)
(* summary hides no difference, for every cap and every pair of equal      *)
(* versions.                                                               *)
(***************************************************************************)
THEOREM FeedPairAgreement == Spec => []PairAgreement
<1>1. IInv => PairAgreement
  <2> SUFFICES ASSUME IInv, NEW r \in Replica, NEW s \in Replica,
                      feed[r] # None, feed[s] # None,
                      OfferNow(s, r) = NoDelta, OfferNow(r, s) = NoDelta
               PROVE  feed[r] = feed[s]
    BY DEF PairAgreement, Seeded
  <2>1. Sound(feed[r], clock[r]) /\ Sound(feed[s], clock[s])
    BY DEF IInv, PeerInv
  <2> QED BY <2>1, SilentPairAgrees DEF OfferNow
<1> QED BY <1>1, Invariance, PTL

(***************************************************************************)
(* When nobody has anything to offer anybody, every log is the newest      *)
(* MAX_POSTS of all the posts that any peer ever merged.                   *)
(***************************************************************************)
THEOREM FeedQuietNetworkIsComplete == Spec => []QuietNetworkIsComplete
<1>1. IInv => QuietNetworkIsComplete
  <2> DEFINE U == UNION {accepted[s] : s \in Replica}
  <2> SUFFICES ASSUME IInv, \A r, s \in Replica : feed[r] # None /\ OfferNow(s, r) = NoDelta,
                      NEW r \in Replica
               PROVE  feed[r].posts = Newest(PostOrder, MAX_POSTS, U)
    BY DEF QuietNetworkIsComplete, Seeded
  <2>1. \A s \in Replica : /\ Sound(feed[s], clock[s])
                           /\ feed[s].posts = Newest(PostOrder, MAX_POSTS, accepted[s])
                           /\ accepted[s] \in SUBSET Post
    BY DEF IInv, TypeOK, PeerInv, canonicalize
  <2>2. U \in SUBSET Post /\ IsFiniteSet(U) /\ MAX_POSTS \in Nat
    BY <2>1, PostsAreFinite, FeedAssumption
  <2>3. \A s \in Replica : accepted[s] \in SUBSET U
    OBVIOUS
  <2>4. \A x \in U : \E s \in Replica : x \in accepted[s]
    OBVIOUS
  <2> HIDE DEF U
  <2>5. ASSUME NEW x \in Newest(PostOrder, MAX_POSTS, U)
        PROVE  x \in feed[r].posts
                 \/ ~(Cardinality(Newer(PostOrder, feed[r].posts, x)) < MAX_POSTS)
    <3>1. x \in U /\ Cardinality(Newer(PostOrder, U, x)) < MAX_POSTS
      BY DEF Newest
    <3>2. PICK s \in Replica : x \in accepted[s]
      BY <2>4, <3>1
    <3>3. Cardinality(Newer(PostOrder, accepted[s], x)) < MAX_POSTS
      BY <2>2, <2>3, <3>1, NewerMonotone
    <3>4. x \in feed[s].posts
      BY <2>1, <3>2, <3>3 DEF Newest
    <3>5. delta(feed[s], summarize(feed[r])) = NoDelta
      BY DEF OfferNow
    <3> QED BY <2>1, <3>4, <3>5, NothingToOffer DEF Sound
  <2> DEFINE L == feed[r].posts
  <2>6. L \in SUBSET U /\ Cardinality(L) <= MAX_POSTS
    BY <2>1, <2>3 DEF Newest, Sound
  <2>7. \A x \in Newest(PostOrder, MAX_POSTS, U) :
          x \in L \/ ~(Cardinality(Newer(PostOrder, L, x)) < MAX_POSTS)
    BY <2>5
  <2> HIDE DEF L
  <2>8. L = Newest(PostOrder, MAX_POSTS, U)
    BY <2>2, <2>6, <2>7, SilenceIsComplete, PostOrderTotal
  <2> QED BY <2>8 DEF L
<1> QED BY <1>1, Invariance, PTL

-----------------------------------------------------------------------------
(* One exchange settles a pair *)

\* A register that was sent is not sent again, and is sent only if it changes
\* the receiver.
LEMMA LwwSettles ==
  ASSUME NEW mine \in Registers, NEW theirs \in Registers, mine # None
  PROVE  /\ LwwDelta(mine, LwwWinner(theirs, LwwDelta(mine, theirs))) = None
         /\ LwwDelta(mine, theirs) # None
              => LwwWinner(theirs, LwwDelta(mine, theirs)) # theirs
<1>1. ~LwwLess(mine, mine) /\ ~LwwLess(theirs, theirs)
  BY DEF LwwLess, Registers
<1> QED BY <1>1 DEF LwwDelta, LwwWinner

\* An attestation that was sent is not sent again, and is sent only if it
\* changes the receiver.
LEMMA SlotSettles ==
  ASSUME NEW mine \in Attestation \cup {None}, NEW theirs \in Attestation \cup {None}
  PROVE  /\ SlotDelta(mine, SlotWinner(theirs, SlotDelta(mine, theirs))) = None
         /\ SlotDelta(mine, theirs) # None
              => SlotWinner(theirs, SlotDelta(mine, theirs)) # theirs
<1>1. \A a \in Attestation \cup {None} : ~SlotLess(a, a)
  BY FeedAssumption DEF SlotLess
<1>2. CASE SlotLess(theirs, mine)
  <2>1. SlotDelta(mine, theirs) = mine /\ SlotWinner(theirs, mine) = mine
    BY <1>2 DEF SlotDelta, SlotWinner
  <2>2. SlotDelta(mine, mine) = None /\ mine # theirs
    BY <1>1, <1>2 DEF SlotDelta
  <2> QED BY <2>1, <2>2
<1>3. CASE ~SlotLess(theirs, mine)
  <2>1. SlotDelta(mine, theirs) = None /\ SlotWinner(theirs, None) = theirs
    BY <1>3 DEF SlotDelta, SlotWinner, SlotLess
  <2> QED BY <2>1
<1> QED BY <1>2, <1>3

\* Posts that were sent are not sent again, and are sent only if they change
\* the receiver.
LEMMA PostsSettle ==
  ASSUME NEW A \in SUBSET Post, NEW B \in SUBSET Post, Cardinality(B) <= MAX_POSTS,
         NEW D,
         \A x : x \in D <=>
           x \in A /\ x \notin B /\ Cardinality(Newer(PostOrder, B, x)) < MAX_POSTS
  PROVE  /\ \A x \in A : x \in canonicalize(B \cup D)
              \/ ~(Cardinality(Newer(PostOrder, canonicalize(B \cup D), x)) < MAX_POSTS)
         /\ D # {} => canonicalize(B \cup D) # B
<1>1. IsFiniteSet(A) /\ IsFiniteSet(B) /\ MAX_POSTS \in Nat
  BY PostsAreFinite, FeedAssumption
<1> QED BY <1>1, DeltaSettles, PostOrderTotal DEF canonicalize

\* A delta that is applied leaves the sender nothing more to send, and it is not
\* empty only if it changes the receiver.
LEMMA ExchangeSettles ==
  ASSUME NEW now \in Nat, NEW f, Sound(f, now), NEW g \in FeedState, WellFormed(g),
         delta(g, summarize(f)) # NoDelta,
         InTime(delta(g, summarize(f)).posts, now) = delta(g, summarize(f)).posts
  PROVE  LET new == update_state(f, [state |-> None, delta |-> delta(g, summarize(f))], now)
         IN  new # None /\ new # f /\ delta(g, summarize(new)) = NoDelta
<1> DEFINE d   == delta(g, summarize(f))
           new == apply_delta(f, d)
<1>0. /\ f \in FeedState /\ f # None /\ Cardinality(f.posts) <= MAX_POSTS
      /\ f.posts \in SUBSET Post /\ g.posts \in SUBSET Post
  BY NoneAssumption DEF Sound, FeedState
<1>1. /\ d.profile = LwwDelta(g.profile, f.profile)
      /\ d.follows = LwwDelta(g.follows, f.follows)
      /\ d.attestation = SlotDelta(g.attestation, f.attestation)
      /\ d.posts = PostsDelta(g.posts, summarize(f))
  BY SummaryKeepsRegisters DEF delta
<1>2. d \in FeedDelta
  BY <1>0, DeltaType
<1>3. \A x : x \in d.posts <=>
        x \in g.posts /\ x \notin f.posts /\ Cardinality(Newer(PostOrder, f.posts, x)) < MAX_POSTS
  BY <1>0, <1>1, PostsDeltaMeaning
<1>4. WellFormed(d)
  BY <1>1, <1>3, NoneAssumption DEF WellFormed, LwwDelta, SlotDelta
<1>5. new = [profile     |-> LwwWinner(f.profile, d.profile),
             follows     |-> LwwWinner(f.follows, d.follows),
             attestation |-> SlotWinner(f.attestation, d.attestation),
             posts       |-> canonicalize(f.posts \cup d.posts)]
  BY <1>4 DEF apply_delta
<1>6. scrub(f, now) = f /\ scrub(d, now) = d
  BY <1>0, <1>2 DEF Sound, scrub, FeedState, FeedDelta
<1>7. d # None /\ update_state(f, [state |-> None, delta |-> d], now) = new
  BY <1>0, <1>2, <1>6, NoneAssumption DEF update_state
<1>8. new \in FeedState
  <2>1. canonicalize(f.posts \cup d.posts) \in SUBSET Post
    BY <1>0, <1>2, CanonicalBounded DEF FeedDelta
  <2>2. /\ LwwWinner(f.profile, d.profile) \in Profile
        /\ LwwWinner(f.follows, d.follows) \in Follows
        /\ SlotWinner(f.attestation, d.attestation) \in Attestation \cup {None}
    BY <1>0, <1>2 DEF LwwWinner, SlotWinner, FeedState, FeedDelta
  <2> HIDE DEF d, new
  <2>3. \A pr \in Profile, fo \in Follows, at \in Attestation \cup {None}, ps \in SUBSET Post :
          [profile |-> pr, follows |-> fo, attestation |-> at, posts |-> ps] \in FeedState
    BY DEF FeedState
  <2> QED BY <1>5, <2>1, <2>2, <2>3
<1>9. Cardinality(new.posts) <= MAX_POSTS
  BY <1>0, <1>2, <1>5, CanonicalBounded DEF FeedDelta
<1>10. /\ \A x \in g.posts : x \in canonicalize(f.posts \cup d.posts)
             \/ ~(Cardinality(Newer(PostOrder, canonicalize(f.posts \cup d.posts), x)) < MAX_POSTS)
       /\ d.posts # {} => canonicalize(f.posts \cup d.posts) # f.posts
  <2> HIDE DEF d
  <2> QED BY <1>0, <1>3, PostsSettle
<1>11. /\ f.profile \in Registers /\ f.follows \in Registers
       /\ g.profile \in Registers /\ g.follows \in Registers
       /\ g.profile # None /\ g.follows # None
       /\ f.attestation \in Attestation \cup {None}
       /\ g.attestation \in Attestation \cup {None}
  BY <1>0, StoredRegisters
<1>12. new # f
  <2>1. d.profile # None \/ d.follows # None \/ d.attestation # None \/ d.posts # {}
    BY DEF delta, NoDelta
  <2> HIDE DEF d, new
  <2>2. /\ d.profile # None => LwwWinner(f.profile, d.profile) # f.profile
        /\ d.follows # None => LwwWinner(f.follows, d.follows) # f.follows
        /\ d.attestation # None => SlotWinner(f.attestation, d.attestation) # f.attestation
    BY <1>1, <1>11, LwwSettles, SlotSettles
  <2> QED BY <1>5, <1>10, <2>1, <2>2
<1>13. delta(g, summarize(new)) = NoDelta
  <2>1. /\ LwwDelta(g.profile, new.profile) = None
        /\ LwwDelta(g.follows, new.follows) = None
        /\ SlotDelta(g.attestation, new.attestation) = None
    <3> HIDE DEF d, new
    <3> QED BY <1>1, <1>5, <1>11, LwwSettles, SlotSettles
  <2>2. PostsDelta(g.posts, summarize(new)) = {}
    <3> DEFINE C == canonicalize(f.posts \cup d.posts)
    <3>1. new.posts = C
      BY <1>5
    <3>2. \A x \in g.posts : x \in C \/ ~(Cardinality(Newer(PostOrder, C, x)) < MAX_POSTS)
      BY <1>10
    <3> HIDE DEF C, d, new
    <3>3. \A x : x \in PostsDelta(g.posts, summarize(new)) <=>
            x \in g.posts /\ x \notin C /\ Cardinality(Newer(PostOrder, C, x)) < MAX_POSTS
      BY <1>0, <1>8, <1>9, <3>1, PostsDeltaMeaning
    <3> QED BY <3>2, <3>3
  <2> HIDE DEF new
  <2> QED BY <2>1, <2>2, SummaryKeepsRegisters DEF delta, NoDelta
<1>14. new # None
  BY <1>8, NoneAssumption
<1> QED BY <1>7, <1>12, <1>13, <1>14

(***************************************************************************)
(* No futile offer: a delta against the receiver's current summary is      *)
(* accepted, changes it, and leaves nothing more to send.                  *)
(***************************************************************************)
THEOREM FeedOneExchangeSettles == Spec => []OneExchangeSettles
<1>1. IInv => OneExchangeSettles
  <2> SUFFICES ASSUME IInv, NEW r \in Replica, NEW s \in Replica,
                      feed[r] # None, feed[s] # None, OfferNow(s, r) # NoDelta,
                      InTime(OfferNow(s, r).posts, clock[r]) = OfferNow(s, r).posts
               PROVE  LET new == update_state(feed[r],
                                   [state |-> None, delta |-> OfferNow(s, r)], clock[r])
                      IN  new # None /\ new # feed[r] /\ delta(feed[s], summarize(new)) = NoDelta
    BY DEF OneExchangeSettles, Seeded
  <2>1. /\ Sound(feed[r], clock[r]) /\ clock[r] \in Nat
        /\ feed[s] \in FeedState /\ WellFormed(feed[s])
    BY DEF IInv, TypeOK, PeerInv, Sound
  <2> QED BY <2>1, ExchangeSettles DEF OfferNow
<1> QED BY <1>1, Invariance, PTL

-----------------------------------------------------------------------------
(* What a step may do to a peer *)

\* A step changes feeds through one update or one first copy, or not at all.
LEMMA StepShape ==
  ASSUME IInv, [Next]_vars
  PROVE  \/ UNCHANGED <<feed, accepted>>
         \/ \E r \in Replica, u \in Update : HostUpdate(r, u) /\ UNCHANGED clock
         \/ \E r \in Replica, f \in FeedState : HostStore(r, f) /\ UNCHANGED clock
<1>1. ASSUME NEW r \in Replica, NEW p \in Profile, NEW q \in Follows, Put(r, p, q)
      PROVE  \/ \E u \in Update : HostUpdate(r, u) /\ UNCHANGED clock
             \/ \E f \in FeedState : HostStore(r, f) /\ UNCHANGED clock
  <2> DEFINE f == [profile |-> p, follows |-> q, attestation |-> None, posts |-> {}]
             u == [state |-> f, delta |-> None]
  <2>1. f \in FeedState /\ u \in Update
    BY DEF FeedState, Update
  <2>2. (HostStore(r, f) \/ HostUpdate(r, u)) /\ UNCHANGED clock
    BY <1>1 DEF Put
  <2> HIDE DEF f, u
  <2> QED BY <2>1, <2>2
<1>2. ASSUME NEW r \in Replica, NEW d \in ClientDelta, ClientUpdate(r, d)
      PROVE  \E u \in Update : HostUpdate(r, u) /\ UNCHANGED clock
  <2>1. d \in FeedDelta
    BY DEF ClientDelta, NoDelta, FeedDelta
  <2>2. [state |-> None, delta |-> d] \in Update
    BY <2>1 DEF Update
  <2> QED BY <1>2, <2>2 DEF ClientUpdate
<1>3. ASSUME NEW s \in Replica, NEW r \in Replica, Deliver(s, r)
      PROVE  \E u \in Update : HostUpdate(r, u) /\ UNCHANGED clock
  <2>1. wire[s][r] \in Update
    BY <1>3 DEF Deliver, IInv, TypeOK
  <2> QED BY <1>3, <2>1 DEF Deliver
<1>4. ASSUME NEW r \in Replica, NEW s \in Replica, Fetch(r, s)
      PROVE  \E f \in FeedState : HostStore(r, f) /\ UNCHANGED clock
  <2>1. feed[s] \in FeedState
    BY <1>4 DEF Fetch, IInv, TypeOK
  <2> QED BY <1>4, <2>1 DEF Fetch
<1>5. ASSUME \/ UNCHANGED vars
             \/ \E r \in Replica : Tick(r)
             \/ \E r, s \in Replica : Announce(r, s)
             \/ \E s, r \in Replica : Offer(s, r)
             \/ \E s, r \in Replica : Lose(s, r)
      PROVE  UNCHANGED <<feed, accepted>>
  BY <1>5 DEF vars, Tick, Announce, Offer, Lose
<1> QED BY <1>1, <1>2, <1>3, <1>4, <1>5 DEF Next

-----------------------------------------------------------------------------
(* A stored feed only advances *)

RegistersAdvance(f, g) ==
  /\ ~LwwLess(g.profile, f.profile)
  /\ ~LwwLess(g.follows, f.follows)
  /\ ~SlotLess(g.attestation, f.attestation)

\* Registers that advance twice have advanced.
LEMMA AdvanceTransitive ==
  ASSUME NEW f \in FeedState, NEW g \in FeedState, NEW h \in FeedState,
         RegistersAdvance(f, g), RegistersAdvance(g, h)
  PROVE  RegistersAdvance(f, h)
<1>1. \A a, b, c \in Registers : ~LwwLess(b, a) /\ ~LwwLess(c, b) => ~LwwLess(c, a)
  BY DEF LwwLess, Registers
<1>2. \A a, b, c \in Attestation \cup {None} :
        ~SlotLess(b, a) /\ ~SlotLess(c, b) => ~SlotLess(c, a)
  BY FeedAssumption DEF SlotLess
<1> QED BY <1>1, <1>2, StoredRegisters DEF RegistersAdvance

\* Registers that do not change have not gone back.
LEMMA AdvanceReflexive ==
  ASSUME NEW f \in FeedState
  PROVE  RegistersAdvance(f, f)
<1>1. \A a \in Registers : ~LwwLess(a, a)
  BY DEF LwwLess, Registers
<1>2. \A a \in Attestation \cup {None} : ~SlotLess(a, a)
  BY FeedAssumption DEF SlotLess
<1> QED BY <1>1, <1>2, StoredRegisters DEF RegistersAdvance

\* Applying a delta takes no register back.
LEMMA ApplyAdvances ==
  ASSUME NEW f \in FeedState, NEW d \in FeedDelta, apply_delta(f, d) # None
  PROVE  RegistersAdvance(f, apply_delta(f, d))
<1>1. /\ apply_delta(f, d).profile = LwwWinner(f.profile, d.profile)
      /\ apply_delta(f, d).follows = LwwWinner(f.follows, d.follows)
      /\ apply_delta(f, d).attestation = SlotWinner(f.attestation, d.attestation)
  BY DEF apply_delta
<1>2. \A a, b \in Registers : ~LwwLess(a, a) /\ (LwwLess(a, b) => ~LwwLess(b, a))
  BY DEF LwwLess, Registers
<1>3. /\ d.profile # None => d.profile \in Registers
      /\ d.follows # None => d.follows \in Registers
      /\ d.attestation \in Attestation \cup {None}
  BY FeedAssumption DEF FeedDelta, Registers
<1>4. \A a, b \in Attestation \cup {None} : ~SlotLess(a, a) /\ (SlotLess(a, b) => ~SlotLess(b, a))
  BY FeedAssumption DEF SlotLess
<1>5. ~LwwLess(LwwWinner(f.profile, d.profile), f.profile)
  BY <1>2, <1>3, StoredRegisters DEF LwwWinner
<1>6. ~LwwLess(LwwWinner(f.follows, d.follows), f.follows)
  BY <1>2, <1>3, StoredRegisters DEF LwwWinner
<1>7. ~SlotLess(SlotWinner(f.attestation, d.attestation), f.attestation)
  BY <1>3, <1>4, StoredRegisters DEF SlotWinner
<1> QED BY <1>1, <1>5, <1>6, <1>7 DEF RegistersAdvance

\* Merging a feed takes no register back.
LEMMA MergeAdvances ==
  ASSUME NEW f \in FeedState, NEW g \in FeedState, merge(f, g) # None
  PROVE  RegistersAdvance(f, merge(f, g))
BY DeltaType, ApplyAdvances, AdvanceReflexive DEF merge

(***************************************************************************)
(* No update, whatever its halves, takes a register of a stored feed back. *)
(***************************************************************************)
LEMMA UpdateAdvances ==
  ASSUME NEW now \in Nat, NEW f, Sound(f, now), NEW u \in Update,
         update_state(f, u, now) # None
  PROVE  RegistersAdvance(f, update_state(f, u, now))
<1> DEFINE seeded == IF u.state = None THEN f ELSE merge(f, scrub(u.state, now))
<1>1. f \in FeedState /\ f # None /\ scrub(f, now) = f
  BY NoneAssumption DEF Sound, scrub, FeedState
<1>2. u.state \in FeedState \cup {None} /\ u.delta \in FeedDelta \cup {None}
  BY DEF Update
<1>3. /\ seeded = None \/ u.delta = None => update_state(f, u, now) = seeded
      /\ ~(seeded = None \/ u.delta = None) =>
           update_state(f, u, now) = apply_delta(seeded, scrub(u.delta, now))
  BY <1>1 DEF update_state, MergeState
<1>4. seeded # None
  BY <1>3
<1>5. seeded \in FeedState /\ RegistersAdvance(f, seeded)
  <2>1. CASE u.state = None
    BY <1>1, <2>1, AdvanceReflexive
  <2>2. CASE u.state # None
    <3> DEFINE g == scrub(u.state, now)
    <3>1. g \in FeedState /\ g.posts = InTime(u.state.posts, now)
      BY <1>2, <2>2, ScrubType
    <3>2. seeded = merge(f, g)
      BY <2>2
    <3> HIDE DEF g, seeded
    <3>3. InTime(g.posts, now) = g.posts
      BY <3>1, InTimeMeaning
    <3> QED BY <1>1, <1>4, <3>1, <3>2, <3>3, MergeAdvances, MergeEffect DEF Sound
  <2> QED BY <2>1, <2>2
<1>6. CASE u.delta = None
  BY <1>3, <1>5, <1>6
<1>7. CASE u.delta # None
  <2> DEFINE d == scrub(u.delta, now)
             new == apply_delta(seeded, d)
  <2>1. d \in FeedDelta
    BY <1>2, <1>7, ScrubType
  <2>2. update_state(f, u, now) = new /\ new # None
    BY <1>3, <1>4, <1>7
  <2>3. RegistersAdvance(seeded, new)
    <3> HIDE DEF d, seeded
    <3> QED BY <1>5, <2>1, <2>2, ApplyAdvances
  <2>4. new \in FeedState
    <3> HIDE DEF d, new
    <3>1. PeerInv(f, f.posts, now)
      BY <1>1, CanonicalOfFew, StoredRegisters DEF PeerInv, Sound
    <3> QED BY <1>1, <2>2, <3>1, StoredRegisters, UpdateEffect DEF PeerInv, Sound
  <2> HIDE DEF seeded, new
  <2> QED BY <1>1, <1>5, <2>2, <2>3, <2>4, AdvanceTransitive
<1> QED BY <1>6, <1>7

\* A post leaves a log only when MAX_POSTS newer ones are there.
LEMMA PostsLeaveForNewer ==
  ASSUME NEW acc \in SUBSET Post, NEW acc2 \in SUBSET Post, acc \subseteq acc2,
         NEW p \in canonicalize(acc), p \notin canonicalize(acc2)
  PROVE  Cardinality(Newer(PostOrder, canonicalize(acc2), p)) = MAX_POSTS
<1> DEFINE L == canonicalize(acc2)
<1>1. p \in acc2 /\ p \in Post
  BY DEF canonicalize, Newest
<1>2. MAX_POSTS \in Nat /\ IsFiniteSet(acc2)
  BY PostsAreFinite, FeedAssumption
<1>3. ~(Cardinality(Newer(PostOrder, acc2, p)) < MAX_POSTS)
  BY <1>1 DEF canonicalize, Newest
<1>4. ~(Cardinality(Newer(PostOrder, L, p)) < MAX_POSTS)
  BY <1>1, <1>2, <1>3, NewestPushesOut, PostOrderTotal DEF canonicalize
<1>5. IsFiniteSet(L) /\ Cardinality(L) <= MAX_POSTS
  BY CanonicalBounded, PostsAreFinite
<1> HIDE DEF L
<1>6. Newer(PostOrder, L, p) = L /\ Cardinality(L) = MAX_POSTS
  BY <1>2, <1>4, <1>5, PushedOutByAll
<1> QED BY <1>6 DEF L

(***************************************************************************)
(* No step takes a stored feed back: registers and the attestation never   *)
(* return to an older record, and a post leaves only for MAX_POSTS newer   *)
(* ones.                                                                   *)
(***************************************************************************)
THEOREM FeedNeverRegress == Spec => NeverRegress
<1> DEFINE Step == \A r \in Replica : Seeded(r) =>
             /\ ~LwwLess(feed'[r].profile, feed[r].profile)
             /\ ~LwwLess(feed'[r].follows, feed[r].follows)
             /\ ~SlotLess(feed'[r].attestation, feed[r].attestation)
             /\ \A p \in feed[r].posts \ feed'[r].posts :
                  Cardinality(Newer(PostOrder, feed'[r].posts, p)) = MAX_POSTS
<1>1. ASSUME IInv, IInv', [Next]_vars
      PROVE  Step
  <2> SUFFICES ASSUME NEW r \in Replica, feed[r] # None
               PROVE  /\ RegistersAdvance(feed[r], feed'[r])
                      /\ \A p \in feed[r].posts \ feed'[r].posts :
                           Cardinality(Newer(PostOrder, feed'[r].posts, p)) = MAX_POSTS
    BY DEF Seeded, RegistersAdvance
  <2>1. /\ Sound(feed[r], clock[r]) /\ clock[r] \in Nat
        /\ feed[r].posts = canonicalize(accepted[r])
        /\ feed[r] \in FeedState
        /\ accepted[r] \in SUBSET Post /\ accepted'[r] \in SUBSET Post
    BY <1>1 DEF IInv, TypeOK, PeerInv, Sound
  <2>2. CASE feed'[r] = feed[r]
    BY <2>1, <2>2, AdvanceReflexive
  <2>3. ASSUME NEW u \in Update, HostUpdate(r, u)
        PROVE  /\ RegistersAdvance(feed[r], feed'[r])
               /\ feed'[r] # None /\ accepted[r] \subseteq accepted'[r]
    <3>1. /\ update_state(feed[r], u, clock[r]) # None
          /\ feed'[r] = update_state(feed[r], u, clock[r])
          /\ accepted'[r] = accepted[r] \cup PostsOf(u, clock[r])
      BY <1>1, <2>3 DEF HostUpdate, IInv, TypeOK
    <3> QED BY <2>1, <3>1, UpdateAdvances
  <2>4. CASE \E u \in Update : HostUpdate(r, u)
    <3>1. /\ RegistersAdvance(feed[r], feed'[r])
          /\ feed'[r] # None /\ accepted[r] \subseteq accepted'[r]
      BY <2>3, <2>4
    <3>2. feed'[r].posts = canonicalize(accepted'[r])
      BY <1>1, <3>1 DEF IInv, PeerInv
    <3> QED BY <2>1, <3>1, <3>2, PostsLeaveForNewer
  <2>5. feed'[r] = feed[r] \/ \E u \in Update : HostUpdate(r, u)
    <3>1. ASSUME NEW s \in Replica, NEW u \in Update, HostUpdate(s, u)
          PROVE  feed'[r] = feed[r] \/ HostUpdate(r, u)
      BY <1>1, <3>1 DEF HostUpdate, IInv, TypeOK
    <3>2. ASSUME NEW s \in Replica, NEW f \in FeedState, HostStore(s, f)
          PROVE  feed'[r] = feed[r]
      BY <1>1, <3>2 DEF HostStore, IInv, TypeOK
    <3> QED BY <1>1, <3>1, <3>2, StepShape
  <2> QED BY <2>2, <2>4, <2>5
<1> QED BY <1>1, Invariance, PTL DEF Spec, NeverRegress

-----------------------------------------------------------------------------
(* Refinement *)

(***************************************************************************)
(* The posts of a feed refine PostLog.                                     *)
(***************************************************************************)
THEOREM FeedImplementsPostLog == Spec => ImplementsPostLog
<1>1. Init => Log!Init
  BY DEF Init, Log!Init, ShownPosts
<1>2. ASSUME IInv, IInv', [Next]_vars
      PROVE  [Log!Next]_<<accepted, ShownPosts>>
  <2>1. \A r \in Replica : ShownPosts[r] = canonicalize(accepted[r])
    <3>1. canonicalize({}) = {}
      BY DEF canonicalize, Newest
    <3> QED BY <1>2, <3>1 DEF IInv, PeerInv, ShownPosts
  <2>2. \A r \in Replica : ShownPosts'[r] = canonicalize(accepted'[r])
    <3>1. canonicalize({}) = {}
      BY DEF canonicalize, Newest
    <3> QED BY <1>2, <3>1 DEF IInv, PeerInv, ShownPosts
  <2>3. ASSUME NEW r \in Replica, NEW P \in SUBSET Post,
               accepted' = [accepted EXCEPT ![r] = @ \cup P]
        PROVE  Log!Next
    <3>1. accepted \in [Replica -> SUBSET Post]
      BY <1>2 DEF IInv, TypeOK
    <3>2. \A s \in Replica : accepted'[s] = IF s = r THEN accepted[s] \cup P ELSE accepted[s]
      BY <2>3, <3>1
    <3>3. \A s \in Replica : ShownPosts'[s] = IF s = r THEN canonicalize(accepted[r] \cup P) ELSE ShownPosts[s]
      BY <2>1, <2>2, <3>2
    <3>4. ShownPosts' = [ShownPosts EXCEPT ![r] = canonicalize(accepted[r] \cup P)]
      BY <3>3 DEF ShownPosts
    <3>5. ShownPosts' = [ShownPosts EXCEPT ![r] = Newest(PostOrder, MAX_POSTS, accepted[r] \cup P)]
      BY <3>4 DEF canonicalize
    <3>6. \E s \in Replica, S \in SUBSET Post :
            /\ accepted' = [accepted EXCEPT ![s] = @ \cup S]
            /\ ShownPosts' = [ShownPosts EXCEPT ![s] = Newest(PostOrder, MAX_POSTS, accepted[s] \cup S)]
      BY <2>3, <3>5
    <3>7. \A S : Log!Newest(PostOrder, MAX_POSTS, S) = Newest(PostOrder, MAX_POSTS, S)
      BY DEF Log!Newest, Log!Newer, Newest, Newer, Log!Cardinality, Cardinality
    <3>8. PICK s \in Replica, S \in SUBSET Post :
            /\ accepted' = [accepted EXCEPT ![s] = @ \cup S]
            /\ ShownPosts' = [ShownPosts EXCEPT ![s] = Log!Newest(PostOrder, MAX_POSTS, accepted[s] \cup S)]
      BY <3>6, <3>7
    <3>9. Log!Receive(s, S)
      BY <3>8 DEF Log!Receive
    <3> QED BY <3>9 DEF Log!Next
  <2>4. CASE UNCHANGED <<feed, accepted>>
    BY <2>4 DEF ShownPosts
  <2>5. ASSUME NEW r \in Replica, NEW u \in Update, HostUpdate(r, u)
        PROVE  Log!Next
    BY <2>3, <2>5, PostsOfType DEF HostUpdate
  <2>6. ASSUME NEW r \in Replica, NEW f \in FeedState, HostStore(r, f)
        PROVE  Log!Next
    BY <2>3, <2>6 DEF HostStore, FeedState
  <2> QED BY <1>2, <2>4, <2>5, <2>6, StepShape
<1> QED BY <1>1, <1>2, Invariance, PTL DEF Spec, ImplementsPostLog, Log!Spec
=============================================================================

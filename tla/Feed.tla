-------------------------------- MODULE Feed --------------------------------
(***************************************************************************)
(* The feed of one author: the CRDT of common/src/feed.rs, the contract    *)
(* shell of contracts/feed-contract/src/lib.rs that hosts it, and the      *)
(* peers that replicate it.                                                *)
(*                                                                         *)
(* A feed state is a profile, a follow list, an attestation slot and a     *)
(* capped log of posts.  The first three are last-writer-wins registers:   *)
(* a signed record is represented by its LWW key (version, content hash),  *)
(* which determines it.  A post is represented by its order key            *)
(* (time, id).  Malformed holds the records that the signature, size and   *)
(* id checks refuse.                                                       *)
(*                                                                         *)
(* The host (Freenet) is not under src/.  Of it the model keeps what the   *)
(* contract interface implies: a peer caches the last summary it heard of  *)
(* another, sends the delta against that cached summary (or its whole      *)
(* state when it has heard none), and the update may be delayed, lost,     *)
(* delivered twice or delivered after either side has moved on.            *)
(***************************************************************************)
EXTENDS CappedLog

CONSTANTS
  Replica,        \* the peers hosting this feed
  Post,           \* posts of the author: [time, id]
  Profile,        \* signed profiles: [version, hash]
  Follows,        \* signed follow lists: [version, hash]
  Attestation,    \* attestations of the author's key: [hash]
  Malformed,      \* the records above that a check_* function refuses
  MAX_POSTS,
  MAX_FUTURE_MS,
  MaxClock,       \* bound: host clocks stop here
  None            \* an absent option, state or message

VARIABLES
  feed,      \* feed[r]: the state peer r stores, None before it has one
  clock,     \* clock[r]: the host clock of peer r
  heard,     \* heard[s][r]: the summary of r that s holds, None before any
  wire,      \* wire[s][r]: the update in flight from s to r, or None
  accepted   \* history: accepted[r] is every post peer r ever merged

vars == <<feed, clock, heard, wire, accepted>>

-----------------------------------------------------------------------------
(* Data *)

LwwKey == [version : Nat, hash : Nat]

\* order_key: (time, id), lexicographic.
PostOrder ==
  {pq \in Post \X Post :
     \/ pq[1].time < pq[2].time
     \/ pq[1].time = pq[2].time /\ pq[1].id < pq[2].id}

FeedState ==
  [profile : Profile, follows : Follows,
   attestation : Attestation \cup {None}, posts : SUBSET Post]

FeedDelta ==
  [profile : Profile \cup {None}, follows : Follows \cup {None},
   attestation : Attestation \cup {None}, posts : SUBSET Post]

FeedSummary ==
  [profile : LwwKey, follows : LwwKey,
   attestation : Attestation \cup {None},
   ids : SUBSET {p.id : p \in Post}, horizon : SUBSET Post]

\* UpdateData: State, Delta and StateAndDelta are the cases where the other
\* half is None, and neither is.
Update == [state : FeedState \cup {None}, delta : FeedDelta \cup {None}]

\* The content hash of a record is never 0, that of a post is its id.
ASSUME FeedAssumption ==
  /\ IsFiniteSet(Post) /\ Post \subseteq [time : Nat, id : Nat]
  /\ \A p, q \in Post : p.id = q.id => p = q
  /\ Profile \subseteq [version : Nat, hash : Nat \ {0}]
  /\ Follows \subseteq [version : Nat, hash : Nat \ {0}]
  /\ Attestation \subseteq [hash : Nat \ {0}]
  /\ MAX_POSTS \in Nat \ {0} /\ MAX_FUTURE_MS \in Nat /\ MaxClock \in Nat

ASSUME NoneAssumption ==
  /\ None \notin Profile \cup Follows \cup Attestation \cup Malformed
  /\ None \notin FeedState /\ None \notin FeedSummary
  /\ None \notin FeedDelta /\ None \notin Update

-----------------------------------------------------------------------------
(* The composable state: summarize, delta, apply_delta, verify *)

LwwLess(a, b) ==
  a.version < b.version \/ (a.version = b.version /\ a.hash < b.hash)

\* Fault: an equal version replaces whatever its hash.
LwwWinner_LatestArrival(current, delta) ==
  IF delta # None /\ current.version <= delta.version THEN delta ELSE current

\* Fault: the optional delta is assigned, present or not.
LwwWinner_Assigned(current, delta) == delta

\* Winner = max (version, content-hash); an absent or stale delta is a no-op.
LwwWinner(current, delta) ==
  IF delta # None /\ LwwLess(current, delta) THEN delta ELSE current

\* Fault: staleness judged by the version alone.
LwwDelta_VersionOnly(mine, theirs) ==
  IF theirs.version < mine.version THEN mine ELSE None

\* What a register offers a peer whose LWW key is theirs.
LwwDelta(mine, theirs) == IF LwwLess(theirs, mine) THEN mine ELSE None

\* A verified attestation beats none; of two, the higher content hash wins.
SlotLess(a, b) == b # None /\ (a = None \/ a.hash < b.hash)

SlotWinner(current, delta) == IF SlotLess(current, delta) THEN delta ELSE current

SlotDelta(mine, theirs) == IF SlotLess(theirs, mine) THEN mine ELSE None

\* Fault: the excess is drained from the new end.
canonicalize_DropsNewest(posts) ==
  {p \in posts : Cardinality(posts \ Newer(PostOrder, posts, p)) <= MAX_POSTS}

\* Fault: one post too many is drained at capacity.
canonicalize_DrainsOneMore(posts) ==
  IF Cardinality(posts) > MAX_POSTS THEN Newest(PostOrder, MAX_POSTS - 1, posts) ELSE posts

canonicalize(posts) == Newest(PostOrder, MAX_POSTS, posts)

\* Fault: a log with one free slot already publishes a horizon.
retention_horizon_OneEarly(posts) == Horizon(PostOrder, MAX_POSTS - 1, posts)

\* Open (the empty set) below capacity, else the oldest post retained.
retention_horizon(posts) == Horizon(PostOrder, MAX_POSTS, posts)

\* Fault: the horizon of the receiver is ignored.
PostsDelta_NoHorizon(posts, theirs) == {p \in posts : p.id \notin theirs.ids}

\* Fault: a peer at capacity is taken to want nothing.
PostsDelta_OpenOnly(posts, theirs) ==
  {p \in posts : p.id \notin theirs.ids /\ theirs.horizon = {}}

PostsDelta(posts, theirs) ==
  {p \in posts : p.id \notin theirs.ids /\ AboveHorizon(PostOrder, theirs.horizon, p)}

summarize(f) ==
  [profile |-> f.profile, follows |-> f.follows, attestation |-> f.attestation,
   ids |-> {p.id : p \in f.posts}, horizon |-> retention_horizon(f.posts)]

NoDelta == [profile |-> None, follows |-> None, attestation |-> None, posts |-> {}]

\* NoDelta is the None that delta() returns when no component has news.
delta(f, theirs) ==
  [profile     |-> LwwDelta(f.profile, theirs.profile),
   follows     |-> LwwDelta(f.follows, theirs.follows),
   attestation |-> SlotDelta(f.attestation, theirs.attestation),
   posts       |-> PostsDelta(f.posts, theirs)]

\* check_profile, check_follows, the attestation check and check_post.
WellFormed(d) ==
  /\ d.profile \notin Malformed
  /\ d.follows \notin Malformed
  /\ d.attestation \notin Malformed
  /\ d.posts \cap Malformed = {}

\* Fault: the posts of a delta are merged unchecked.
apply_delta_PostsUnchecked(f, d) ==
  IF ~WellFormed([d EXCEPT !.posts = {}]) THEN None
  ELSE [profile     |-> LwwWinner(f.profile, d.profile),
        follows     |-> LwwWinner(f.follows, d.follows),
        attestation |-> SlotWinner(f.attestation, d.attestation),
        posts       |-> canonicalize(f.posts \cup d.posts)]

\* None when a check fails: apply_delta returns Err and the shell then
\* discards the components it had already replaced.  post_apply_cleanup
\* canonicalizes the log whether or not posts came.
apply_delta(f, d) ==
  IF ~WellFormed(d) THEN None
  ELSE [profile     |-> LwwWinner(f.profile, d.profile),
        follows     |-> LwwWinner(f.follows, d.follows),
        attestation |-> SlotWinner(f.attestation, d.attestation),
        posts       |-> canonicalize(f.posts \cup d.posts)]

\* The scaffold's merge: what `incoming` would offer us, applied.
merge(f, incoming) ==
  LET d == delta(incoming, summarize(f)) IN
  IF d = NoDelta THEN f ELSE apply_delta(f, d)

verify(f) == Cardinality(f.posts) <= MAX_POSTS /\ WellFormed(f)

-----------------------------------------------------------------------------
(* The contract shell *)

InTime(posts, now) == {p \in posts : p.time <= now + MAX_FUTURE_MS}

\* scrub_future on a state and scrub_delta on a delta.
scrub(x, now) == [x EXCEPT !.posts = InTime(x.posts, now)]

validate_state(f, now) == scrub(f, now) = f /\ verify(f)

empty_summary ==
  [profile |-> [version |-> 0, hash |-> 0], follows |-> [version |-> 0, hash |-> 0],
   attestation |-> None, ids |-> {}, horizon |-> {}]

summarize_state(f) == IF f = None THEN empty_summary ELSE summarize(f)

\* The State half of an update: merged over a stored feed, or, verified, the
\* seed of one.
MergeState(stored, incoming) ==
  IF stored # None THEN merge(stored, incoming)
  ELSE IF verify(incoming) THEN incoming ELSE None

\* The new stored state, or None for every path that returns Err: a refused
\* half aborts the update, and a delta finds no feed to apply to.
update_state(stored, u, now) ==
  LET kept   == IF stored = None THEN None ELSE scrub(stored, now)
      seeded == IF u.state = None THEN kept ELSE MergeState(kept, scrub(u.state, now))
  IN IF seeded = None \/ u.delta = None THEN seeded
     ELSE apply_delta(seeded, scrub(u.delta, now))

\* The posts an update brings to the merge.
PostsOf(u, now) ==
  (IF u.state = None THEN {} ELSE InTime(u.state.posts, now)) \cup
  (IF u.delta = None THEN {} ELSE InTime(u.delta.posts, now))

-----------------------------------------------------------------------------
(* The peers *)

Init ==
  /\ feed = [r \in Replica |-> None]
  /\ clock \in [Replica -> 0 .. MaxClock]
  /\ heard = [s \in Replica |-> [r \in Replica |-> None]]
  /\ wire = [s \in Replica |-> [r \in Replica |-> None]]
  /\ accepted = [r \in Replica |-> {}]

\* Peer r runs update_state; on Err the host keeps what it had.
HostUpdate(r, u) ==
  LET new == update_state(feed[r], u, clock[r]) IN
  /\ new # None
  /\ feed' = [feed EXCEPT ![r] = new]
  /\ accepted' = [accepted EXCEPT ![r] = @ \cup PostsOf(u, clock[r])]

\* Peer r stores a whole state it had none of, if the contract validates it.
HostStore(r, f) ==
  /\ feed[r] = None
  /\ validate_state(f, clock[r])
  /\ feed' = [feed EXCEPT ![r] = f]
  /\ accepted' = [accepted EXCEPT ![r] = @ \cup f.posts]

\* A host clock advances.  Clocks of different peers need not agree.
Tick(r) ==
  /\ clock[r] < MaxClock
  /\ clock' = [clock EXCEPT ![r] = @ + 1]
  /\ UNCHANGED <<feed, heard, wire, accepted>>

\* put_own_feed: the client PUTs a feed without posts (create_account's
\* first profile or seed_feed's version 0) at a peer.
Put(r, p, q) ==
  LET f == [profile |-> p, follows |-> q, attestation |-> None, posts |-> {}] IN
  /\ HostStore(r, f) \/ (feed[r] # None /\ HostUpdate(r, [state |-> f, delta |-> None]))
  /\ UNCHANGED <<clock, heard, wire>>

\* update_own_feed: the client sends a delta of one record.  Any record the
\* author signed may arrive at any peer, at any time, more than once.
ClientUpdate(r, d) ==
  /\ HostUpdate(r, [state |-> None, delta |-> d])
  /\ UNCHANGED <<clock, heard, wire>>

ClientDelta ==
  {[NoDelta EXCEPT !.profile = p] : p \in Profile} \cup
  {[NoDelta EXCEPT !.follows = q] : q \in Follows} \cup
  {[NoDelta EXCEPT !.attestation = a] : a \in Attestation} \cup
  {[NoDelta EXCEPT !.posts = {p}] : p \in Post}

\* r's summary reaches s, which caches it.
Announce(r, s) ==
  /\ r # s
  /\ heard' = [heard EXCEPT ![s][r] = summarize_state(feed[r])]
  /\ UNCHANGED <<feed, clock, wire, accepted>>

\* s answers the summary it holds of r, stale or not; without one it sends
\* its whole state.  A newer update replaces one still in flight.
Offer(s, r) ==
  /\ s # r /\ feed[s] # None
  /\ LET d == delta(feed[s], heard[s][r]) IN
     \/ /\ heard[s][r] = None
        /\ wire' = [wire EXCEPT ![s][r] = [state |-> feed[s], delta |-> None]]
     \/ /\ heard[s][r] # None
        /\ d # NoDelta
        /\ wire' = [wire EXCEPT ![s][r] = [state |-> None, delta |-> d]]
  /\ UNCHANGED <<feed, clock, heard, accepted>>

\* The update in flight reaches r.  It stays deliverable: a duplicate.
Deliver(s, r) ==
  /\ wire[s][r] # None
  /\ HostUpdate(r, wire[s][r])
  /\ UNCHANGED <<clock, heard, wire>>

\* The update in flight is lost, or was delivered for the last time.
Lose(s, r) ==
  /\ wire[s][r] # None
  /\ wire' = [wire EXCEPT ![s][r] = None]
  /\ UNCHANGED <<feed, clock, heard, accepted>>

\* r, which has no state, GETs the state of s.
Fetch(r, s) ==
  /\ feed[s] # None
  /\ HostStore(r, feed[s])
  /\ UNCHANGED <<clock, heard, wire>>

Next ==
  \/ \E r \in Replica : Tick(r)
  \/ \E r \in Replica, p \in Profile, q \in Follows : Put(r, p, q)
  \/ \E r \in Replica, d \in ClientDelta : ClientUpdate(r, d)
  \/ \E r, s \in Replica : Announce(r, s)
  \/ \E s, r \in Replica : Offer(s, r)
  \/ \E s, r \in Replica : Deliver(s, r)
  \/ \E s, r \in Replica : Lose(s, r)
  \/ \E r, s \in Replica : Fetch(r, s)

Spec == Init /\ [][Next]_vars

\* What the host owes: clocks run, summaries and answers keep being sent, a
\* peer without a state fetches one, and an update sent over and over is not
\* lost every time.
Fairness ==
  /\ \A r \in Replica : WF_vars(Tick(r))
  /\ \A r, s \in Replica : /\ WF_vars(Announce(r, s))
                           /\ WF_vars(Offer(r, s))
                           /\ SF_vars(Deliver(r, s))
                           /\ WF_vars(Fetch(r, s))

FairSpec == Spec /\ Fairness

-----------------------------------------------------------------------------
(* Properties *)

TypeOK ==
  /\ feed \in [Replica -> FeedState \cup {None}]
  /\ clock \in [Replica -> 0 .. MaxClock]
  /\ heard \in [Replica -> [Replica -> FeedSummary \cup {None}]]
  /\ wire \in [Replica -> [Replica -> Update \cup {None}]]
  /\ accepted \in [Replica -> SUBSET Post]

Seeded(r) == feed[r] # None

\* What s would send r if it knew r's summary of this very moment.
OfferNow(s, r) == delta(feed[s], summarize(feed[r]))

\* Whatever the order in which states, deltas and stale answers arrive, what
\* a peer stores is a state its own validate_state accepts: within the cap,
\* free of malformed records, and not ahead of its clock.  Otherwise the peer
\* would hold a state that every other peer refuses to fetch.
StoredStatesValid ==
  \A r \in Replica : Seeded(r) => validate_state(feed[r], clock[r])

\* Truncation loses no post that matters: a peer's log is exactly the newest
\* MAX_POSTS of all the posts that ever reached its merge, however they were
\* batched, reordered, repeated or skipped below the horizon.
RetainedIsNewest ==
  \A r \in Replica :
    Seeded(r) => feed[r].posts = Newest(PostOrder, MAX_POSTS, accepted[r])

\* The summary tells apart every two states: peers with nothing to offer each
\* other hold the same feed, also when two devices of the author signed
\* different records with one version (the comment of lww_key).
PairAgreement ==
  \A r, s \in Replica :
    Seeded(r) /\ Seeded(s) /\ OfferNow(s, r) = NoDelta /\ OfferNow(r, s) = NoDelta
      => feed[r] = feed[s]

\* No futile offer (the incident the retention horizon answers): a delta
\* computed against the receiver's current summary is accepted, changes the
\* receiver, and leaves the sender nothing more to offer.
OneExchangeSettles ==
  \A r, s \in Replica :
    LET d   == OfferNow(s, r)
        new == update_state(feed[r], [state |-> None, delta |-> d], clock[r])
    IN Seeded(r) /\ Seeded(s) /\ d # NoDelta /\ InTime(d.posts, clock[r]) = d.posts
         => new # None /\ new # feed[r] /\ delta(feed[s], summarize(new)) = NoDelta

\* When no peer has anything to offer another, every log is the newest
\* MAX_POSTS of all the posts that any peer ever accepted: the network as a
\* whole forgets nothing but what the cap says.
QuietNetworkIsComplete ==
  (\A r, s \in Replica : Seeded(r) /\ OfferNow(s, r) = NoDelta)
    => \A r \in Replica :
         feed[r].posts = Newest(PostOrder, MAX_POSTS, UNION {accepted[s] : s \in Replica})

\* No step takes a stored feed back: a register never returns to an older
\* record (seed_feed over a live feed included), an attestation is never
\* lost, and a post only leaves for MAX_POSTS newer ones.
NeverRegress ==
  [][\A r \in Replica : Seeded(r) =>
       /\ ~LwwLess(feed'[r].profile, feed[r].profile)
       /\ ~LwwLess(feed'[r].follows, feed[r].follows)
       /\ ~SlotLess(feed'[r].attestation, feed[r].attestation)
       /\ \A p \in feed[r].posts \ feed'[r].posts :
            Cardinality(Newer(PostOrder, feed'[r].posts, p)) = MAX_POSTS]_vars

\* The posts refine the log every peer is meant to keep.
ShownPosts == [r \in Replica |-> IF feed[r] = None THEN {} ELSE feed[r].posts]

Log == INSTANCE PostLog WITH received <- accepted, log <- ShownPosts

ImplementsPostLog == Log!Spec

\* Once the author's records stop changing anything, gossip alone brings all
\* peers to one state and it stays there.
EventuallyAgree == <>[](\A r, s \in Replica : feed[r] = feed[s])
=============================================================================

------------------------------ MODULE Directory ------------------------------
(***************************************************************************)
(* The public directory: state and contract shell of                       *)
(* contracts/directory-contract/src/lib.rs, and the peers that replicate   *)
(* it.                                                                     *)
(*                                                                         *)
(* Each author has a slot in the attested and one in the anonymous tier.   *)
(* A tier keeps its newest listings; the anonymous one has a share of what *)
(* the attested one leaves free, and a bar: an anonymous listing carries a *)
(* stamp that clears some number of bits, and a record signed by the       *)
(* publisher and latched in the state says how many it must clear.         *)
(*                                                                         *)
(* A tier is the set of its listings, one per author.  A listing is        *)
(* determined by its LWW key, and stands for it in summaries.  Malformed   *)
(* holds the listings and records that their check refuses.  A whole state *)
(* that arrives as an update is merged as the delta of all it holds.       *)
(***************************************************************************)
EXTENDS CappedLog, PowLatch

CONSTANTS
  Replica,           \* the peers hosting the directory
  Listing,           \* [author, time, hash, anon, bits]
  MAX_LISTINGS,
  ANON_LISTINGS,
  MAX_FUTURE_MS,
  MaxClock           \* bound: host clocks stop here

VARIABLES
  dir,       \* dir[r]: the state peer r stores, None before it has one
  clock,     \* clock[r]: the host clock of peer r
  heard,     \* heard[s][r]: the summary of r that s holds, None before any
  wire,      \* wire[s][r]: the update in flight from s to r, or None
  admitted   \* history: the listings that passed r's checks and bar

vars == <<dir, clock, heard, wire, admitted>>

-----------------------------------------------------------------------------
(* Data *)

OrderKeyLess(l, m) ==
  l.time < m.time \/ (l.time = m.time /\ l.author < m.author)

\* order_key between authors and lww_key between the listings of one author
\* in one tier: a tier has one listing per author, so the hash never decides
\* between two of its members.
ListingOrder ==
  {lm \in Listing \X Listing :
     \/ OrderKeyLess(lm[1], lm[2])
     \/ /\ lm[1].time = lm[2].time /\ lm[1].author = lm[2].author
        /\ lm[1].hash < lm[2].hash}

DirState ==
  [attested : SUBSET Listing, anon : SUBSET Listing, pow : Difficulty \cup {None}]

DirDelta == [listings : SUBSET Listing, pow : Difficulty \cup {None}]

TierHorizon == [closed : BOOLEAN, oldest : SUBSET Listing]

DirSummary ==
  [attested : SUBSET Listing, anon : SUBSET Listing,
   attested_horizon : TierHorizon, anon_horizon : TierHorizon, pow_seq : Nat]

\* Two listings with one LWW key are one listing.
ASSUME DirectoryAssumption ==
  /\ IsFiniteSet(Listing)
  /\ Listing \subseteq [author : Nat, time : Nat, hash : Nat, anon : BOOLEAN, bits : Nat]
  /\ \A l, m \in Listing :
       l.author = m.author /\ l.anon = m.anon /\ l.time = m.time /\ l.hash = m.hash => l = m
  /\ MAX_LISTINGS \in Nat \ {0} /\ ANON_LISTINGS \in Nat \ {0}
  /\ MAX_FUTURE_MS \in Nat /\ MaxClock \in Nat

ASSUME DirectoryNone ==
  /\ None \notin Listing
  /\ None \notin DirState /\ None \notin DirDelta /\ None \notin DirSummary

Anon(S) == {l \in S : l.anon}
Attested(S) == {l \in S : ~l.anon}

\* The listing S holds in l's slot, as a set.
Slot(S, l) == {h \in S : h.author = l.author}

\* The per-slot LWW winners.
Winners(S) == {l \in S : \A h \in Slot(S, l) : <<l, h>> \notin ListingOrder}

\* l would replace what the tier holds in its slot.
Wins(l, tier) == \A h \in Slot(tier, l) : <<h, l>> \in ListingOrder

-----------------------------------------------------------------------------
(* The state: verify, canonicalize, summarize, delta, apply_delta, merge *)

EmptyDir == [attested |-> {}, anon |-> {}, pow |-> None]

effective_anon_share(attested) ==
  LET free == IF Cardinality(attested) < MAX_LISTINGS
              THEN MAX_LISTINGS - Cardinality(attested) ELSE 0
  IN IF ANON_LISTINGS < free THEN ANON_LISTINGS ELSE free

verify(d) ==
  /\ (d.attested \cup d.anon \cup {d.pow}) \cap Malformed = {}
  /\ Cardinality(d.attested) <= MAX_LISTINGS
  /\ Cardinality(d.anon) <= effective_anon_share(d.attested)
  /\ Anon(d.attested) = {} /\ Attested(d.anon) = {}
  /\ \A l \in d.anon : l.bits >= POW_FLOOR_BITS

\* Fault: the tiers compete for one budget, oldest out first.
canonicalize_OneBudget(d) ==
  LET kept == Newest(ListingOrder, MAX_LISTINGS, d.attested \cup d.anon) IN
  [d EXCEPT !.attested = Attested(kept), !.anon = Anon(kept)]

\* Fault: the anonymous excess is drained from the new end.
canonicalize_DropsNewest(d) ==
  LET kept == Newest(ListingOrder, MAX_LISTINGS, d.attested)
      share == effective_anon_share(kept)
  IN [d EXCEPT !.attested = kept,
               !.anon = {l \in @ : Cardinality(@ \ Newer(ListingOrder, @, l)) <= share}]

canonicalize(d) ==
  LET kept == Newest(ListingOrder, MAX_LISTINGS, d.attested) IN
  [d EXCEPT !.attested = kept,
            !.anon = Newest(ListingOrder, effective_anon_share(kept), @)]

\* Fault: a tier without a share publishes no horizon.
tier_horizon_NeverClosed(cap, tier) ==
  [closed |-> FALSE, oldest |-> Horizon(ListingOrder, cap, tier)]

\* Open: neither closed nor an oldest.
tier_horizon(cap, tier) ==
  [closed |-> cap = 0, oldest |-> Horizon(ListingOrder, cap, tier)]

admits(horizon, l) == ~horizon.closed /\ \A o \in horizon.oldest : OrderKeyLess(o, l)

summarize(d) ==
  [attested |-> d.attested, anon |-> d.anon,
   attested_horizon |-> tier_horizon(MAX_LISTINGS, d.attested),
   anon_horizon |-> tier_horizon(effective_anon_share(d.attested), d.anon),
   pow_seq |-> difficulty_seq(d.pow)]

\* Fault: the horizon gates the update of a held slot too.
Offered_AllAboveHorizon(tier, held, horizon) ==
  {l \in tier : Wins(l, held) /\ admits(horizon, l)}

\* The update of a held slot bypasses the horizon.
Offered(tier, held, horizon) ==
  {l \in tier : Wins(l, held) /\ (Slot(held, l) = {} => admits(horizon, l))}

NoDelta == [listings |-> {}, pow |-> None]

\* Fault: the record travels only with listings.
delta_RecordWithListings(d, theirs) ==
  LET news == Offered(d.attested, theirs.attested, theirs.attested_horizon) \cup
              Offered(d.anon, theirs.anon, theirs.anon_horizon)
  IN [listings |-> news,
      pow |-> IF news # {} /\ difficulty_seq(d.pow) > theirs.pow_seq THEN d.pow ELSE None]

\* Fault: the record is offered to a peer that has it.
delta_EqualSeqToo(d, theirs) ==
  [listings |-> Offered(d.attested, theirs.attested, theirs.attested_horizon) \cup
                Offered(d.anon, theirs.anon, theirs.anon_horizon),
   pow |-> IF difficulty_seq(d.pow) >= theirs.pow_seq THEN d.pow ELSE None]

\* NoDelta is the None of the code.
delta(d, theirs) ==
  [listings |-> Offered(d.attested, theirs.attested, theirs.attested_horizon) \cup
                Offered(d.anon, theirs.anon, theirs.anon_horizon),
   pow |-> IF difficulty_seq(d.pow) > theirs.pow_seq THEN d.pow ELSE None]

\* The listings of an update that clear the bar of a state that latched pow.
Clearing(S, pow) == {l \in S : l.anon => l.bits >= difficulty_bits(pow)}

\* Fault (what issue 66 replaced): the bar is that of the record the update
\* itself carries.
apply_delta_BarOfDelta(d, news) ==
  LET fresh == {l \in news.listings : Wins(l, IF l.anon THEN d.anon ELSE d.attested)}
      let_in == Clearing(fresh, news.pow)
  IN IF fresh \cap Malformed # {} THEN None
     ELSE canonicalize([attested |-> Winners(d.attested \cup Attested(let_in)),
                        anon     |-> Winners(d.anon \cup Anon(let_in)),
                        pow      |-> adopt_difficulty(d.pow, news.pow)])

\* The record is latched before the bar is read.  Listings that lose their
\* slot are skipped unchecked; a malformed one that would win it fails the
\* update (None); one under the bar is dropped.
apply_delta(d, news) ==
  LET pow    == adopt_difficulty(d.pow, news.pow)
      fresh  == {l \in news.listings : Wins(l, IF l.anon THEN d.anon ELSE d.attested)}
      let_in == Clearing(fresh, pow)
  IN IF \/ Cardinality(news.listings) > MAX_LISTINGS + ANON_LISTINGS
        \/ fresh \cap Malformed # {}
     THEN None
     ELSE canonicalize([attested |-> Winners(d.attested \cup Attested(let_in)),
                        anon     |-> Winners(d.anon \cup Anon(let_in)),
                        pow      |-> pow])

\* What merge makes of a whole state.
AsDelta(d) == [listings |-> d.attested \cup d.anon, pow |-> d.pow]

-----------------------------------------------------------------------------
(* The contract shell *)

InTime(S, now) == {l \in S : l.time <= now + MAX_FUTURE_MS}

scrub_future(d, now) == [d EXCEPT !.attested = InTime(@, now), !.anon = InTime(@, now)]

\* Fault: far-future listings of an update are left for the next scrub.
scrub_delta_Later(news, now) == news

scrub_delta(news, now) == [news EXCEPT !.listings = InTime(@, now)]

validate_state(d, now) == scrub_future(d, now) = d /\ verify(d)

Stored(d) == IF d = None THEN EmptyDir ELSE d

\* None for every path that returns Err.
update_state(stored, news, now) ==
  apply_delta(scrub_future(Stored(stored), now), scrub_delta(news, now))

\* An empty stored state summarizes to zero bytes, which a sender reads as
\* the default summary: that of the empty directory.
summarize_state(d) == summarize(Stored(d))

-----------------------------------------------------------------------------
(* The peers *)

Init ==
  /\ dir = [r \in Replica |-> None]
  /\ clock \in [Replica -> 0 .. MaxClock]
  /\ heard = [s \in Replica |-> [r \in Replica |-> None]]
  /\ wire = [s \in Replica |-> [r \in Replica |-> None]]
  /\ admitted = [r \in Replica |-> {}]

\* Peer r runs update_state; on Err the host keeps what it had.
HostUpdate(r, news) ==
  LET new == update_state(dir[r], news, clock[r])
      let_in == Clearing(InTime(news.listings, clock[r]) \ Malformed, new.pow)
  IN /\ new # None
     /\ dir' = [dir EXCEPT ![r] = new]
     /\ admitted' = [admitted EXCEPT ![r] = @ \cup let_in]

\* Peer r stores a whole state it had none of, if the contract validates it:
\* against the floor, whatever the record in it says.
HostStore(r, d) ==
  /\ dir[r] = None
  /\ validate_state(d, clock[r])
  /\ dir' = [dir EXCEPT ![r] = d]
  /\ admitted' = [admitted EXCEPT ![r] = @ \cup d.attested \cup d.anon]

Tick(r) ==
  /\ clock[r] < MaxClock
  /\ clock' = [clock EXCEPT ![r] = @ + 1]
  /\ UNCHANGED <<dir, heard, wire, admitted>>

\* put_directory_listing: one listing, with the newest record the client
\* knows, or none; set_public_listing solved an anonymous stamp to that record.
Put(r, l, c) ==
  LET d == [attested |-> Attested({l}), anon |-> Anon({l}), pow |-> c] IN
  /\ l.anon => l.bits >= difficulty_bits(c)
  /\ HostStore(r, d) \/ (dir[r] # None /\ HostUpdate(r, AsDelta(d)))
  /\ UNCHANGED <<clock, heard, wire>>

\* The network is open: a delta with a listing no client of ours would write,
\* malformed or under the floor, and without a record.
Write(r, l) ==
  /\ l \in Malformed \/ (l.anon /\ l.bits < POW_FLOOR_BITS)
  /\ HostUpdate(r, [listings |-> {l}, pow |-> None])
  /\ UNCHANGED <<clock, heard, wire>>

\* r's summary reaches s, which caches it.
Announce(r, s) ==
  /\ r # s
  /\ heard' = [heard EXCEPT ![s][r] = summarize_state(dir[r])]
  /\ UNCHANGED <<dir, clock, wire, admitted>>

\* s answers the summary it holds of r, stale or not; without one it sends
\* its whole state.  A newer update replaces one still in flight.
Offer(s, r) ==
  /\ s # r /\ dir[s] # None
  /\ LET d == delta(dir[s], heard[s][r]) IN
     \/ heard[s][r] = None /\ wire' = [wire EXCEPT ![s][r] = AsDelta(dir[s])]
     \/ heard[s][r] # None /\ d # NoDelta /\ wire' = [wire EXCEPT ![s][r] = d]
  /\ UNCHANGED <<dir, clock, heard, admitted>>

\* The update in flight reaches r.  It stays deliverable: a duplicate.
Deliver(s, r) ==
  /\ wire[s][r] # None
  /\ HostUpdate(r, wire[s][r])
  /\ UNCHANGED <<clock, heard, wire>>

\* The update in flight is lost, or was delivered for the last time.
Lose(s, r) ==
  /\ wire[s][r] # None
  /\ wire' = [wire EXCEPT ![s][r] = None]
  /\ UNCHANGED <<dir, clock, heard, admitted>>

\* r, which has no state, GETs the state of s.
Fetch(r, s) ==
  /\ dir[s] # None
  /\ HostStore(r, dir[s])
  /\ UNCHANGED <<clock, heard, wire>>

Next ==
  \/ \E r \in Replica : Tick(r)
  \/ \E r \in Replica, l \in Listing, c \in Difficulty \cup {None} : Put(r, l, c)
  \/ \E r \in Replica, l \in Listing : Write(r, l)
  \/ \E r, s \in Replica : Announce(r, s)
  \/ \E s, r \in Replica : Offer(s, r)
  \/ \E s, r \in Replica : Deliver(s, r)
  \/ \E s, r \in Replica : Lose(s, r)
  \/ \E r, s \in Replica : Fetch(r, s)

Spec == Init /\ [][Next]_vars

\* As for the feed: summaries and answers keep being sent, a peer without a
\* state fetches one, and an update sent over and over is not always lost.
Fairness ==
  \A r, s \in Replica : /\ WF_vars(Announce(r, s))
                        /\ WF_vars(Offer(r, s))
                        /\ SF_vars(Deliver(r, s))
                        /\ WF_vars(Fetch(r, s))

FairSpec == Spec /\ Fairness

-----------------------------------------------------------------------------
(* Properties *)

\* A tier is a map: one listing an author, all of the tier's kind.
DirTypeOK ==
  /\ dir \in [Replica -> DirState \cup {None}]
  /\ \A r \in Replica : dir[r] # None =>
       /\ Anon(dir[r].attested) = {} /\ Attested(dir[r].anon) = {}
       /\ \A l \in dir[r].attested : Slot(dir[r].attested, l) = {l}
       /\ \A l \in dir[r].anon : Slot(dir[r].anon, l) = {l}
  /\ clock \in [Replica -> 0 .. MaxClock]
  /\ heard \in [Replica -> [Replica -> DirSummary \cup {None}]]
  /\ wire \in [Replica -> [Replica -> DirDelta \cup {None}]]
  /\ admitted \in [Replica -> SUBSET Listing]

Seeded(r) == dir[r] # None

OfferNow(s, r) == delta(dir[s], summarize(dir[r]))

\* What a peer stores, its own validate_state accepts, though the attested
\* tier grows under a full anonymous one and the record changes under seated
\* listings; else no other peer could fetch it.
DirStatesValid == \A r \in Replica : Seeded(r) => validate_state(dir[r], clock[r])

\* The claim of canonicalize ("order-independent"): dropping listings early,
\* under a share that was still larger, forgetting an evicted author's
\* winner, and skipping offers under the horizon end where one pass over all
\* that was ever admitted would.
TiersAreNewest ==
  \A r \in Replica : Seeded(r) =>
    /\ dir[r].attested = Newest(ListingOrder, MAX_LISTINGS, Winners(Attested(admitted[r])))
    /\ dir[r].anon = Newest(ListingOrder, effective_anon_share(dir[r].attested),
                            Winners(Anon(admitted[r])))

\* Two peers with nothing to offer each other store the same directory: no
\* tie in the order, closed tier or record is hidden by the summary.
DirPairAgreement ==
  \A r, s \in Replica :
    Seeded(r) /\ Seeded(s) /\ OfferNow(s, r) = NoDelta /\ OfferNow(r, s) = NoDelta
      => dir[r] = dir[s]

\* A delta against the receiver's current summary is accepted and leaves
\* nothing more to offer but anonymous listings under the receiver's bar.
DirExchangeSettles ==
  \A r, s \in Replica :
    LET d   == OfferNow(s, r)
        new == update_state(dir[r], d, clock[r])
        rest == delta(dir[s], summarize(new))
    IN Seeded(r) /\ Seeded(s) /\ InTime(d.listings, clock[r]) = d.listings
         => new # None /\ rest.pow = None /\ Clearing(rest.listings, new.pow) = {}

\* A listing leaves the attested tier only for a newer one of its author or
\* for MAX_LISTINGS newer attested ones: no number of anonymous listings
\* crowds it out.
AttestedUncrowdable ==
  [][\A r \in Replica : Seeded(r) =>
       \A l \in dir[r].attested \ dir'[r].attested :
         \/ \E m \in Slot(dir'[r].attested, l) : <<l, m>> \in ListingOrder
         \/ Cardinality(Newer(ListingOrder, dir'[r].attested, l)) = MAX_LISTINGS]_vars

\* Issue 66: once a raise is latched it binds whoever writes, and neither
\* leaving the record out nor replaying an older one takes it back.  (A state
\* fetched whole is held to the floor only: Seeded(r) leaves it out.)
RaiseBinds ==
  [][\A r \in Replica : Seeded(r) =>
       /\ difficulty_seq(dir'[r].pow) >= difficulty_seq(dir[r].pow)
       /\ \A l \in dir'[r].anon \ dir[r].anon :
            l.bits >= difficulty_bits(dir'[r].pow) /\ l.bits >= POW_FLOOR_BITS]_vars

\* A raise latched anywhere reaches every peer, quiet ones too.
RaiseReachesAll ==
  \A c \in Difficulty :
    (\E s \in Replica : Seeded(s) /\ difficulty_seq(dir[s].pow) >= c.seq)
      ~> (\A r \in Replica : Seeded(r) /\ difficulty_seq(dir[r].pow) >= c.seq)

\* "An honest peer never forwards an under-bar listing" (apply_delta), not even
\* between two peers that latched one record.  The code does forward it: a
\* listing seated before the raise stays seated, delta offers it at every
\* exchange, and apply_delta drops it at every exchange.
HonestOffersClearBar ==
  \A r, s \in Replica :
    Seeded(r) /\ Seeded(s) /\ dir[r].pow = dir[s].pow
      => Clearing(OfferNow(s, r).listings, dir[r].pow) = OfferNow(s, r).listings
=============================================================================

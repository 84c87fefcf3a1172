------------------------------- MODULE Inbox -------------------------------
(***************************************************************************)
(* An inbox: state and contract shell of contracts/inbox-contract          *)
(* (src/state.rs, src/lib.rs) and the peers that replicate one.            *)
(*                                                                         *)
(* Whoever replies to the owner, or follows them, leaves a signed pointer, *)
(* with a credential for the posting key that signed it.  A credential is  *)
(* anonymous (hash 0) or an attestation by a Ghost Key; a key may trade    *)
(* the first for the second.  Pointers carry the fingerprint of the        *)
(* credential they were signed under: it names the group that the fairness *)
(* cap counts, and the tier.  The attested tier may take every slot, the   *)
(* anonymous one a share of what is left, under the latched difficulty.    *)
(*                                                                         *)
(* Pointers sorted by (time, reply post), one per reply post, are a set; a *)
(* map of credentials is a set with one per key.  Nothing ties the reply   *)
(* post that a pointer names to its replier or its time: two keys may      *)
(* point at one reply, and the lowest order key wins.  Malformed holds the *)
(* records, pointers and credentials whose signature or content is bad,    *)
(* Foreign the pointers signed for another inbox.                          *)
(***************************************************************************)
EXTENDS CappedLog, PowLatch

CONSTANTS
  Replica,              \* the peers hosting the inbox
  Pointer,              \* [replier, fp, post, time, bits]
  Cred,                 \* [replier, fp, hash]
  Foreign,
  MAX_POINTERS,
  ANON_POINTER_SLOTS,
  MAX_PER_FINGERPRINT,
  MAX_PER_ANON_KEY,
  MAX_FUTURE_MS,
  MaxClock,             \* bound: host clocks stop here
  MaxWire               \* bound: so many updates in flight

VARIABLES
  inbox,     \* inbox[r]: the state peer r stores, None before it has one
  clock,     \* clock[r]: the host clock of peer r
  wire,      \* wire[s][r]: the update in flight from s to r, or None
  merged     \* history: the pointers and credentials that passed r's checks

vars == <<inbox, clock, wire, merged>>

-----------------------------------------------------------------------------
(* Data *)

\* The fingerprint of an anonymous key is its own hash, that of an attested
\* one its Ghost Key's: keys attested by one Ghost Key share a group.
Fingerprint == [anon : BOOLEAN, id : Nat]

anon_fingerprint(replier) == [anon |-> TRUE, id |-> replier]

CredType == [replier : Nat, fp : Fingerprint, hash : Nat]

PointerType == [replier : Nat, fp : Fingerprint, post : Nat, time : Nat, bits : Nat]

is_anon(p) == p.fp.anon

Anon(S) == {p \in S : is_anon(p)}
Attested(S) == {p \in S : ~is_anon(p)}

\* order_key: (time, reply post), lexicographic.
PointerOrder ==
  {pq \in Pointer \X Pointer :
     \/ pq[1].time < pq[2].time
     \/ pq[1].time = pq[2].time /\ pq[1].post < pq[2].post}

InboxState ==
  [creds : SUBSET Cred, pointers : SUBSET Pointer, pow : Difficulty \cup {None}]

\* A delta has the fields of a state.  whole: the body came as a state, and is
\* merged as what it would offer us.
Update == [whole : BOOLEAN, body : InboxState]

TierHorizon == [closed : BOOLEAN, oldest : SUBSET Pointer]

InboxSummary ==
  [creds : SUBSET Cred, ids : SUBSET {p.post : p \in Pointer},
   attested_horizon : TierHorizon, anon_horizon : TierHorizon,
   fp_horizons : SUBSET Pointer, pow_seq : Nat]

ASSUME InboxAssumption ==
  /\ IsFiniteSet(Pointer) /\ IsFiniteSet(Cred)
  /\ Pointer \subseteq PointerType /\ Cred \subseteq CredType
  /\ \A c \in Cred : c.hash = 0 <=> c.fp = anon_fingerprint(c.replier)
  /\ \A c, e \in Cred : c.replier = e.replier /\ c.hash = e.hash => c = e
  /\ MAX_POINTERS \in Nat \ {0} /\ ANON_POINTER_SLOTS \in Nat
  /\ MAX_PER_FINGERPRINT \in Nat \ {0} /\ MAX_PER_ANON_KEY \in Nat \ {0}
  /\ MAX_FUTURE_MS \in Nat /\ MaxClock \in Nat /\ MaxWire \in Nat

ASSUME InboxNone == None \notin InboxState /\ None \notin Update

EmptyInbox == [creds |-> {}, pointers |-> {}, pow |-> None]

\* What S holds for the key of x, as a set.
CredOf(S, x) == {c \in S : c.replier = x.replier}

-----------------------------------------------------------------------------
(* Caps and horizons *)

fp_cap(p) == IF is_anon(p) THEN MAX_PER_ANON_KEY ELSE MAX_PER_FINGERPRINT

Group(S, p) == {q \in S : q.fp = p.fp}

share(attested) ==
  LET free == IF Cardinality(attested) < MAX_POINTERS
              THEN MAX_POINTERS - Cardinality(attested) ELSE 0
  IN IF ANON_POINTER_SLOTS < free THEN ANON_POINTER_SLOTS ELSE free

\* Fault: over the global cap the oldest goes first, whatever its tier.
capped_OneQueue(S) ==
  LET fair == {p \in S : Cardinality(Newer(PointerOrder, Group(S, p), p)) < fp_cap(p)}
  IN Newest(PointerOrder, MAX_POINTERS,
            Attested(fair) \cup Newest(PointerOrder, ANON_POINTER_SLOTS, Anon(fair)))

\* Fairness caps, then the anonymous share, then the global cap, which evicts
\* the oldest anonymous pointer while there is one.
capped(S) ==
  LET fair == {p \in S : Cardinality(Newer(PointerOrder, Group(S, p), p)) < fp_cap(p)}
      kept == Newest(PointerOrder, MAX_POINTERS, Attested(fair))
  IN kept \cup Newest(PointerOrder, share(kept), Anon(fair))

\* Fault: only equal neighbours in the sorted list go.
dedup_Adjacent(held, new) ==
  held \cup {q \in new : \A p \in held : p.post = q.post => p.time # q.time}

\* One pointer per reply post, that with the lowest order key.  Held and new
\* have one each; the sort is stable, so at one order key the held one wins.
dedup(held, new) ==
  {p \in held : \A q \in new : q.post = p.post => p.time <= q.time}
    \cup {q \in new : \A p \in held : p.post = q.post => q.time < p.time}

canonicalize(held, new) == capped(dedup(held, new))

\* Fault: a tier with room left publishes its oldest all the same.
tier_horizon_Always(cap, tier) ==
  [closed |-> cap = 0, oldest |-> Oldest(PointerOrder, tier)]

tier_horizon(cap, tier) ==
  [closed |-> cap = 0, oldest |-> Horizon(PointerOrder, cap, tier)]

admits(horizon, p) == ~horizon.closed /\ \A o \in horizon.oldest : <<o, p>> \in PointerOrder

\* Fault (what v1 had): the fairness cap drops silently.
fp_horizons_None(S) == {}

\* The oldest pointer of every group at its cap.
fp_horizons(S) == UNION {Horizon(PointerOrder, fp_cap(p), Group(S, p)) : p \in S}

-----------------------------------------------------------------------------
(* The state: verify, summarize, delta, apply_delta *)

\* Two pointers at one reply that are not one replier's at one time.
Rival(p, q) == p.post = q.post /\ (p.replier # q.replier \/ p.time # q.time)

\* check_pointer: in this inbox, signed, and under the credential held.
Resolves(creds, p) ==
  p \notin Foreign \cup Malformed /\ \E c \in CredOf(creds, p) : c.fp = p.fp

creds_verify(d) ==
  /\ d.creds \cap Malformed = {}
  /\ Cardinality(d.creds) <= MAX_POINTERS
  /\ \A c \in d.creds : \E p \in d.pointers : p.replier = c.replier

pointers_verify(d) ==
  /\ Cardinality(d.pointers) <= MAX_POINTERS
  /\ Cardinality(Anon(d.pointers)) <= ANON_POINTER_SLOTS
  /\ \A p \in d.pointers :
       /\ Resolves(d.creds, p)
       /\ Cardinality(Group(d.pointers, p)) <= fp_cap(p)
       /\ is_anon(p) => p.bits >= POW_FLOOR_BITS
       /\ \A q \in d.pointers : q.post = p.post => q = p

verify(d) == d.pow \notin Malformed /\ creds_verify(d) /\ pointers_verify(d)

\* The peer counts anonymous slots with the attested pointers it has now.
summarize(d) ==
  [creds |-> d.creds, ids |-> {p.post : p \in d.pointers},
   attested_horizon |-> tier_horizon(MAX_POINTERS, Attested(d.pointers)),
   anon_horizon |-> tier_horizon(share(Attested(d.pointers)), Anon(d.pointers)),
   fp_horizons |-> fp_horizons(d.pointers),
   pow_seq |-> difficulty_seq(d.pow)]

PointersFor(d, theirs) ==
  {p \in d.pointers :
     /\ p.post \notin theirs.ids
     /\ admits(IF is_anon(p) THEN theirs.anon_horizon ELSE theirs.attested_horizon, p)
     /\ \A o \in Group(theirs.fp_horizons, p) : <<o, p>> \in PointerOrder}

\* A credential the peer lacks goes only with a pointer that needs it; an
\* upgrade of one it has always does.
CredsFor(d, theirs) ==
  {c \in d.creds :
     /\ \A t \in CredOf(theirs.creds, c) : t.hash < c.hash
     /\ \/ CredOf(theirs.creds, c) # {}
        \/ \E p \in PointersFor(d, theirs) : p.replier = c.replier}

\* EmptyInbox is the None of the code.
delta(d, theirs) ==
  [creds |-> CredsFor(d, theirs), pointers |-> PointersFor(d, theirs),
   pow |-> IF difficulty_seq(d.pow) > theirs.pow_seq THEN d.pow ELSE None]

\* The pointers of an update that clear the bar.  Foreign ones stay in, to
\* fail the update.
Clearing(S, pow) ==
  {p \in S : is_anon(p) /\ p \notin Foreign => p.bits >= difficulty_bits(pow)}

post_apply_cleanup(d) ==
  LET left == canonicalize({p \in d.pointers : \E c \in CredOf(d.creds, p) : c.fp = p.fp}, {})
  IN [d EXCEPT !.pointers = left,
               !.creds = {c \in @ : \E p \in left : p.replier = c.replier}]

\* The credentials of news worth a check, those a pointer of the update or of
\* the state needs and that beat the one held; the credentials held then; and
\* the pointers of news that clear the bar.
Checked(d, news) ==
  LET let_in == Clearing(news.pointers, adopt_difficulty(d.pow, news.pow))
      fresh  == {c \in news.creds :
                   /\ \E p \in let_in \cup d.pointers : p.replier = c.replier
                   /\ \A h \in CredOf(d.creds, c) : h.hash < c.hash}
  IN [fresh |-> fresh, let_in |-> let_in,
      creds |-> {h \in d.creds : CredOf(fresh, h) = {}} \cup fresh]

\* The pointers of S under a credential of creds, signed and for this inbox.
Resolving(creds, S) == {p \in S : Resolves(creds, p)}

\* Fault: the caps come before the checks.
pointers_apply_CapsFirst(held, creds, S) == Resolving(creds, canonicalize(held, S))

pointers_apply(held, creds, S) == canonicalize(held, Resolving(creds, S))

\* Latch the record, read the bar off the state, then credentials, then
\* pointers against them, then the cleanup.  A foreign pointer, a bad
\* signature of a known key or a bad credential fails the update (None); a
\* pointer without its credential is dropped.
apply_delta(d, news) ==
  LET new == Checked(d, news)
  IN IF \/ Cardinality(news.creds) > MAX_POINTERS
        \/ new.let_in \cap Foreign # {}
        \/ \E p \in new.let_in \cap Malformed : CredOf(d.creds \cup news.creds, p) # {}
        \/ new.fresh \cap Malformed # {}
     THEN None
     ELSE post_apply_cleanup([creds |-> new.creds,
                              pointers |-> pointers_apply(d.pointers, new.creds, new.let_in),
                              pow |-> adopt_difficulty(d.pow, news.pow)])

\* The scaffold's merge: what the other state would offer us, applied.
merge(d, other) ==
  LET news == delta(other, summarize(d))
  IN IF news = EmptyInbox THEN d ELSE apply_delta(d, news)

-----------------------------------------------------------------------------
(* The contract shell *)

\* Pointers only: a scrubbed state may keep a credential without one.
scrub_future(d, now) == [d EXCEPT !.pointers = {p \in @ : p.time <= now + MAX_FUTURE_MS}]

validate_state(d, now) == scrub_future(d, now) = d /\ verify(d)

Stored(d) == IF d = None THEN EmptyInbox ELSE d

\* None for every path that returns Err.
update_state(stored, u, now) ==
  LET kept == scrub_future(Stored(stored), now)
      body == scrub_future(u.body, now)
  IN IF u.whole THEN merge(kept, body) ELSE apply_delta(kept, body)

\* An empty stored state summarizes to zero bytes, which the sender reads as
\* the summary of the empty inbox.
summarize_state(d) == summarize(Stored(d))

-----------------------------------------------------------------------------
(* The peers *)

Init ==
  /\ inbox = [r \in Replica |-> None]
  /\ clock \in [Replica -> 0 .. MaxClock]
  /\ wire = [s \in Replica |-> [r \in Replica |-> None]]
  /\ merged = [r \in Replica |-> [creds |-> {}, pointers |-> {}]]

\* Peer r runs update_state; on Err the host keeps what it had.
HostUpdate(r, u) ==
  LET kept == scrub_future(Stored(inbox[r]), clock[r])
      body == scrub_future(u.body, clock[r])
      news == IF u.whole THEN delta(body, summarize(kept)) ELSE body
  IN /\ inbox' = [inbox EXCEPT ![r] = update_state(@, u, clock[r])]
     /\ inbox'[r] # None
     /\ \E in \in {Checked(kept, news)} :
          merged' = [merged EXCEPT ![r] = [creds |-> @.creds \cup in.fresh,
                                          pointers |-> @.pointers \cup Resolving(in.creds, in.let_in)]]

\* Peer r stores a whole state it had none of, if the contract validates it.
HostStore(r, d) ==
  /\ inbox[r] = None
  /\ validate_state(d, clock[r])
  /\ inbox' = [inbox EXCEPT ![r] = d]
  /\ merged' = [merged EXCEPT ![r] = [creds |-> d.creds, pointers |-> d.pointers]]

HostPut(r, d) ==
  \/ HostStore(r, d)
  \/ inbox[r] # None /\ HostUpdate(r, [whole |-> TRUE, body |-> d])

Tick(r) ==
  /\ clock[r] < MaxClock
  /\ clock' = [clock EXCEPT ![r] = @ + 1]
  /\ UNCHANGED <<inbox, wire, merged>>

\* ensure_own_inbox: the owner puts an empty inbox, at every resume.
EnsureInbox(r) ==
  /\ HostPut(r, EmptyInbox)
  /\ UNCHANGED <<clock, wire>>

\* update_inbox: the client applies what it sends to an empty inbox.
Materialized(c, p, pow) ==
  apply_delta(EmptyInbox, [creds |-> {c}, pointers |-> {p}, pow |-> pow])

\* send_inbox_pointer: pointer p under credential c, with the record pow the
\* client knows, to which it solved an anonymous stamp.
Put(r, c, p, pow) ==
  /\ c.replier = p.replier /\ c.fp = p.fp
  /\ is_anon(p) => p.bits >= difficulty_bits(pow)
  /\ Materialized(c, p, pow) # None
  /\ HostPut(r, Materialized(c, p, pow))
  /\ UNCHANGED <<clock, wire>>

\* The network is open: a delta that no client of ours would write, with one
\* pointer p, under credentials C of its key or none.  It may be well formed
\* and name a reply at which another pointer points.
Write(r, C, p) ==
  /\ \/ C = {} \/ C \cap Malformed # {} \/ p \in Malformed \cup Foreign
     \/ is_anon(p) /\ p.bits < POW_FLOOR_BITS
     \/ \E q \in Pointer : Rival(p, q)
  /\ HostUpdate(r, [whole |-> FALSE, body |-> [creds |-> C, pointers |-> {p}, pow |-> None]])
  /\ UNCHANGED <<clock, wire>>

\* s answers a summary of r, the one r publishes now or the stalest there is,
\* from before r had a state; without one it sends its whole state.  A newer
\* update replaces one still in flight.
Offer(s, r) ==
  /\ s # r /\ inbox[s] # None
  /\ Cardinality({l \in Replica \X Replica \ {<<s, r>>} : wire[l[1]][l[2]] # None}) < MaxWire
  /\ \/ wire' = [wire EXCEPT ![s][r] = [whole |-> TRUE, body |-> inbox[s]]]
     \/ \E heard \in {inbox[r], None} :
          LET d == delta(inbox[s], summarize_state(heard)) IN
          /\ d # EmptyInbox
          /\ wire' = [wire EXCEPT ![s][r] = [whole |-> FALSE, body |-> d]]
  /\ UNCHANGED <<inbox, clock, merged>>

\* The update in flight reaches r.  It stays deliverable: a duplicate.
Deliver(s, r) ==
  /\ wire[s][r] # None
  /\ HostUpdate(r, wire[s][r])
  /\ UNCHANGED <<clock, wire>>

\* The update in flight is lost, or was delivered for the last time.
Lose(s, r) ==
  /\ wire[s][r] # None
  /\ wire' = [wire EXCEPT ![s][r] = None]
  /\ UNCHANGED <<inbox, clock, merged>>

\* r, which has no state, GETs the state of s.
Fetch(r, s) ==
  /\ inbox[s] # None
  /\ HostStore(r, inbox[s])
  /\ UNCHANGED <<clock, wire>>

Next ==
  \/ \E r \in Replica : Tick(r)
  \/ \E r \in Replica : EnsureInbox(r)
  \/ \E r \in Replica, c \in Cred, p \in Pointer, pow \in Difficulty \cup {None} : Put(r, c, p, pow)
  \/ \E r \in Replica, p \in Pointer :
       \E C \in {{}} \cup {{c} : c \in CredOf(Cred, p)} : Write(r, C, p)
  \/ \E s, r \in Replica : Offer(s, r)
  \/ \E s, r \in Replica : Deliver(s, r)
  \/ \E s, r \in Replica : Lose(s, r)
  \/ \E r, s \in Replica : Fetch(r, s)

Spec == Init /\ [][Next]_vars

-----------------------------------------------------------------------------
(* Properties *)

\* One credential a key and one pointer a reply post.
InboxTypeOK ==
  /\ inbox \in [Replica -> InboxState \cup {None}]
  /\ \A r \in Replica : inbox[r] # None =>
       \A c \in inbox[r].creds : CredOf(inbox[r].creds, c) = {c}
  /\ clock \in [Replica -> 0 .. MaxClock]
  /\ wire \in [Replica -> [Replica -> Update \cup {None}]]
  /\ merged \in [Replica -> [creds : SUBSET Cred, pointers : SUBSET Pointer]]

Seeded(r) == inbox[r] # None

OfferNow(s, r) == delta(inbox[s], summarize(inbox[r]))

\* What a peer stores, its own validate_state accepts: every pointer under a
\* live credential and every credential under a live pointer, though upgrades,
\* evictions and the scrub take either side away; else no peer could fetch it.
InboxStatesValid == \A r \in Replica : Seeded(r) => validate_state(inbox[r], clock[r])

\* While no key traded its credential and no two pointers named one reply, what
\* r stores is one pass of the caps over every pointer that ever passed its
\* checks ("a pure function of the pointer SET"): three caps applied piecemeal,
\* in any order, do not compound.  Of two pointers at one reply the one that
\* lost may come back once the winner is evicted.
InboxIsOnePass ==
  \A r \in Replica :
    /\ Seeded(r)
    /\ \A c, e \in merged[r].creds : c.replier = e.replier => c = e
    /\ \A p, q \in merged[r].pointers : p.post = q.post => p = q
    => inbox[r].pointers = capped(merged[r].pointers)

\* Two peers with nothing to offer each other store the same inbox, unless they
\* hold rivals, or two stamps of one key, at one reply: a summary names the
\* reply only, and each keeps its own.
InboxPairAgreement ==
  \A r, s \in Replica :
    /\ Seeded(r) /\ Seeded(s)
    /\ OfferNow(s, r) = EmptyInbox /\ OfferNow(r, s) = EmptyInbox
    /\ \A p \in inbox[r].pointers, q \in inbox[s].pointers :
         ~Rival(p, q) /\ (p.post = q.post /\ p.fp = q.fp => p = q)
    => inbox[r] = inbox[s]

\* A delta against the receiver's current summary is accepted, and with it goes
\* every upgrade the receiver lacks (the livelock of issue 49).  If it brings no
\* upgrade, nothing more is left to offer but pointers that the receiver's bar
\* or its own credential refuses (the livelock of v1's fairness cap), or whose
\* rival the exchange evicted.  An upgrade may leave more: the pointers under
\* the credential it replaces crowd the caps in the pass that adds the news,
\* and only then go.
InboxExchangeSettles ==
  \A r, s \in Replica :
    LET d   == OfferNow(s, r)
        new == update_state(inbox[r], [whole |-> FALSE, body |-> d], clock[r])
        rest == delta(inbox[s], summarize(new))
    IN Seeded(r) /\ Seeded(s) /\ scrub_future(d, clock[r]) = d
         => /\ new # None /\ rest.pow = None
            /\ \A c \in rest.creds : CredOf(new.creds, c) = {}
            /\ (\A c \in d.creds : CredOf(inbox[r].creds, c) = {}) =>
                 \A p \in rest.pointers :
                   \/ Clearing({p}, new.pow) = {}
                   \/ \E c \in CredOf(inbox[r].creds, p) : c.fp # p.fp
                   \/ \E h \in inbox[r].pointers : Rival(h, p)

\* "Verified is never crowded out by anonymous", as far as it goes: an attested
\* pointer leaves only for newer attested ones, of its group or of the tier,
\* when the key of one trades its credential (its own key, or that of a newer
\* pointer, which still counts against the caps and then goes too), or for a
\* pointer at the same reply with an earlier time, which may be anonymous.
VerifiedUncrowdable ==
  [][\A r \in Replica : Seeded(r) =>
       LET gone == Attested(inbox[r].pointers \ inbox'[r].pointers) IN
       \A p \in gone :
         \/ Cardinality(Newer(PointerOrder, Group(inbox'[r].pointers, p), p)) = MAX_PER_FINGERPRINT
         \/ Cardinality(Newer(PointerOrder, Attested(inbox'[r].pointers), p)) = MAX_POINTERS
         \/ \E z \in gone : /\ z = p \/ <<p, z>> \in PointerOrder
                           /\ \E c \in CredOf(merged'[r].creds, z) :
                                c.fp # z.fp /\ \A h \in CredOf(inbox[r].creds, z) : h.hash < c.hash
         \/ \E q \in merged'[r].pointers : q.post = p.post /\ q.time < p.time]_vars

\* "Replicas that saw the upgrade and the old pointers in different orders must
\* converge on 'stale pointers gone'" (post_apply_cleanup).  A replica forgets
\* the upgrade with the last pointer under it: an author who verified and
\* points at the same reply again empties it, as the held pointer wins the
\* tie and then fails its credential, and the old pointer comes back.
StalePointersGone ==
  \A r \in Replica : Seeded(r) =>
    \A p \in Anon(inbox[r].pointers) : \A c \in CredOf(merged[r].creds, p) : c.fp = p.fp
=============================================================================

# A verified model of Freebird

Freebird is microblogging on Freenet. There is no server: every piece of data
is a *contract*, a WebAssembly program that says which states are valid and how
two states merge. The peers of the network host replicas of each contract and
gossip; the browser client (`ui/`) talks to one peer, and keeps the posting key
in a *delegate* of that peer. What a user sees is right only if every contract
converges whatever the order, grouping, loss and repetition of updates, stays
within its caps, and lets nobody take back or crowd out what others wrote; and
if the page, whose answers come late, twice or never, neither loses the key nor
the data of the previous generation nor mistakes one account for another. Those
are the properties modelled here, as TLA+ modules checked by TLC on small
instances and, but for the mirrors of the previous generation and for liveness,
proved by TLAPS for instances of any size.

All paths below are relative to the repository (`src/` in `PROJECT.json`).

## 1. Inventory

| Component | State | Operations | Interacts with |
|---|---|---|---|
| **Feed** `common/src/feed.rs`, `contracts/feed-contract` | profile, follow list, attestation slot, log of at most `MAX_POSTS` posts | verify, summarize, delta, apply_delta, merge, canonicalize, scrub_future; shell: validate, update, summarize, get delta | host (gossip), client (put, update) |
| **Directory** `contracts/directory-contract` | an attested and an anonymous tier, one listing per author and tier; a latched difficulty record | verify, admit, canonicalize, tier horizons, summarize, delta, apply_delta, merge, scrub; shell as above | host, client, difficulty record |
| **PoW difficulty** `pow` | none of its own: the latch inside directory and inbox | adopt_difficulty, difficulty_bits, difficulty_seq, meets, solve | directory, inbox, client |
| **Inbox** `contracts/inbox-contract` | credentials by posting key, reply pointers in two tiers with a cap per fingerprint, a latched record | as the directory, with cross-references between credentials and pointers | host, client, PoW |
| **Cell** `contracts/cell-contract` | one signed record with a `seq` | check, merge, summarize, delta | control, difficulty, anchors |
| **Control / anchor** `control`, `anchor` | schemas inside cells | decode, update_available; role to address | client, publisher tool |
| **Avatar** `contracts/avatar-contract`, `common/src/avatar.rs` | one signed picture with a time | check, update with future scrub | host, client |
| **Attestation, types** `common/src/attestation.rs`, `types.rs` | none | pure signature, RSA-chain, size and id checks | all contracts |
| **Delegate** `delegates/freebird-delegate` | key-value secrets per calling web app | store, get, delete, list | client |
| **Client actions** `ui/src/actions.rs`, `state.rs` | signals: account, feeds, inboxes, directory, migration marker | create, resume, import, post, reply, follow, list, verify, nuke, migrate v1 | api, delegate |
| **Client api** `ui/src/api.rs` | tracked contracts, probe counters | connect, put/update/fetch, dispatch, follow anchors, legacy probe | host |
| **Publisher tool** `tools/freebird-ctl` | a key | publish control and difficulty (`seq` = now) | cells |
| **v1 schemas** `common/src/inbox.rs`, `ui/src/legacy.rs` | none | decode | migration |
| **Views** `ui/src/views.rs` | the account gate, the open view and its effects, authors attempted | startup, fetching what a view needs, check-mark box, listing toggle and refresh | client state, vault |
| **Demo data, build** `ui/src/fixtures.rs`, `build.rs` | none | none of the running program | |

Behaviours that are hard, and the properties that make each component right:

* **Feed.** Gossip reorders, repeats and loses deltas, and a delta answers a
  summary that may be stale. The log is capped, so its merge is not monotone:
  it must still be a function of the set of posts seen, and a peer at its cap
  must say what it will refuse or be offered it for ever. Registers must never
  go back, also when two devices sign one version. Host clocks disagree about
  which posts are too far ahead.
* **Directory.** As the feed, with two tiers of which one shrinks as the other
  grows, slots whose winner is forgotten on eviction, and a bar in front of
  anonymous listings that the publisher moves while listings travel. A raise
  must bind writers who omit it, reach peers no listing flows to, and never
  be undone; anonymous listings must never displace attested ones.
* **Inbox.** As the directory, with three caps instead of two and credentials
  that live exactly as long as a pointer needs them; and anybody may point at
  anybody's reply, with any time.
* **Cells, avatar.** Registers must converge and not be bricked by a record
  from the future; clients order control records by `build`, cells by `seq`.
* **Account.** The probe of old delegates races a timeout, the user who creates,
  restores or destroys an account, a lost connection, a node that forgets and a
  storage that refuses a write;
  the page must end on some screen, keep the key it shows, strand no key
  unwarned and not resurrect a destroyed one.
* **Migration.** Actions read a version, await, and write version + 1; local
  optimistic writes are visible to the re-read that confirms a migration; what the
  owner wrote after the rotation, on any device, must not be taken back.
* **Reading.** The page merges records of two generations in any order; a failed
  GET looks like one under way; an anchor may name somebody else's address.
* **Check mark and listing.** The vault answers in its own time, an old replica
  sends a feed without the check mark, a raise reaches the directory before the
  page: a listing must stay in its tier and over the bar.

`PROJECT.json` lists every hazard with its line and the properties that cover
it; a hazard with no property, or that its properties cover in part, says why.

## 2. Plan

| # | Module | Content | State |
|---|---|---|---|
| 1 | `CappedLog`, `CappedLogTheorems` | logs that keep their newest entries; absorption, horizon and delta laws | done, proved |
| 2 | `PostLog`, `Feed`, `FeedProofs` | abstract log; feed, shell and peers; proofs | done, checked, proved |
| 3 | `PowLatch`, `Directory`, `DirectoryProofs` | the difficulty latch; two tiers, peers | done, checked, proved |
| 4 | `Inbox`, `InboxProofs` | credentials, pointers, caps per fingerprint | done, checked, proved |
| 5 | `Account`, `AccountProofs` | delegate store, carry-forward probe, gate, create, restore, destroy | done, checked, proved |
| 6 | `Migration`, `MigrationProofs` | client actions around `migrate_v1`: read, await, write; confirmation | done, checked, proved |
| 7 | `Client`, `Slots`, `Mirrors`, `Reader`, `PageProofs` | avatar, anchor and control records; the previous generation's directory and inbox; whose feeds a view loads | done, checked; `Slots` and `Mirrors` proved |
| 8 | `Verification`, `VerificationProofs` | check mark and public listing | done, checked, proved |

`Inbox` and `Directory` extend `CappedLog` and `PowLatch`, `Mirrors` extends
`CappedLog`, `Verification` extends `PowLatch`, `Slots` and `Reader` extend
`Client`. `MCReader` composes `Slots`, `Mirrors` and `Reader`, `MCMigration`
composes `Migration` and `Verification`. Two abstract specifications are left to
state: the set of winners with two budgets that the directory shows, and a
register that takes the maximum of what it was given (`Slots`).

## 3. Modules and how they correspond to the code

### CappedLog
Operators shared by every bounded collection. A vector that is sorted by an
order key and has no duplicates is the set of its elements, so a log is a set
and the order a relation `R`. `Newest(R, k, S)` is "sort, then drain from the
old end down to k"; `Horizon` is `RetentionHorizon` / `TierHorizon`
(`{}` = open, `{x}` = oldest retained).

### Feed
| Model | Code |
|---|---|
| `feed[r]` | the contract state peer `r` stores (`FeedStateV1`), `None` before it has one |
| `clock[r]` | what `freenet_stdlib::time::now` says at `r` |
| `heard[s][r]`, `wire[s][r]` | the host: cached summaries, an update in flight |
| `accepted[r]` | history: every post that reached `r`'s merge |
| `summarize`, `delta`, `apply_delta`, `merge`, `verify`, `canonicalize`, `retention_horizon` | the functions of these names in `common/src/feed.rs` and what its `composable` macro derives |
| `validate_state`, `update_state`, `summarize_state`, `scrub` | the shell in `contracts/feed-contract/src/lib.rs`; `None` is every `Err` |
| `Put`, `ClientUpdate` | `put_own_feed` / `ensure_own_feed`, `update_own_feed` |
| `Announce`, `Offer`, `Deliver`, `Lose`, `Fetch`, `Tick` | the Freenet node, external: what the contract interface implies |

A signed record is its LWW key `(version, content hash)`, which determines it; a
post is its order key `(time, id)`. `Malformed` holds records that the
signature, size or id checks refuse.

`PostLog` is the abstract specification: each peer is given posts in any
grouping and shows the newest `MAX_POSTS` of all it was given.

### PowLatch
`difficulty_bits`, `difficulty_seq` and `adopt_difficulty` of `pow/src/lib.rs`.
A record is `[seq, bits]`; a state of the directory and of an inbox holds one or
`None`, and so does the page (`POW_DIFFICULTY` in `Verification`).

### Directory
| Model | Code |
|---|---|
| `dir[r]` | `DirectoryStateV4` at `r`: `attested`, `anon`, `pow` |
| `admitted[r]` | history: listings that passed `r`'s checks and bar |
| `Wins`, `Winners` | the LWW comparison in `apply_delta` and `admit` |
| `canonicalize`, `effective_anon_share`, `tier_horizon`, `admits` | the functions of these names |
| `summarize`, `delta`, `apply_delta`, `verify`, `scrub_future`, `AsDelta` | likewise; `AsDelta` is what `merge` builds |
| `Put` | `put_directory_listing`, called by `set_public_listing`: an anonymous stamp clears the record it carries |
| `Write` | any other writer of the open network: a malformed listing or one under the floor |

A listing is `[author, time, hash, anon, bits]`: `bits` is what its stamp
clears. Bytes of summaries are left out: a listing stands for its own key.
An empty stored state and one that holds an empty directory behave alike
(`Stored`), as in the code.

### Inbox
| Model | Code |
|---|---|
| `inbox[r]` | `InboxStateV3` at `r`: a set of credentials with one per key, a set of pointers with one per reply post, the latched record |
| `merged[r]` | history: pointers and credentials that passed `r`'s checks |
| `canonicalize` and the steps it is made of, `summarize`, `delta`, `apply_delta`, `verify`, horizons, scrub | `contracts/inbox-contract/src/state.rs` |
| `validate_state`, `update_state` | `contracts/inbox-contract/src/lib.rs` |
| `EnsureInbox`, `Put`, `Materialized` | `ensure_own_inbox`, `send_inbox_pointer`, `update_inbox` |
| `Write` | any other writer of the open network |

A pointer carries the fingerprint of the credential it was signed under, which
names both its tier and the group the fairness cap counts. `Foreign` are pointers
signed for another inbox. Nothing ties a reply post to the replier or the time of
the pointer, as `check_pointer` does not: two pointers at one reply that differ in
either are *rivals* (`Rival`), and `dedup` keeps the one with the lowest order key,
on equal keys the held one, as the stable sort does.

### Account
| Model | Code |
|---|---|
| `store[g][k]`, `registered` | what delegate generation `g` keeps (`delegates/freebird-delegate`), and which generations the node can run |
| `requests[g]`, `answers[g]` | messages to and from a delegate, first in first out per delegate and unordered between delegates |
| `page` | signals and statics of one page load: `ACCOUNT`, `POSTING_KEY_LOADED`, the probe's `PENDING`, `FAILED`, `PROBE_DONE`, connection status |
| `Handle`, `Refuse` | the delegate's `process`, and its `Store` or `Delete` when the storage of secrets fails: nothing changes, and the page logs an error at most; an unattested page gets empties, a delegate that is not registered drops the message |
| `Dispatch` | `dispatch` of a delegate answer: `dispatch_legacy_kv`, carry-forward, and the effect on `POSTING_KEY_LOADED`, which runs in the same step |
| `Watchdog`, `Ceiling` | the timers of startup and of the probe |
| `create_account`, `import_account`, `nuke_account` | `ui/src/actions.rs` |
| `ConnectionLost`, `NoticeLost`, `Load` | the socket closes and requests in flight go with it, a restart of the node loses the registrations as well; the page hears of it; the page is loaded again |

Handlers run to completion, since the client is single-threaded and `send` only
hands a request to the socket: it fails exactly when the socket is closed.
`haunted`, `lost` and `refused` are histories that name the three cases in which
the code gives no guarantee: a nuke that overtakes an answer carrying a seed, a
write that was lost with its connection, and the kinds of write that some
delegate's storage refused. `AccountIsStored` and `ProbeCarriesAll` exempt a
refused `Store`, `NukeIsFinal` a refused `Delete` only: a `Store` that fails
brings nothing back. The acknowledgements of `Store` and
`Delete` change nothing on the page and are left out, as are the effects of
settings (theme, dismissed build, marker) on the screen; their being carried
forward is modelled.

### Migration
| Model | Code |
|---|---|
| `net`, `wire` | the second-generation feed as the network holds it, external; updates on their way, applied in any order or lost |
| `FEEDS[d]`, `LEGACY_FEEDS[d]`, `V1_MIGRATION[d]`, `started[d]`, `tries[d]` | the signals and statics of device `d` |
| `marker[d]` | `V1_MIGRATION_KEY` in the delegate of `d` |
| `publish_profile`, `set_follow` | the actions of these names, which apply their write to the own copy |
| `migrate_v1`, `confirm_identity_migrated` | the run up to its first wait, and each re-read |
| `identity_to_migrate`, `posts_to_migrate`, `follows_of`, `merge_feed` | the functions of these names |
| `resume_account` | the next session, which begins when the delegate answered about the marker |

`touched` and `blind` are histories behind the two exemptions of the properties:
a device whose own unconfirmed edit is in the copy the confirmation looks at, and
a follow list that was edited before the legacy one had arrived.

### Slots, Mirrors, Reader
* `Slots`: the three single-record contracts. Hosts keep a record (`check`,
  `merge`, the avatar's future scrub), the page keeps what it can read of it
  (`AVATARS`, `ANCHORS`, `CONTROL`), tracks addresses (`TRACKED`) and follows
  anchors (`follow_anchor`). A behaviour follows one `topic`, because the three
  share no state.
* `Mirrors`: `ui/src/legacy.rs`, the page's merged copies of the previous
  directory and inbox. A vector whose order matters (the pointers of a delivery)
  is a sequence; the loop that takes them one by one is `seat`, which says of each
  place whether the loop takes it: the first that passes the gates and points at
  a reply nothing held points at.
* `Reader`: the effects in `ui/src/views.rs` that ask for feeds, one action per
  kind of effect (`FetchMissing` for those that ask only for authors without an
  entry, `Discover` for the sample with its retry), the answers and failures.
  `FEEDS[a] = "pending"` is the placeholder `fetch_feed` leaves.

### Verification
| Model | Code |
|---|---|
| `ACCOUNT`, `own`, `PUBLIC_LISTING`, `listing_refreshed`, `POW_DIFFICULTY`, `DIRECTORY` | signals; the own copy of a feed is absent, bare or attested |
| `page` | the profile page: closed, open, or open with a request under way |
| `vault` | requests the Ghost Key delegate has not answered, external |
| `request_verification`, `complete_verification`, `set_public_listing` | the actions of these names |
| `shown`, `published`, `listing` | histories: check marks seen, attestations put into feeds (from which old replicas answer), the last listing signed |

### The MC modules
The instances: small sets of records chosen so that the cases below happen.
`MCReader` and `MCMigration` run, in each behaviour, one of parts that share no
variable and of which no handler reads what another writes; interleaving them
would multiply the states and show nothing more.

## 4. Runs

| Run | Instance | What it shows |
|---|---|---|
| `feed_posts` | 2 peers, 2 slots, 4 posts: two of one instant, one ahead of a slow clock, one malformed; both clocks 0..1 | stored states validate, the log is exactly the newest of all accepted, one exchange settles, a quiet network is complete, and `PostLog` is implemented |
| `feed_registers` | 2 peers, 3 profiles (a seed of version 0, version 1 signed twice), 2 attestations | no register regresses, and a pair with nothing to offer is equal |
| `feed_live` | 2 peers, 1 slot, 2 posts, a lagging clock | fair gossip brings both peers to one state |
| `directory_tiers` | 2 peers, cap 1, share 1, one attested listing and three anonymous ones (two of one author and time) | slots, shares and horizons: both tiers are the newest winners, agreement, settling, attested listings uncrowdable |
| `directory_bar` | 2 peers, cap 2, records 1 (raise) and 2 (lowering), stamps of 0, 1 and 2 bits (the last two of one author, the weaker newer), a future and a malformed listing | the latched bar binds every later write, stored states validate, exchanges settle |
| `directory_raise` | 2 peers, one record, one listing ahead of a slow clock | a raise reaches every peer |
| `directory_under_bar` | 2 peers, one record, one anonymous listing at the floor | **violated**: an honest peer does forward a listing under the bar |
| `inbox_tiers` | 2 peers, cap 2, one slot per fingerprint and per anonymous key; a key that upgrades from anonymous, one attested, one that stays anonymous, writes one more than it may and points at the attested key's reply with an earlier time; a pointer ahead of a slow clock, a forged, a foreign one, a bad attestation | stored states validate, rivals at one reply included; what is stored is one pass of the caps over every pointer that ever arrived (while no key traded its credential and no rivals met), a pair with nothing to offer is equal (unless it holds rivals), one exchange settles, verified pointers leave only as `VerifiedUncrowdable` says |
| `inbox_stale` | 2 peers, one reply pointed at before and after its author verified | **violated**: pointers under a fingerprint the key gave up come back |
| `account` | one old delegate and the current one, two seeds of which one exists before, every initial store and attestation, 2 page loads, 1 destruction, any write refused; 2.7 million states | the account on the screen is the stored one, a destroyed one stays destroyed, the probe carries all (each but for the losses and refusals it names), an account is created over an old one only with the warning shown, and the loading screen ends |
| `migration` | 2 devices, 2 followees of which one legacy, one legacy post; at most 2 edits, 1 lost update and 1 further session, 3 of these together. Apart from it `Verification` with 2 posting keys and 2 difficulty records (raise, cut) and a forged one | legacy followees survive, "done" means the network holds the identity, the legacy profile never comes back; the check mark keeps the tier, listings clear the bar the page knows of |
| `reader` | `Slots` with 2 hosts and clocks 0..1; `Mirrors` with a dozen deliveries and caps of 1 to 3; `Reader` with 3 authors | caches are the newest readable record, an address stays with its decoder, hosts settle, verified entries stay in the mirrors, and an author in the Discover sample is loaded in the end |

**Bounds.** Two peers suffice for pairwise gossip: every property is about one
peer or a pair, and a third peer is, to either of them, another source of
updates in an order they already explore (the client reaches both, at any
time). Caps of one and two give the empty, the partly filled, the exactly full
and the overfull log. One update in flight per direction, replaceable and
deliverable any number of times, gives loss, duplication, staleness and
overtaking; the inbox runs also cap the updates in flight (`MaxWire`, 1 or 2).
`MaxClock` is 0 or 1: clocks matter only through whether a record is within
`MAX_FUTURE_MS` of them, and 0..1 makes two peers disagree about one record. Two
page loads are a load and the reload after a lost connection; one old generation
is the least that needs a probe, whose names and values are several answers
that race the timer. Two edits with one lost update let each device edit
once, or one twice, around a run of either; a hash order that lets the legacy
records win a tie is the worse of the two. `MaxLoads`, `MaxNukes`, `MaxEdits`,
`MaxLost`, `MaxSessions`, `MaxEvents`, `MaxClock`, `MaxWire` and `Shown` are all
the bounds there are, and all state spaces are finite without a state
constraint.

Deadlock is checked except in `account`, `migration` and `reader`, where a
behaviour may really end: the page has been loaded as often as the bound allows
and every answer has arrived.

**Fairness.** The host's scheduler is outside the repository. `FairSpec` asks
that summaries keep being announced, offers keep being made, a peer without
state fetches it and, for the feed, that clocks run (weak fairness), and that an
update that is sent again and again is sometimes delivered (strong fairness: it
may be lost any finite number of times). No client action is fair: convergence
may not depend on anybody writing. In `Account` only the two timers are fair: a
browser fires them while the page lives, whereas nothing obliges a delegate to
answer or a connection to last. In `Reader` the effect of the Discover tab is
fair, because it runs when the view is mounted, and a GET repeated for ever is
answered (strong fairness, as for deliveries); `ListedLoad` speaks of a user who
opens that tab again and again.

**Findings.** Two comments say more than the code does.

*A listing under the bar is forwarded* (`directory_under_bar`). `apply_delta` drops an
anonymous listing under the latched bar and its comment says "an honest peer never forwards an under-bar listing"
(`directory-contract/src/lib.rs:504-507`). But a listing seated before a raise
stays seated, `delta` does not look at the bar, and the summary names only the
record's `seq`. So two peers that latched the *same* record repeat the exchange
at every round without effect, until the listing is evicted or its author
republishes. `pow/src/lib.rs:38-44` accepts that membership differs for a time;
the repeated offer is what `kb/specs/crdt-merge-rules.md` asks to exclude
("publish a retention horizon for every prune rule that can silently drop
entries"). `DirExchangeSettles` states what does hold: nothing but such listings
is left to offer.

*Stale pointers come back* (`inbox_stale`). The comment at
`inbox-contract/src/state.rs:262-268` says that replicas "that saw the upgrade
and the old pointers in different orders must converge on "stale pointers
gone"". The clean-up drops pointers whose fingerprint their key no longer has,
and then every credential without a pointer. When the reply that was pointed at
is the same before and after the upgrade, the held pointer wins the tie, no
longer matches the new credential, and goes; the new credential goes with it,
and the upgrade is forgotten. The next delivery of the old credential and
pointer is seated again. `InboxPairAgreement` and `InboxExchangeSettles` hold all
the same: the replicas agree, on something else than the comment says.

## 5. Proofs

`CappedLogTheorems` proves, for every strict total order, finite set and cap:
truncating early changes nothing (`NewestAbsorbs`), the horizon is exactly the
test whether an entry would be kept (`HorizonIsExact`), and a delta above the
horizon settles the pair and is not futile (`DeltaSettles`).

`FeedProofs` proves for any number of peers, any cap, any records and clocks:

| Theorem | Property |
|---|---|
| `FeedTypeCorrect` | `TypeOK` |
| `FeedStoredStatesValid` | `StoredStatesValid` |
| `FeedRetainedIsNewest` | `RetainedIsNewest` |
| `FeedPairAgreement` | `PairAgreement` |
| `FeedOneExchangeSettles` | `OneExchangeSettles` |
| `FeedQuietNetworkIsComplete` | `QuietNetworkIsComplete` |
| `FeedNeverRegress` | `NeverRegress` |
| `FeedImplementsPostLog` | `ImplementsPostLog` |

Assumptions: `FeedAssumption` (the posts are finitely many, an id determines a
post, which is collision freedom of the hash, and a cap of at least one) and
`NoneAssumption` (`None` is no record). TLC evaluates both.

The argument: the type invariant, with "stored posts are unmalformed and within
the clock", is inductive because clocks do not go back and every path into the
store ends in `verify` or in `canonicalize` after the checks. `RetainedIsNewest`
is not inductive by itself: it needs that what is stored is a truncation of what
was accepted, that a refused update leaves both alone, and that posts which the
summary and horizon keep out of a delta would not have been kept;
`NewestAbsorbs` and `HorizonIsExact` are those facts. Agreement, settling and
quietness are then consequences of the invariant in one state, and refinement
follows since each step that changes a log extends `accepted` by the same posts.

`MigrationProofs` proves, for any number of devices, followees, posts and
names, any hash and any bounds on edits, losses and sessions:

| Theorem | Property |
|---|---|
| `MigrationTypesHold` | `MigrationTypeOK` |
| `FollowsKeptHolds` | `FollowsKept` |
| `ConfirmedMeansHeldHolds` | `ConfirmedMeansHeld` |
| `LegacyNeverRevertsHolds` | `LegacyNeverReverts` |

Assumptions: `MigrationAssumption` (a typed name is neither the blank nor the
legacy profile, the bounds are naturals, at least one re-read) and
`NobodyAssumption` (`Nobody` is no record). TLC evaluates both.

The argument is one inductive invariant, `MigrationInv`. None of the properties
is inductive, because what the network holds next is on the wire or in some
device's copy now. So the invariant says of *every* copy, in `net`, `wire` and
`FEEDS`, what `FollowsKept` says of `net`: a written list misses no legacy
followee but those the owner dropped; and of every profile, that the legacy one
occurs only as the first write and a typed one never before it. A device that has no unconfirmed edit never
knows more than the network (its copy is behind `net` in both registers), which
turns what a confirming device sees into a fact about `net`; and what the network
holds it keeps, since registers only advance, which is why the marker stays true.
`LegacyNeverReverts` then follows in one step: an update that carries the legacy
profile has version 1, and a name on the network at least that.

`DirectoryProofs` proves, for any number of peers, any caps, share, records of
difficulty and set of listings:

| Theorem | Property |
|---|---|
| `DirTypes` | `DirTypeOK` |
| `DirStatesValidHolds` | `DirStatesValid` |
| `TiersAreNewestHolds` | `TiersAreNewest` |
| `RaiseBindsHolds` | `RaiseBinds` |
| `AttestedUncrowdableHolds` | `AttestedUncrowdable` |
| `DirPairAgreementHolds` | `DirPairAgreement` |
| `DirExchangeSettlesHolds` | `DirExchangeSettles` |

Assumptions: `DirectoryAssumption` (finitely many listings; author, tier, time and
hash determine one; caps of at least one), `DirectoryNone`, and `PowAssumption`
(a `seq` determines a record, the floor is not over the ceiling).

The argument: a tier is *sound* if it is the newest winners of what the peer
admitted. `TierAbsorbs` shows that one pass over a tier cut before and the news is
one pass over everything, although eviction forgets the winner of a slot: a
forgotten author has `k` newer authors above, who stay above. The anonymous tier
needs the same under a budget that shrinks, `effective_anon_share`, and it only
shrinks since the attested tier only fills. A listing that a horizon does not admit
is one the tier would refuse (`AdmitsIsExact`), from which agreement and settling
follow in one state. The invariant asks nothing of what travels but its shape:
anybody may send anything.

`InboxProofs` proves, for any number of peers, keys, credentials and pointers:

| Theorem | Property |
|---|---|
| `InboxTypes` | `InboxTypeOK` |
| `InboxStatesValidHolds` | `InboxStatesValid` |
| `InboxIsOnePassHolds` | `InboxIsOnePass` |
| `InboxPairAgreementHolds` | `InboxPairAgreement` |
| `InboxExchangeSettlesHolds` | `InboxExchangeSettles` |
| `VerifiedUncrowdableHolds` | `VerifiedUncrowdable` |

Assumptions: `InboxAssumption` (finitely many pointers and credentials; hash 0 is
the anonymous credential's, key and hash determine a credential) and `InboxNone`.
The theorems have no other hypothesis; what rivals at one reply break is exempted
in the properties themselves, as narrowly as it is true. A peer that saw rivals is
not one pass over what it saw: the loser may come back once the winner is evicted.
Two peers that hold rivals, or two stamps of one key, at one reply offer each other
nothing and differ, for a summary names a pointer by its reply alone. An exchange
may leave the rival of a pointer that it evicted to offer. And an attested pointer
may leave for a rival with an earlier time, though that one be anonymous.

The argument: canonicalization cuts by two caps, and an eviction by one makes room
under the other, so that cutting early could keep what one pass would drop.
`CutAbsorbs` shows that it does not, since the fairness cap is applied first and
evicts no more of a group than it must; `CappedAbsorbs` adds the anonymous share,
which only shrinks. Credentials live as long as a pointer needs them, so the
claim is made while no key traded its credential. For exchanges, `Blocked` says
what a horizon means: a fingerprint or a tier has as many newer pointers as it may.
What `canonicalize` evicts is blocked, what is blocked stays so, and a delta leaves
out nothing else. `JoinedIsUnion` is what `dedup` does where no rivals meet, which
is where a delta is concerned: it carries no reply the receiver holds.

The attempt at these proofs showed that two properties, as they stood, were false
of the code in cases the instance did not reach, and TLC confirmed both on a
larger one: pointers under a credential that the *same* update upgrades still
exert pressure on the caps before the clean-up drops them. An exchange with an
upgrade may thus leave something to offer, and a verified pointer may leave for a
newer one that goes in the same pass. `InboxExchangeSettles` and
`VerifiedUncrowdable` now say so, and `inbox_tiers` has an upgrade under cap
pressure.

`AccountProofs` proves, for any number of old delegate generations, seeds,
settings, page loads and destructions:

| Theorem | Property |
|---|---|
| `AccountTypes` | `AccountTypeOK` |
| `AccountStays` | `AccountIsStored` |
| `NukeStays` | `NukeIsFinal` |
| `ProbeCarries` | `ProbeCarriesAll` |
| `CreateWarns` | `CreateIsWarned` |

Assumption: `AccountAssumption` (finitely many old generations and settings, the
current one is none of them, the values of the model are distinct).

The argument is one inductive invariant, `AccountInv` with `DoomedInv`, the first in
four parts. `TypeInv` says what may be in a queue: only the current generation is written to other than by a
wipe, and a request that needs its delegate comes after its registration.
`PageInv` says that a page load asks once for the posting key, after everything
older pages sent, so that what the answer shows is what the store holds with
nothing on its way to change it; this is why the screen and the store agree.
`WipeInv` says that no old generation is about to tell a destroyed seed: a wipe
precedes any later `Get` in the same queue. `ProbeInv` counts: `PROBE_OUTSTANDING`
is at least the number of requests that will be answered plus the answers under
way, also while a list of keys turns into as many requests, so that a gate that
drops without a warning leaves nothing unheard; and whatever an old generation
holds is carried or among what is owed. What a queue will leave in a store
(`WillHold`) is defined by its last write rather than by folding over the queue,
because induction over a fold is out of the prover's reach. A refused `Store` lets
an earlier write stand where a later one was to be the last, so that `NukeIsFinal`
could fail although every `Delete` succeeds. `DoomedInv` says why it does not: while no wipe was lost, refused or overtaken
(`Wiped`), a destroyed seed in the current generation, or in a `Store` on its way
there, has the `Delete` behind it in the queue, whatever is refused in between.

`VerificationProofs` proves `TierIsKeptHolds` and `ListingsClearBarHolds`, of the
properties of these names, from
`VerificationAssumption` (`None` is no key, state or message) and `PowAssumption`.
Its invariant adds that the own copy of an author whose check mark was seen keeps
it, whatever old replica answers, and that the difficulty records the page goes by
are the publisher's.

`PageProofs` proves, for any number of hosts and authors, any records, clocks and
addresses, any deliveries of the previous generation and any caps:

| Theorem | Property |
|---|---|
| `SlotsTypes` | `SlotsTypeOK` |
| `CachesAreNewestHolds` | `CachesAreNewest` |
| `FetchedGoHomeHolds` | `FetchedGoHome` |
| `SlotsSettleHolds` | `SlotsSettle` |
| `VerifiedStaysHolds` | `VerifiedStays` |

Assumptions: `SlotsAssumption` (times and hashes are naturals; time and content
hash determine a record that passes the checks; an anchor names addresses),
`ClientAssumption` and `MirrorsAssumption` (a delivery is finite, and content
hashes tell apart the listings of an author and the credentials of a key that pass
the checks). The invariant of `Slots` adds that what hosts store passed the checks,
without which a newer record could be offered for ever and refused for ever; that
of `Mirrors` (`MirrorsInv`) that what is shown was delivered and passed the checks,
with one credential a key and one pointer a reply. The argument for `VerifiedStays`
is about the inbox's two passes: the caps count pointers whose credential was
replaced by the same delivery and which the cleanup drops afterwards, so that a
pointer may be pushed out by one that no one ever sees. `CapsLeave` shows that
such a one was held before, and that an author's cap full of a pointer that is
shown neither before nor after means a full global cap.

Every assumption above is evaluated by TLC in a run.

Only model-checked: liveness (`EventuallyAgree`, `RaiseReachesAll`,
`GateSettles`, `ListedLoad`), which needs fairness and ENABLED, outside the
prover's reach. Every safety property of a passing run is proved.
The runs check every invariant and action property that is proved, but for the
type invariants `MigrationTypeOK`, `DirTypeOK`, `InboxTypeOK`, `AccountTypeOK` and
`SlotsTypeOK`: no run spends itself on them.

## 6. What is not modelled, and why

* **Cryptography.** Signatures, RSA chains and hashes are taken at their word:
  a check accepts or refuses (`Malformed`, `ok`), distinct contents have distinct
  hashes. One post with two valid signatures is one post here: ids, order and
  summaries do not see the signature.
* **Encoding.** CBOR and sizes; an undecodable update is a refused one. A
  zero-byte summary is the summary of nothing, as the shells map it.
* **Several updates in one call.** `update_state` takes a list and folds over it;
  an update here is one state, one delta or both (`StateAndDelta`), which is
  what the host sends. The directory's `StateAndDelta` is two updates in a row.
* **Host clocks that step back.** A stored post could then be ahead of its own
  clock until the next update scrubs it. The model's clocks only advance.
* **Records of one `seq`.** The publisher stamps `seq` with its clock, so two
  difficulty records never share one; `PowAssumption` says so. The latch
  would not reconcile them: its summary holds the `seq` alone.
* **Counters.** Versions are naturals; in the code they are `u32` that the client
  increments once per edit of its user, four billion edits away from wrapping.
* **Feature flags** of a control record, which only open or close the dual-read
  window: the mirrors are modelled with the window open.
* **The socket's reconnection timers**, request encoding and logging. A lost
  connection, its notice and the reload are actions of `Account`.
* **Rendering**, forms, theme and the address hash; demo data, build and
  publishing scripts: no state that a property is about.
* **`common/src/inbox.rs`.** The first inbox schema is used by nothing outside
  itself; what the page reads of that generation is `ui/src/legacy.rs` (`Mirrors`).

Behaviours of the code met while modelling that no property is stated about,
because it would be false of the code as written and no document promises it,
or because a property states the exemption:

* A page orders control records by `build` (`ui/src/api.rs:1230`), the cell by
  `seq`. A record republished with the same or a lower build and other flags,
  which is how `docs/superpowers/specs/2026-08-10-anonymous-parity.md:105-108`
  closes the dual-read window and how `kb/specs/cell-contract.md` lowers a value,
  does not reach a page that holds the old one until it is reloaded.
  `CachesAreNewest` states the order by build.
* `publish_avatar` stamps the picture with the device's clock: with a clock set
  back the upload loses against the picture in force, while the page shows it.
  A picture dated in the far future that a page already holds stays there, and
  a host that stored one before hosts looked at dates keeps it against the
  summary exchange (`SlotsSettle` exempts it).
* The migration marker is kept per delegate, not per account: an account restored
  on a node whose previous account migrated is taken for migrated.
* A `Store` that the delegate refuses is only logged (`ui/src/api.rs:1405-1407`):
  a created or restored account is on the screen and gone at the next load, and a
  probe ends without its warning although a value was not carried. Nor does the
  answer to a `Delete` say whether the secret is gone.
* The comments on the inbox's `canonicalize` call it "a pure function of the
  pointer SET" of which "merge order cannot change the outcome" and say that
  "Verified is never crowded out by anonymous"
  (`inbox-contract/src/state.rs:631-639`). Neither holds for pointers at one reply:
  any key may sign one at another's reply with an earlier time, which replaces the
  verified one, and two peers may keep different ones. The comment inside
  (`642-647`) has such pointers in mind only for validity, which does hold
  (`InboxStatesValid`).
* A carried-forward setting of an old delegate may arrive after the user changed
  it and overwrite the newer value (`ProbeCarriesAll` asks that a value be there,
  not which).
* A write on the wire from the migration and one by the owner can both carry
  version 1; the content hash decides (`LegacyNeverReverts` exempts that tie). A
  follow list edited before the legacy list arrived loses the legacy followees
  (`FollowsKept` exempts it).
* The placeholder of a failed GET strands an author in the thread, author and
  followers views and for the follows effect; only the Discover tab retries. A
  thread whose root exists only in the legacy feed stays loading.
* The legacy mirrors keep the first arrival among replies to one post, and a
  directory winner that was evicted is forgotten: what they show can depend on
  the order of arrival (`VerifiedStays` states what does not).
* Verified before the own feed is loaded, the page stores no attestation locally
  and the refresh may list the author anonymously until the next one.
* A vault that never answers leaves the box waiting until the page is left.
* Destroying an account leaves the listing preference: the next account of the
  node is listed unasked. The startup answer about that preference, arriving
  late, overrides a toggle made meanwhile (`HearSetting` does it).

---------------------------- MODULE PageProofs -----------------------------
(***************************************************************************)
(* What the page reads of others: the single-record contracts, for any     *)
(* number of hosts, authors and records, any clocks and any addresses; and *)
(* its mirrors of the previous generation, for any deliveries and caps.    *)
(***************************************************************************)
EXTENDS Slots, Mirrors, CappedLogTheorems, FunctionTheorems, TLAPS

-----------------------------------------------------------------------------
(* The inductive invariant *)

\* What a host stores passed the checks, the far future's picture included.
StoredChecked == \A h \in Host : slot[h] # None => check(slot[h])

\* Only the page of the profile picture hears of the legacy one.
LegacyIsAvatar == LEGACY_AVATARS # None => topic = "avatar"

SlotsInv == SlotsTypeOK /\ StoredChecked /\ LegacyIsAvatar /\ CachesAreNewest /\ FetchedGoHome

-----------------------------------------------------------------------------
(* Records *)

\* The fields of a record.
LEMMA Fields ==
  ASSUME NEW t \in Topic, NEW r \in Signed(t)
  PROVE  /\ r # None /\ r.time \in Nat /\ r.hash \in Nat /\ r.ok \in BOOLEAN
         /\ t = "control" => r.body \in Nat \cup {None}
         /\ t = "anchor" /\ r.body # None =>
              \A role \in Role : r.body[role] = None \/ r.body[role].address \in Address
<1>1. t # "avatar" => r \in Record[t]
  BY DEF Signed
<1>2. QED BY <1>1, SlotsAssumption

\* Records are ordered by time, then content hash; two that pass the checks
\* and are not ordered are one.
LEMMA OrderKey ==
  ASSUME NEW t \in Topic, NEW r \in Signed(t), NEW s \in Signed(t)
  PROVE  /\ ~order_key(r, r)
         /\ order_key(r, s) => ~order_key(s, r)
         /\ \A u \in Signed(t) : order_key(r, s) /\ ~order_key(u, s) => ~order_key(u, r)
         /\ check(r) /\ check(s) /\ ~order_key(r, s) /\ ~order_key(s, r) => r = s
<1>1. \A u \in Signed(t) : u.time \in Nat /\ u.hash \in Nat
  BY Fields
<1>2. r.ok /\ s.ok /\ r.time = s.time /\ r.hash = s.hash => r = s
  BY SlotsAssumption
<1>3. QED BY <1>1, <1>2 DEF order_key, check

-----------------------------------------------------------------------------
(* The hosts *)

\* What a host makes of a record is the record or what it held, and checked.
LEMMA HostStores ==
  ASSUME SlotsTypeOK, StoredChecked, NEW h \in Host, NEW r \in Signed(topic)
  PROVE  LET new == update_state(h, r)
         IN  new \in Signed(topic) \cup {None} /\ (new # None => check(new))
<1> DEFINE held == slot[h]
           now == clock[h]
<1>1. held \in Signed(topic) \cup {None} /\ (held # None => check(held))
  BY DEF SlotsTypeOK, StoredChecked
<1>2. update_state(h, r) = IF topic = "avatar" THEN update_at(held, r, now) ELSE cell_merge(held, r)
  BY DEF update_state
<1> HIDE DEF held, now
<1>3. /\ update_at(held, r, now) \in {held, r, None}
      /\ update_at(held, r, now) = r => check(r) \/ r = held \/ r = None
  BY DEF update_at
<1>4. cell_merge(held, r) \in {held, r} /\ (cell_merge(held, r) = r => check(r) \/ r = held)
  BY DEF cell_merge
<1>5. QED BY <1>1, <1>2, <1>3, <1>4

\* A host stores what it makes of a record.
LEMMA StoreKeeps ==
  ASSUME SlotsInv, NEW h \in Host, NEW r \in Signed(topic), Store(h, update_state(h, r))
  PROVE  SlotsInv'
<1> DEFINE new == update_state(h, r)
<1>1. new \in Signed(topic) \cup {None} /\ (new # None => check(new))
  BY HostStores DEF SlotsInv
<1>2. /\ slot' = [slot EXCEPT ![h] = new]
      /\ UNCHANGED <<topic, sent, clock, cache, heard, LEGACY_AVATARS, uploaded, started,
                     TRACKED, fetched>>
  BY DEF Store
<1> HIDE DEF new
<1>3. SlotsTypeOK' /\ StoredChecked'
  BY <1>1, <1>2 DEF SlotsInv, SlotsTypeOK, StoredChecked
<1>4. LegacyIsAvatar' /\ CachesAreNewest' /\ FetchedGoHome'
  BY <1>2 DEF SlotsInv, LegacyIsAvatar, CachesAreNewest, FetchedGoHome
<1>5. QED BY <1>3, <1>4 DEF SlotsInv

-----------------------------------------------------------------------------
(* The page *)

\* The addresses of an author that was fetched stay routed to that author.
LEMMA StayHome ==
  ASSUME FetchedGoHome, fetched' = fetched,
         \A a \in fetched : \A role \in {"feed", "inbox"} :
           TRACKED'[derived(a, role)] = TRACKED[derived(a, role)]
  PROVE  FetchedGoHome'
BY DEF FetchedGoHome

\* The address of a role of an author is one address, and that pair's only.
LEMMA Addresses ==
  ASSUME NEW a \in Shown, NEW role \in Role
  PROVE  /\ derived(a, role) \in Address
         /\ \A b \in Shown, other \in Role : derived(a, role) = derived(b, other) => a = b /\ role = other
         /\ <<role, a>> \in Role \X Shown /\ <<role, a>> # None
BY SlotsAssumption DEF derived, Address

\* A feed and its inbox are fetched.
LEMMA FetchFeedKeeps ==
  ASSUME SlotsInv, NEW a \in Shown, fetch_feed(a)
  PROVE  SlotsInv'
<1> DEFINE f == <<"feed", a>>
           i == <<"inbox", a>>
<1>1. /\ "feed" \in Role /\ "inbox" \in Role
      /\ derived(a, "feed") \in Address /\ derived(a, "inbox") \in Address
      /\ derived(a, "feed") # derived(a, "inbox")
      /\ f \in Role \X Shown /\ i \in Role \X Shown
  BY Addresses DEF Role
<1>2. /\ fetched' = fetched \cup {a}
      /\ TRACKED' = [TRACKED EXCEPT ![derived(a, "feed")] = f, ![derived(a, "inbox")] = i]
      /\ UNCHANGED <<topic, sent, slot, clock, cache, heard, LEGACY_AVATARS, uploaded, started>>
  BY DEF fetch_feed
<1>3. SlotsTypeOK /\ StoredChecked /\ LegacyIsAvatar /\ CachesAreNewest /\ FetchedGoHome
  BY DEF SlotsInv
<1>4. SlotsTypeOK'
  <2> HIDE DEF f, i
  <2> QED BY <1>1, <1>2, <1>3 DEF SlotsTypeOK
<1>5. FetchedGoHome'
  <2> SUFFICES ASSUME NEW b \in fetched', NEW role \in {"feed", "inbox"}
               PROVE  TRACKED'[derived(b, role)] = <<role, b>>
    BY DEF FetchedGoHome
  <2>1. TRACKED \in [Address -> (Role \X Shown) \cup {None}] /\ fetched \subseteq Shown
    BY <1>3 DEF SlotsTypeOK
  <2>2. CASE b = a
    BY <1>1, <1>2, <2>1, <2>2
  <2>3. CASE b # a
    <3>1. b \in fetched /\ b \in Shown
      BY <1>2, <2>1, <2>3
    <3>2. TRACKED[derived(b, role)] = <<role, b>>
      BY <1>3, <3>1 DEF FetchedGoHome
    <3>3. derived(b, role) # derived(a, "feed") /\ derived(b, role) # derived(a, "inbox")
      BY <2>3 DEF derived
    <3>4. derived(b, role) \in Address
      BY <3>1, Addresses DEF Role
    <3>5. TRACKED'[derived(b, role)] = TRACKED[derived(b, role)]
      <4> HIDE DEF f, i
      <4> QED BY <1>2, <2>1, <3>3, <3>4
    <3>6. QED BY <3>2, <3>5
  <2>4. QED BY <2>2, <2>3
<1>6. StoredChecked' /\ LegacyIsAvatar' /\ CachesAreNewest'
  BY <1>2, <1>3 DEF StoredChecked, LegacyIsAvatar, CachesAreNewest
<1>7. QED BY <1>4, <1>5, <1>6 DEF SlotsInv

\* Routing the address of somebody's picture disturbs no feed and no inbox.
LEMMA TrackAvatar ==
  ASSUME SlotsTypeOK, FetchedGoHome, NEW a \in Shown, fetched' = fetched,
         TRACKED' = [TRACKED EXCEPT ![derived(a, "avatar")] = <<"avatar", a>>]
  PROVE  TRACKED' \in [Address -> (Role \X Shown) \cup {None}] /\ FetchedGoHome'
<1> DEFINE v == <<"avatar", a>>
<1>1. v \in Role \X Shown /\ TRACKED \in [Address -> (Role \X Shown) \cup {None}]
  BY Addresses DEF Role, SlotsTypeOK
<1>2. \A b \in fetched : \A role \in {"feed", "inbox"} : derived(b, role) # derived(a, "avatar")
  BY DEF derived
<1>3. TRACKED' = [TRACKED EXCEPT ![derived(a, "avatar")] = v]
  OBVIOUS
<1> HIDE DEF v
<1>4. TRACKED' \in [Address -> (Role \X Shown) \cup {None}]
  BY <1>1, <1>3
<1>5. \A b \in fetched : \A role \in {"feed", "inbox"} : derived(b, role) \in Address
  BY Addresses DEF SlotsTypeOK, Role
<1>6. QED BY <1>1, <1>2, <1>3, <1>4, <1>5, StayHome

\* A picture is fetched.
LEMMA FetchAvatarKeeps ==
  ASSUME SlotsInv, NEW a \in Shown, fetch_avatar(a)
  PROVE  SlotsInv'
<1>1. /\ TRACKED' = [TRACKED EXCEPT ![derived(a, "avatar")] = <<"avatar", a>>]
      /\ UNCHANGED <<topic, sent, slot, clock, cache, heard, LEGACY_AVATARS, uploaded, started, fetched>>
  BY DEF fetch_avatar
<1>2. TRACKED' \in [Address -> (Role \X Shown) \cup {None}] /\ FetchedGoHome'
  BY <1>1, TrackAvatar DEF SlotsInv
<1>3. SlotsTypeOK'
  BY <1>1, <1>2 DEF SlotsInv, SlotsTypeOK
<1>4. StoredChecked' /\ LegacyIsAvatar' /\ CachesAreNewest'
  BY <1>1 DEF SlotsInv, StoredChecked, LegacyIsAvatar, CachesAreNewest
<1>5. QED BY <1>2, <1>3, <1>4 DEF SlotsInv

\* An anchor routes free addresses only, each to its author.
LEMMA AnchorRoutes ==
  ASSUME SlotsTypeOK, FetchedGoHome, NEW r \in Signed("anchor"), readable(r)
  PROVE  LET t == anchor_targets(Me, r.body)
         IN  /\ t \in [Address -> (Role \X Shown) \cup {None}]
             /\ \A x \in Address : TRACKED[x] # None => t[x] = TRACKED[x]
<1> DEFINE anchor == r.body
           Roles(x) == {role \in Role : claims(Me, role, anchor) /\ anchor[role].address = x}
           Last(x) == CHOOSE role \in Roles(x) : Roles(x) \subseteq Before(role) \cup {role}
<1>1. TRACKED \in [Address -> (Role \X Shown) \cup {None}] /\ Me \in Shown
  BY SlotsAssumption DEF SlotsTypeOK
<1>2. \A x \in Address : TRACKED[x] # None => Roles(x) = {}
  BY DEF claims
<1>3. \A x \in Address : Roles(x) # {} => Last(x) \in Role
  <2> TAKE x \in Address
  <2> HAVE Roles(x) # {}
  <2>1. Roles(x) \subseteq {"inbox", "feed", "avatar"}
    BY DEF Role
  <2> HIDE DEF Roles
  <2>2. \E role \in Roles(x) : Roles(x) \subseteq Before(role) \cup {role}
    <3>1. Before("avatar") = {"inbox", "feed"} /\ Before("feed") = {"inbox"} /\ Before("inbox") = {}
      BY DEF Before
    <3>2. CASE "avatar" \in Roles(x)
      BY <2>1, <3>1, <3>2
    <3>3. CASE "avatar" \notin Roles(x) /\ "feed" \in Roles(x)
      BY <2>1, <3>1, <3>3
    <3>4. CASE "avatar" \notin Roles(x) /\ "feed" \notin Roles(x)
      <4>1. "inbox" \in Roles(x) /\ Roles(x) \subseteq {"inbox"}
        BY <2>1, <3>4
      <4>2. QED BY <3>1, <4>1
    <3>5. QED BY <3>2, <3>3, <3>4
  <2>3. Last(x) \in Roles(x)
    BY <2>2
  <2>4. QED BY <2>1, <2>3 DEF Role
<1>4. anchor_targets(Me, anchor) = [x \in Address |-> IF Roles(x) = {} THEN TRACKED[x] ELSE <<Last(x), Me>>]
  BY DEF anchor_targets
<1> HIDE DEF Roles, Last, anchor
<1>5. \A x \in Address : (IF Roles(x) = {} THEN TRACKED[x] ELSE <<Last(x), Me>>) \in (Role \X Shown) \cup {None}
  BY <1>1, <1>3
<1>6. QED BY <1>2, <1>4, <1>5 DEF anchor

\* The record the page takes is the newest of those it heard of.
LEMMA HearNewest ==
  ASSUME SlotsTypeOK, CachesAreNewest, NEW r \in Signed(topic), topic' = topic,
         heard' = heard \cup {r}, cache' = IF Accepts(r) THEN r ELSE cache
  PROVE  CachesAreNewest' /\ cache' \in Signed(topic) \cup {None}
<1> DEFINE known == {s \in heard : topic = "avatar" \/ readable(s)}
           known2 == {s \in heard' : topic = "avatar" \/ readable(s)}
<1>1. /\ topic \in Topic /\ heard \subseteq Signed(topic) /\ cache \in Signed(topic) \cup {None}
      /\ r # None /\ \A s \in heard : s # None
  BY Fields DEF SlotsTypeOK
<1>2. /\ known = {} => cache = None
      /\ known # {} => /\ cache \in known
                       /\ \A s \in known : IF topic = "control" THEN s.body <= cache.body ELSE ~order_key(s, cache)
  BY DEF CachesAreNewest
<1>3. known2 = known \cup (IF topic = "avatar" \/ readable(r) THEN {r} ELSE {})
  OBVIOUS
<1>4. (known = {} <=> cache = None) /\ known \subseteq Signed(topic)
  BY <1>1, <1>2
<1>5. CASE ~(topic = "avatar" \/ readable(r))
  <2>1. ~Accepts(r)
    BY <1>1, <1>5 DEF Accepts, Topic
  <2>2. known2 = known /\ cache' = cache
    BY <1>3, <1>5, <2>1
  <2>3. QED BY <1>1, <1>2, <2>2 DEF CachesAreNewest
<1>6. CASE topic = "control" /\ readable(r)
  <2>1. Accepts(r) <=> (cache = None \/ r.body > cache.body)
    BY <1>6 DEF Accepts
  <2>2. \A s \in known2 : s.body \in Nat
    BY <1>1, <1>6, Fields DEF readable
  <2> HIDE DEF known
  <2>3. known2 = known \cup {r}
    BY <1>3, <1>6
  <2> HIDE DEF known2
  <2>4. cache' \in known2 /\ \A s \in known2 : s.body <= cache'.body
    <3>1. CASE cache = None
      BY <1>4, <2>1, <2>2, <2>3, <3>1
    <3>2. CASE cache # None /\ r.body > cache.body
      BY <1>2, <1>4, <1>6, <2>1, <2>2, <2>3, <3>2
    <3>3. CASE cache # None /\ ~(r.body > cache.body)
      BY <1>2, <1>4, <1>6, <2>1, <2>2, <2>3, <3>3
    <3>4. QED BY <3>1, <3>2, <3>3
  <2>5. QED BY <1>1, <1>6, <2>4 DEF CachesAreNewest, known2
<1>7. CASE topic # "control" /\ (topic = "avatar" \/ readable(r))
  <2>1. Accepts(r) <=> newer(r, cache)
    BY <1>1, <1>7 DEF Accepts, Topic
  <2> HIDE DEF known
  <2>2. known2 = known \cup {r}
    BY <1>3, <1>7
  <2> HIDE DEF known2
  <2>3. cache' \in known2 /\ \A s \in known2 : ~order_key(s, cache')
    <3>1. CASE cache = None
      BY <1>1, <1>4, <2>1, <2>2, <3>1, OrderKey DEF newer
    <3>2. CASE cache # None /\ order_key(r, cache)
      <4>1. cache' = r
        BY <2>1, <3>2 DEF newer
      <4>2. cache \in Signed(topic) /\ cache \in known /\ \A s \in known : ~order_key(s, cache)
        BY <1>1, <1>2, <1>4, <1>7, <3>2
      <4>3. \A s \in known : ~order_key(s, r)
        BY <1>1, <1>4, <3>2, <4>2, OrderKey
      <4>4. ~order_key(r, r)
        BY <1>1, OrderKey
      <4>5. QED BY <2>2, <4>1, <4>3, <4>4
    <3>3. CASE cache # None /\ ~order_key(r, cache)
      BY <1>2, <1>4, <1>7, <2>1, <2>2, <3>3 DEF newer
    <3>4. QED BY <3>1, <3>2, <3>3
  <2>4. QED BY <1>1, <1>7, <2>3 DEF CachesAreNewest, known2
<1>8. QED BY <1>5, <1>6, <1>7

\* A record reaches the page.
LEMMA HearKeeps ==
  ASSUME SlotsInv, NEW r \in sent, apply_contract_bytes(r)
  PROVE  SlotsInv'
<1>1. /\ heard' = heard \cup {r} /\ cache' = IF Accepts(r) THEN r ELSE cache
      /\ TRACKED' = IF topic = "anchor" /\ Accepts(r) THEN anchor_targets(Me, r.body) ELSE TRACKED
      /\ UNCHANGED <<topic, sent, slot, clock, LEGACY_AVATARS, uploaded, started, fetched>>
  BY DEF apply_contract_bytes
<1>2. SlotsTypeOK /\ StoredChecked /\ LegacyIsAvatar /\ CachesAreNewest /\ FetchedGoHome
      /\ r \in Signed(topic)
  BY DEF SlotsInv, SlotsTypeOK
<1>3. CachesAreNewest' /\ cache' \in Signed(topic) \cup {None}
  BY <1>1, <1>2, HearNewest
<1>4. /\ TRACKED' \in [Address -> (Role \X Shown) \cup {None}]
      /\ \A x \in Address : TRACKED[x] # None => TRACKED'[x] = TRACKED[x]
  <2>1. CASE topic = "anchor" /\ Accepts(r)
    <3>1. readable(r)
      BY <2>1 DEF Accepts
    <3>2. QED BY <1>1, <1>2, <2>1, <3>1, AnchorRoutes
  <2>2. CASE ~(topic = "anchor" /\ Accepts(r))
    BY <1>1, <1>2, <2>2 DEF SlotsTypeOK
  <2>3. QED BY <2>1, <2>2
<1>5. FetchedGoHome'
  <2> SUFFICES ASSUME NEW a \in fetched, NEW role \in {"feed", "inbox"}
               PROVE  TRACKED'[derived(a, role)] = TRACKED[derived(a, role)]
    BY <1>1, <1>2, StayHome
  <2>1. a \in Shown /\ role \in Role
    BY <1>2 DEF SlotsTypeOK, Role
  <2>2. derived(a, role) \in Address /\ <<role, a>> # None
    BY <2>1, Addresses
  <2>3. TRACKED[derived(a, role)] = <<role, a>>
    BY <1>2 DEF FetchedGoHome
  <2>4. QED BY <1>4, <2>2, <2>3
<1>6. SlotsTypeOK'
  BY <1>1, <1>2, <1>3, <1>4 DEF SlotsTypeOK
<1>7. StoredChecked' /\ LegacyIsAvatar'
  BY <1>1, <1>2 DEF StoredChecked, LegacyIsAvatar
<1>8. QED BY <1>3, <1>5, <1>6, <1>7 DEF SlotsInv

\* The picture of the previous contract reaches the page.
LEMMA HearLegacyKeeps ==
  ASSUME SlotsInv, HearLegacyAvatar
  PROVE  SlotsInv'
<1>1. /\ topic = "avatar" /\ LEGACY_AVATARS' = Old
      /\ UNCHANGED <<topic, sent, slot, clock, cache, heard, uploaded, started, TRACKED, fetched>>
  BY DEF HearLegacyAvatar
<1>2. QED BY <1>1 DEF SlotsInv, SlotsTypeOK, StoredChecked, LegacyIsAvatar, CachesAreNewest, FetchedGoHome

\* A picture is uploaded: it is all the page has heard of since.
LEMMA PublishKeeps ==
  ASSUME SlotsInv, NEW r \in Upload, publish_avatar(r)
  PROVE  SlotsInv'
<1>1. /\ topic = "avatar" /\ uploaded' = TRUE /\ sent' = sent \cup {r}
      /\ cache' = r /\ heard' = {r}
      /\ TRACKED' = [TRACKED EXCEPT ![derived(Me, "avatar")] = <<"avatar", Me>>]
      /\ UNCHANGED <<topic, slot, clock, LEGACY_AVATARS, started, fetched>>
  BY DEF publish_avatar
<1>2. r \in Signed(topic) /\ Me \in Shown
  BY <1>1, SlotsAssumption DEF Signed
<1>3. TRACKED' \in [Address -> (Role \X Shown) \cup {None}] /\ FetchedGoHome'
  BY <1>1, <1>2, TrackAvatar DEF SlotsInv
<1>4. CachesAreNewest'
  <2>1. ~order_key(r, r)
    BY <1>2, OrderKey DEF SlotsInv, SlotsTypeOK
  <2>2. QED BY <1>1, <2>1 DEF CachesAreNewest
<1>5. SlotsTypeOK'
  BY <1>1, <1>2, <1>3 DEF SlotsInv, SlotsTypeOK
<1>6. StoredChecked' /\ LegacyIsAvatar'
  BY <1>1 DEF SlotsInv, StoredChecked, LegacyIsAvatar
<1>7. QED BY <1>3, <1>4, <1>5, <1>6 DEF SlotsInv

\* The legacy picture is signed anew: the page had heard of none.
LEMMA MigrateKeeps ==
  ASSUME SlotsInv, migrate_avatar
  PROVE  SlotsInv'
<1> DEFINE r == LEGACY_AVATARS
<1>1. /\ topic = "avatar" /\ cache = None /\ r # None
      /\ started' = TRUE /\ sent' = sent \cup {r} /\ cache' = r /\ heard' = heard \cup {r}
      /\ UNCHANGED <<topic, slot, clock, LEGACY_AVATARS, uploaded, TRACKED, fetched>>
  BY DEF migrate_avatar
<1>2. SlotsTypeOK /\ StoredChecked /\ LegacyIsAvatar /\ CachesAreNewest /\ FetchedGoHome
  BY DEF SlotsInv
<1>3. r = Old /\ r \in Signed(topic)
  BY <1>1, <1>2 DEF SlotsTypeOK, Signed
<1>4. CachesAreNewest'
  <2>1. Accepts(r)
    BY <1>1 DEF Accepts, newer
  <2>2. QED
    <3> HIDE DEF r
    <3> QED BY <1>1, <1>2, <1>3, <2>1, HearNewest
<1>5. SlotsTypeOK'
  BY <1>1, <1>2, <1>3 DEF SlotsTypeOK
<1>6. StoredChecked' /\ LegacyIsAvatar' /\ FetchedGoHome'
  BY <1>1, <1>2 DEF StoredChecked, LegacyIsAvatar, FetchedGoHome
<1>7. QED BY <1>4, <1>5, <1>6 DEF SlotsInv

-----------------------------------------------------------------------------
(* The invariant *)

\* At first hosts have nothing, or the picture of the far future.
LEMMA SlotsInvInit == SlotsInit => SlotsInv
<1> SUFFICES ASSUME SlotsInit PROVE SlotsInv
  OBVIOUS
<1>1. /\ topic \in Topic
      /\ sent = Record[topic] \cup (IF topic = "avatar" THEN {Poison} ELSE {})
      /\ slot \in [Host -> {None} \cup IF topic = "avatar" THEN {Poison} ELSE {}]
      /\ clock \in [Host -> 0..MaxClock]
      /\ cache = None /\ heard = {} /\ LEGACY_AVATARS = None
      /\ uploaded = FALSE /\ started = FALSE
      /\ TRACKED = [x \in Address |-> None] /\ fetched = {}
  BY DEF SlotsInit
<1>2. sent \subseteq Signed(topic) /\ slot \in [Host -> Signed(topic) \cup {None}]
  BY <1>1 DEF Signed
<1>3. SlotsTypeOK
  BY <1>1, <1>2 DEF SlotsTypeOK
<1>4. StoredChecked
  BY <1>1, SlotsAssumption DEF StoredChecked, check
<1>5. LegacyIsAvatar /\ CachesAreNewest /\ FetchedGoHome
  BY <1>1 DEF LegacyIsAvatar, CachesAreNewest, FetchedGoHome
<1>6. QED BY <1>3, <1>4, <1>5 DEF SlotsInv

\* Every step keeps the invariant.
LEMMA SlotsInvStep == SlotsInv /\ [SlotsNext]_slotsVars => SlotsInv'
<1> SUFFICES ASSUME SlotsInv, [SlotsNext]_slotsVars PROVE SlotsInv'
  OBVIOUS
<1>1. ASSUME NEW h \in Host, HostUpdate(h) PROVE SlotsInv'
  <2>1. PICK r \in sent : Store(h, update_state(h, r))
    BY <1>1 DEF HostUpdate
  <2>2. r \in Signed(topic)
    BY <2>1 DEF SlotsInv, SlotsTypeOK
  <2>3. QED BY <2>1, <2>2, StoreKeeps
<1>2. ASSUME NEW g \in Host, NEW h \in Host, HostSync(g, h) PROVE SlotsInv'
  <2>1. PICK r \in get_state_delta(g, h) : Store(h, update_state(h, r))
    BY <1>2 DEF HostSync
  <2>2. r \in Signed(topic)
    BY <2>1 DEF SlotsInv, SlotsTypeOK, get_state_delta
  <2>3. QED BY <2>1, <2>2, StoreKeeps
<1>3. ASSUME NEW h \in Host, Tick(h) PROVE SlotsInv'
  <2>1. /\ clock' = [clock EXCEPT ![h] = clock[h] + 1] /\ clock[h] < MaxClock
        /\ UNCHANGED <<topic, sent, slot, cache, heard, LEGACY_AVATARS, uploaded, started, TRACKED, fetched>>
    BY <1>3 DEF Tick
  <2>2. clock' \in [Host -> 0..MaxClock]
    BY <2>1, SlotsAssumption DEF SlotsInv, SlotsTypeOK
  <2>3. QED
    BY <2>1, <2>2
    DEF SlotsInv, SlotsTypeOK, StoredChecked, LegacyIsAvatar, CachesAreNewest, FetchedGoHome
<1>4. ASSUME NEW a \in Shown, fetch_feed(a) \/ fetch_avatar(a) PROVE SlotsInv'
  BY <1>4, FetchFeedKeeps, FetchAvatarKeeps
<1>5. ASSUME NEW r \in sent, apply_contract_bytes(r) PROVE SlotsInv'
  BY <1>5, HearKeeps
<1>6. CASE HearLegacyAvatar
  BY <1>6, HearLegacyKeeps
<1>7. ASSUME NEW r \in Upload, publish_avatar(r) PROVE SlotsInv'
  BY <1>7, PublishKeeps
<1>8. CASE migrate_avatar
  BY <1>8, MigrateKeeps
<1>9. CASE UNCHANGED slotsVars
  BY <1>9 DEF slotsVars, SlotsInv, SlotsTypeOK, StoredChecked, LegacyIsAvatar, CachesAreNewest,
              FetchedGoHome
<1>10. QED BY <1>1, <1>2, <1>3, <1>4, <1>5, <1>6, <1>7, <1>8, <1>9 DEF SlotsNext

\* The invariant holds in every state of every run.
LEMMA SlotsInvHolds == SlotsSpec => []SlotsInv
BY SlotsInvInit, SlotsInvStep, PTL DEF SlotsSpec

-----------------------------------------------------------------------------
(* The results *)

\* Every variable keeps its type: hosts and page hold records of the topic, and
\* an address is tracked as one role of one author.
THEOREM SlotsTypes == SlotsSpec => []SlotsTypeOK
<1>1. SlotsInv => SlotsTypeOK
  BY DEF SlotsInv
<1>2. QED BY <1>1, SlotsInvHolds, PTL

\* Whatever the order in which the page hears pictures, anchors and control
\* records, it has the newest it can read.
THEOREM CachesAreNewestHolds == SlotsSpec => []CachesAreNewest
<1>1. SlotsInv => CachesAreNewest
  BY DEF SlotsInv
<1>2. QED BY <1>1, SlotsInvHolds, PTL

\* The addresses of an author that was fetched stay routed to that author,
\* whatever other authors' anchors name.
THEOREM FetchedGoHomeHolds == SlotsSpec => []FetchedGoHome
<1>1. SlotsInv => FetchedGoHome
  BY DEF SlotsInv
<1>2. QED BY <1>1, SlotsInvHolds, PTL

\* A host that is offered a record it can date takes it, if it is the newer one.
LEMMA Meets ==
  ASSUME SlotsInv, NEW g \in Host, NEW h \in Host,
         topic = "avatar" =>
           /\ slot[g] # None => InTime(slot[g], clock[h])
           /\ slot[h] # None => InTime(slot[h], clock[h])
  PROVE  (IF get_state_delta(g, h) = {} THEN slot[h] ELSE update_state(h, slot[g]))
           = IF slot[g] # None /\ newer(slot[g], slot[h]) THEN slot[g] ELSE slot[h]
<1> DEFINE x == slot[g]
           y == slot[h]
           now == clock[h]
<1>1. /\ x # None => check(x)
      /\ topic = "avatar" => (x # None => InTime(x, now)) /\ (y # None => InTime(y, now))
  BY DEF SlotsInv, StoredChecked
<1>2. /\ get_state_delta(g, h) = IF x # None /\ newer(x, y) THEN {x} ELSE {}
      /\ update_state(h, x) = IF topic = "avatar" THEN update_at(y, x, now) ELSE cell_merge(y, x)
  BY DEF get_state_delta, update_state
<1> HIDE DEF x, y, now
<1>3. x # None /\ newer(x, y) /\ topic = "avatar" => update_at(y, x, now) = x
  <2> SUFFICES ASSUME x # None, newer(x, y), topic = "avatar" PROVE update_at(y, x, now) = x
    OBVIOUS
  <2>1. InTime(x, now) /\ check(x)
    BY <1>1
  <2>2. (IF y # None /\ InTime(y, now) THEN y ELSE None) = y
    BY <1>1
  <2>3. QED BY <2>1, <2>2 DEF update_at
<1>4. x # None /\ newer(x, y) => cell_merge(y, x) = x
  BY <1>1 DEF cell_merge
<1>5. (IF get_state_delta(g, h) = {} THEN y ELSE update_state(h, x))
        = IF x # None /\ newer(x, y) THEN x ELSE y
  BY <1>2, <1>3, <1>4
<1>6. QED BY <1>5 DEF x, y

\* One exchange in both directions makes two hosts agree on a record that
\* neither of their clocks calls far future.
THEOREM SlotsSettleHolds == SlotsSpec => []SlotsSettle
<1>1. SlotsInv => SlotsSettle
  <2> DEFINE Met(x, y) == IF get_state_delta(x, y) = {} THEN slot[y] ELSE update_state(y, slot[x])
             Best(r, s) == IF r # None /\ newer(r, s) THEN r ELSE s
  <2> SUFFICES ASSUME SlotsInv, NEW g \in Host, NEW h \in Host,
                      \A r \in {slot[g], slot[h]} \ {None} :
                        topic # "avatar" \/ (InTime(r, clock[g]) /\ InTime(r, clock[h]))
               PROVE  Met(g, h) = Met(h, g)
    BY DEF SlotsSettle
  <2>1. Met(g, h) = Best(slot[g], slot[h]) /\ Met(h, g) = Best(slot[h], slot[g])
    BY Meets
  <2>2. /\ topic \in Topic
        /\ slot[g] # None => slot[g] \in Signed(topic) /\ check(slot[g])
        /\ slot[h] # None => slot[h] \in Signed(topic) /\ check(slot[h])
    BY DEF SlotsInv, SlotsTypeOK, StoredChecked
  <2> DEFINE x == slot[g]
             y == slot[h]
  <2>3. x # None /\ y # None =>
          /\ order_key(x, y) => ~order_key(y, x)
          /\ ~order_key(x, y) /\ ~order_key(y, x) => x = y
    BY <2>2, OrderKey
  <2>4. Best(x, y) = Best(y, x)
    <3> HIDE DEF x, y
    <3> QED BY <2>3 DEF newer
  <2>5. QED BY <2>1, <2>4
<1>2. QED BY <1>1, SlotsInvHolds, PTL

-----------------------------------------------------------------------------
(* The mirrors: the directory *)

\* The listings and credentials that pass the checks, and all pointers.
Checked(S) == {x \in S : x.ok}
Delivered == UNION {pointers_of(d) : d \in InboxDelivery}

OneEach(cs) == \A c, d \in cs : c.key = d.key => c = d
OneReply(S) == \A p, q \in S : p.reply = q.reply => p = q
Matches(cs, p) == \E c \in CredOf(cs, p.replier) : c.fp = p.fp

(***************************************************************************)
(* What is shown was delivered and passed the checks; a key has one        *)
(* credential, a reply one pointer, and a pointer its credential.          *)
(***************************************************************************)
ListingsInv ==
  /\ delivered \in [listings : SUBSET Checked(Listing), creds : SUBSET Checked(Credential)]
  /\ LEGACY_DIRECTORY \subseteq delivered.listings /\ IsFiniteSet(LEGACY_DIRECTORY)

PointersInv ==
  /\ creds \subseteq delivered.creds /\ OneEach(creds)
  /\ pointers \subseteq Delivered /\ IsFiniteSet(pointers) /\ OneReply(pointers)
  /\ \A p \in pointers : Matches(creds, p)

MirrorsInv == ListingsInv /\ PointersInv

\* The caps and the fields of a listing.
LEMMA ListingFields ==
  /\ LEGACY_MAX_LISTINGS \in Nat
  /\ \A l \in Listing : /\ l.author \in Nat /\ l.time \in Nat /\ l.hash \in Nat
                        /\ l.attested \in BOOLEAN /\ l.ok \in BOOLEAN
BY MirrorsAssumption

\* The winners of an author's listings, one each, are in an order of eviction.
LEMMA ActivityOrders ==
  ASSUME NEW W \in SUBSET Checked(Listing),
         \A l, m \in W : m.author = l.author => ~lww_key(l, m)
  PROVE  StrictTotalOrder(Activity, W)
<1>1. \A l, m \in W : <<l, m>> \in Activity
        <=> l.time < m.time \/ (l.time = m.time /\ l.author < m.author)
  BY DEF Activity, Checked
<1>2. \A l, m \in W : l.author = m.author /\ l.time = m.time => l = m
  <2> SUFFICES ASSUME NEW l \in W, NEW m \in W, l.author = m.author, l.time = m.time
               PROVE  l = m
    OBVIOUS
  <2>1. ~lww_key(l, m) /\ ~lww_key(m, l)
    OBVIOUS
  <2>2. l.attested = m.attested
    BY <2>1, ListingFields DEF lww_key, Checked
  <2>3. l.hash = m.hash
    BY <2>1, <2>2, ListingFields DEF lww_key, Checked
  <2>4. <<l.author, l.time, l.attested, l.hash>> = <<m.author, m.time, m.attested, m.hash>>
    BY <2>2, <2>3
  <2>5. QED BY <2>4, MirrorsAssumption DEF Checked
<1>3. \A l \in W : l.time \in Nat /\ l.author \in Nat
  BY ListingFields DEF Checked
<1>4. \A x \in W : <<x, x>> \notin Activity
  BY <1>1, <1>3
<1>5. ASSUME NEW x \in W, NEW y \in W, <<x, y>> \notin Activity, <<y, x>> \notin Activity
      PROVE  x = y
  <2>1. \A m, n \in Nat : ~(m < n) /\ ~(n < m) => m = n
    OBVIOUS
  <2>2. ~(x.time < y.time) /\ ~(y.time < x.time)
    BY <1>1, <1>5
  <2>3. x.time = y.time
    BY <1>3, <2>1, <2>2
  <2>4. ~(x.author < y.author) /\ ~(y.author < x.author)
    BY <1>1, <1>5, <2>3
  <2>5. x.author = y.author
    BY <1>3, <2>1, <2>4
  <2>6. QED BY <1>2, <2>3, <2>5
<1>6. \A x, y, z \in W : <<x, y>> \in Activity /\ <<y, z>> \in Activity => <<x, z>> \in Activity
  BY <1>1, <1>3
<1>7. QED BY <1>4, <1>5, <1>6 DEF StrictTotalOrder

\* What leaves a log does so for as many newer ones as the log keeps.
LEMMA CutLeaves ==
  ASSUME NEW R, NEW S, StrictTotalOrder(R, S), NEW k \in Nat, IsFiniteSet(S),
         NEW T \in SUBSET S, NEW x \in T, x \notin Newest(R, k, T),
         NEW H, IsFiniteSet(H), Newer(R, Newest(R, k, T), x) \subseteq H
  PROVE  k <= Cardinality(H)
<1>1. IsFiniteSet(T) /\ ~(Cardinality(Newer(R, T, x)) < k)
  BY FS_Subset DEF Newest
<1>2. ~(Cardinality(Newer(R, Newest(R, k, T), x)) < k)
  BY <1>1, NewestPushesOut
<1>3. Cardinality(Newer(R, Newest(R, k, T), x)) <= Cardinality(H)
  BY FS_Subset
<1>4. IsFiniteSet(Newer(R, Newest(R, k, T), x))
  BY FS_Subset
<1>5. QED BY <1>2, <1>3, <1>4, FS_CardinalityType

\* A delivery leaves winners, of what was held and delivered, and an attested
\* listing goes only for a newer one of its author or for a full directory.
LEMMA MergeListings ==
  ASSUME NEW held \in SUBSET Checked(Listing), IsFiniteSet(held),
         NEW d \in DirectoryDelivery, NEW new, new = merge_listings(held, d)
  PROVE  /\ new \subseteq held \cup Checked(d) /\ IsFiniteSet(new)
         /\ \A l \in held \ new : l.attested =>
              \/ \E m \in held \cup Checked(d) : m.author = l.author /\ lww_key(l, m)
              \/ LEGACY_MAX_LISTINGS <= Cardinality({m \in new : m.attested /\ <<l, m>> \in Activity})
<1> DEFINE all == held \cup Checked(d)
           W == {l \in all : \A m \in all : m.author = l.author => ~lww_key(l, m)}
           A == W \ AnonL(W)
           K == Newest(Activity, LEGACY_MAX_LISTINGS, A)
           B == Newest(Activity, LEGACY_ANON_LISTINGS, AnonL(W))
           N == Newest(Activity, LEGACY_MAX_LISTINGS - Cardinality(K), B)
<1>1. new = K \cup N
  BY DEF merge_listings, canonicalize_listings, tiered, Checked
<1>2. all \in SUBSET Checked(Listing) /\ IsFiniteSet(all)
  <2>1. d \in SUBSET Listing /\ IsFiniteSet(d) /\ Checked(d) \in SUBSET d
    BY MirrorsAssumption DEF Checked
  <2>2. IsFiniteSet(Checked(d))
    BY <2>1, FS_Subset
  <2>3. IsFiniteSet(all)
    BY <2>2, FS_Union
  <2>4. QED BY <2>1, <2>3 DEF Checked
<1>3. W \in SUBSET all /\ W \in SUBSET Checked(Listing) /\ IsFiniteSet(W)
  BY <1>2, FS_Subset
<1>4. StrictTotalOrder(Activity, W)
  <2>1. \A l, m \in W : m.author = l.author => ~lww_key(l, m)
    OBVIOUS
  <2> HIDE DEF W
  <2>2. QED BY <1>3, <2>1, ActivityOrders
<1>5. K \in SUBSET A /\ A \in SUBSET W /\ N \in SUBSET W
  BY DEF Newest, AnonL
<1>6. new \subseteq all /\ IsFiniteSet(new)
  <2>1. new \in SUBSET W
    BY <1>1, <1>5
  <2>2. QED BY <1>3, <2>1, FS_Subset
<1>7. ASSUME NEW l \in held \ new, l.attested, l \in W
      PROVE  LEGACY_MAX_LISTINGS <= Cardinality({m \in new : m.attested /\ <<l, m>> \in Activity})
  <2> DEFINE H == {m \in new : m.attested /\ <<l, m>> \in Activity}
  <2>1. l \in A /\ l \notin K
    BY <1>1, <1>7 DEF AnonL
  <2>2. \A m \in A : m.attested
    BY DEF AnonL
  <2>3. H \in SUBSET new
    OBVIOUS
  <2>4. IsFiniteSet(H)
    BY <1>6, <2>3, FS_Subset
  <2>5. Newer(Activity, K, l) \subseteq H
    <3> HIDE DEF K, A
    <3> QED BY <1>1, <1>5, <2>2 DEF Newer
  <2> HIDE DEF H, A
  <2>6. LEGACY_MAX_LISTINGS \in Nat
    BY ListingFields
  <2>7. LEGACY_MAX_LISTINGS <= Cardinality(H)
    <3> HIDE DEF W
    <3> QED BY <1>3, <1>4, <1>5, <2>1, <2>4, <2>5, <2>6, CutLeaves
  <2>8. QED BY <2>7 DEF H
<1>8. \A l \in held \ new : l \in W \/ \E m \in all : m.author = l.author /\ lww_key(l, m)
  OBVIOUS
<1>9. QED BY <1>6, <1>7, <1>8

-----------------------------------------------------------------------------
(* The mirrors: an inbox *)

\* The caps, and the fields of pointers and credentials.
LEMMA PointerFields ==
  /\ LEGACY_MAX_POINTERS \in Nat /\ LEGACY_MAX_PER_FINGERPRINT \in Nat
  /\ \A p \in Delivered : p.time \in Nat /\ p.reply \in Nat
  /\ \A c \in Credential : c.hash \in Nat
BY MirrorsAssumption DEF Delivered

\* Pointers at different replies are in an order.
LEMMA AgeOrders ==
  ASSUME NEW S \in SUBSET Delivered, OneReply(S)
  PROVE  StrictTotalOrder(PointerAge(S), S)
<1>1. \A p, q \in S : <<p, q>> \in PointerAge(S)
        <=> p.time < q.time \/ (p.time = q.time /\ p.reply < q.reply)
  BY DEF PointerAge
<1>2. \A p \in S : p.time \in Nat /\ p.reply \in Nat
  BY PointerFields
<1>3. \A p, q \in S : p.reply = q.reply => p = q
  BY DEF OneReply
<1> DEFINE R == PointerAge(S)
<1> HIDE DEF R
<1>4. \A x \in S : <<x, x>> \notin R
  BY <1>1, <1>2 DEF R
<1>5. ASSUME NEW x \in S, NEW y \in S, <<x, y>> \notin R, <<y, x>> \notin R
      PROVE  x = y
  <2>1. \A m, n \in Nat : ~(m < n) /\ ~(n < m) => m = n
    OBVIOUS
  <2>2. ~(x.time < y.time) /\ ~(y.time < x.time)
    BY <1>1, <1>5 DEF R
  <2>3. x.time = y.time
    BY <1>2, <2>1, <2>2
  <2>4. ~(x.reply < y.reply) /\ ~(y.reply < x.reply)
    BY <1>1, <1>5, <2>3 DEF R
  <2>5. x.reply = y.reply
    BY <1>2, <2>1, <2>4
  <2>6. QED BY <1>3, <2>5
<1>6. \A x, y, z \in S : <<x, y>> \in R /\ <<y, z>> \in R => <<x, z>> \in R
  BY <1>1, <1>2 DEF R
<1>7. QED BY <1>4, <1>5, <1>6 DEF StrictTotalOrder, R

\* A key keeps one credential, of those held and delivered, and a held one
\* goes for one of a greater hash.
LEMMA MergeCreds ==
  ASSUME NEW held \in SUBSET Checked(Credential), NEW incoming \in SUBSET Credential,
         NEW cs, cs = merge_creds(held, incoming)
  PROVE  /\ cs \subseteq held \cup Checked(incoming) /\ OneEach(cs)
         /\ \A c \in held \ cs : \E e \in CredOf(held \cup Checked(incoming), c.key) :
                                   content_hash(c) < content_hash(e)
<1> DEFINE all == held \cup Checked(incoming)
<1>1. cs = {c \in all : \A d \in CredOf(all, c.key) : d.hash <= c.hash}
  BY DEF merge_creds, Checked, content_hash
<1>2. all \in SUBSET Checked(Credential)
  BY DEF Checked
<1> HIDE DEF all
<1>3. \A c \in all : c.hash \in Nat /\ c.ok /\ c \in Credential
  BY <1>2, PointerFields DEF Checked
<1>4. OneEach(cs)
  <2> SUFFICES ASSUME NEW c \in cs, NEW d \in cs, c.key = d.key PROVE c = d
    BY DEF OneEach
  <2>1. c \in all /\ d \in all /\ d.hash <= c.hash /\ c.hash <= d.hash
    BY <1>1 DEF CredOf
  <2>2. c.hash = d.hash
    BY <1>3, <2>1
  <2>3. QED BY <1>3, <2>1, <2>2, MirrorsAssumption
<1>5. ASSUME NEW c \in held \ cs
      PROVE  \E e \in CredOf(all, c.key) : content_hash(c) < content_hash(e)
  <2>1. c \in all
    BY DEF all
  <2>2. PICK e \in CredOf(all, c.key) : ~(e.hash <= c.hash)
    BY <1>1, <1>5, <2>1
  <2>3. e \in all
    BY <2>2 DEF CredOf
  <2>4. c.hash < e.hash
    BY <1>3, <2>1, <2>2, <2>3
  <2>5. QED BY <2>2, <2>4 DEF content_hash
<1>6. QED BY <1>1, <1>4, <1>5 DEF all

\* The pointers of a delivery are finitely many.
LEMMA DeliveryFinite ==
  ASSUME NEW d \in InboxDelivery
  PROVE  IsFiniteSet(pointers_of(d))
<1> DEFINE ps == d.pointers
           S  == pointers_of(d)
<1>1. ps \in Seq(S)
  BY MirrorsAssumption
<1>2. S = {ps[i] : i \in DOMAIN ps}
  BY DEF pointers_of
<1> HIDE DEF ps, S
<1>3. ps \in [1..Len(ps) -> S] /\ DOMAIN ps = 1..Len(ps) /\ Len(ps) \in Nat
  BY <1>1
<1>4. \A s \in S : \E i \in 1..Len(ps) : ps[i] = s
  BY <1>2, <1>3
<1>5. ps \in Surjection(1..Len(ps), S)
  BY <1>3, <1>4, Fun_IsSurj
<1>6. IsFiniteSet(1..Len(ps))
  BY <1>3, FS_Interval
<1>7. IsFiniteSet(S)
  BY <1>5, <1>6, FS_Surjection
<1>8. QED BY <1>7 DEF S

\* S is what was held, joined by pointers that match their credential, one
\* a reply.
SeatedWell(cs, held, S) ==
  /\ S \in SUBSET Delivered /\ IsFiniteSet(S) /\ OneReply(S)
  /\ held \subseteq S /\ \A p \in S \ held : Matches(cs, p)

\* What a delivery seats joins what was held so.
LEMMA Seats ==
  ASSUME NEW cs, NEW held \in SUBSET Delivered, IsFiniteSet(held), OneReply(held),
         NEW d \in InboxDelivery
  PROVE  SeatedWell(cs, held, seat(cs, held, d.pointers))
<1> DEFINE S == seat(cs, held, d.pointers)
           ps == d.pointers
           first(i) == /\ seatable(cs, ps[i])
                       /\ \A h \in held : h.reply # ps[i].reply
                       /\ \A j \in 1..i-1 : ps[j].reply = ps[i].reply => ~seatable(cs, ps[j])
           F == {i \in DOMAIN ps : first(i)}
           new == {ps[i] : i \in F}
<1>1. S = held \cup new
  BY DEF seat
<1>2. new \in SUBSET pointers_of(d)
  BY DEF pointers_of
<1>3. DOMAIN ps = 1..Len(ps) /\ Len(ps) \in Nat
  BY MirrorsAssumption
<1>4. \A i \in F : /\ i \in DOMAIN ps /\ seatable(cs, ps[i])
                   /\ \A h \in held : h.reply # ps[i].reply
                   /\ \A j \in 1..i-1 : ps[j].reply = ps[i].reply => ~seatable(cs, ps[j])
  OBVIOUS
<1>5. \A p \in new : \E i \in F : p = ps[i]
  OBVIOUS
<1> HIDE DEF F, S
<1>6. \A i, j \in F : ps[i].reply = ps[j].reply => i = j
  <2> SUFFICES ASSUME NEW i \in F, NEW j \in F, ps[i].reply = ps[j].reply PROVE i = j
    OBVIOUS
  <2>1. i \in Nat /\ j \in Nat /\ 1 <= i /\ 1 <= j
    BY <1>3, <1>4
  <2>2. ~(i < j)
    BY <1>4, <2>1
  <2>3. ~(j < i)
    BY <1>4, <2>1
  <2>4. QED BY <2>1, <2>2, <2>3
<1>7. OneReply(S)
  <2> SUFFICES ASSUME NEW p \in S, NEW q \in S, p.reply = q.reply PROVE p = q
    BY DEF OneReply
  <2>1. CASE p \in held /\ q \in held
    BY <2>1 DEF OneReply
  <2>2. CASE p \in new /\ q \in new
    BY <1>5, <1>6, <2>2
  <2>3. \A h \in held, n \in new : h.reply # n.reply
    BY <1>4, <1>5
  <2>4. QED BY <1>1, <2>1, <2>2, <2>3
<1>8. \A p \in new : Matches(cs, p)
  BY <1>4, <1>5 DEF seatable, Matches
<1> HIDE DEF new
<1>9. IsFiniteSet(S) /\ S \in SUBSET Delivered
  <2>1. IsFiniteSet(pointers_of(d)) /\ pointers_of(d) \in SUBSET Delivered
    BY DeliveryFinite DEF Delivered
  <2>2. IsFiniteSet(new)
    BY <1>2, <2>1, FS_Subset
  <2>3. IsFiniteSet(held \cup new)
    BY <2>2, FS_Union
  <2>4. QED BY <1>1, <1>2, <2>1, <2>3
<1>10. SeatedWell(cs, held, S)
  BY <1>1, <1>7, <1>8, <1>9 DEF SeatedWell
<1>11. QED BY <1>10 DEF S

\* The attested pointers newer than p among S.
NewerAttested(S, p) == {q \in S : ~is_anon(q) /\ <<p, q>> \in PointerAge({p, q})}

(***************************************************************************)
(* An attested pointer that keeps its credential leaves the caps only for  *)
(* newer attested ones, its author's or all.  Those are on the page before *)
(* or after: one that a cap lets through and that is not shown after has   *)
(* lost its credential, so it was held; and where the cap of an author is  *)
(* full of one that is neither, the global cap is full.                    *)
(***************************************************************************)
LEMMA CapsLeave ==
  ASSUME NEW cs, NEW held, NEW S \in SUBSET Delivered, IsFiniteSet(S), OneReply(S),
         held \subseteq S, \A q \in S \ held : Matches(cs, q),
         NEW new, new = {q \in capped(S) : Matches(cs, q)},
         NEW p \in held, p \notin new, ~is_anon(p), Matches(cs, p)
  PROVE  \/ LEGACY_MAX_PER_FINGERPRINT
              <= Cardinality({q \in NewerAttested(held \cup new, p) : q.fp = p.fp})
         \/ LEGACY_MAX_POINTERS <= Cardinality(NewerAttested(held \cup new, p))
<1> DEFINE R == PointerAge(S)
           Ahead(q) == {r \in Newer(R, S, q) : r.fp = q.fp}
           fair == {q \in S : Cardinality(Ahead(q)) < fp_cap(q)}
           A == fair \ AnonP(fair)
           K == Newest(R, LEGACY_MAX_POINTERS, A)
           N == Newest(R, LEGACY_MAX_POINTERS - Cardinality(K),
                       Newest(R, LEGACY_ANON_POINTER_SLOTS, AnonP(fair)))
           U == NewerAttested(held \cup new, p)
           G == {q \in S : q.fp = p.fp}
           T == Newest(R, LEGACY_MAX_PER_FINGERPRINT, G)
<1>1. StrictTotalOrder(R, S)
  BY AgeOrders
<1>2. capped(S) = K \cup N
  BY DEF capped, tiered
<1>3. /\ K \in SUBSET A /\ A \in SUBSET S /\ A \in SUBSET fair /\ fair \in SUBSET S
      /\ \A q \in A : ~is_anon(q)
      /\ \A q \in fair : ~is_anon(q) => q \in A
      /\ N \in SUBSET S
  BY DEF Newest, AnonP
<1>4. \A q \in S : <<p, q>> \in R <=> <<p, q>> \in PointerAge({p, q})
  BY DEF PointerAge
<1>5. new \in SUBSET S /\ held \cup new \in SUBSET S
  BY <1>2, <1>3
<1>6. U \in SUBSET S /\ IsFiniteSet(U)
  BY <1>5, FS_Subset DEF NewerAttested
<1>7. LEGACY_MAX_POINTERS \in Nat /\ LEGACY_MAX_PER_FINGERPRINT \in Nat
  BY PointerFields
<1>8. \A q \in S : <<p, q>> \in R /\ ~is_anon(q) /\ q \in held \cup new => q \in U
  BY <1>4 DEF NewerAttested
<1>9. \A q \in G : ~is_anon(q) /\ fp_cap(q) = LEGACY_MAX_PER_FINGERPRINT /\ Newer(R, G, q) = Ahead(q)
  <2> SUFFICES ASSUME NEW q \in G
               PROVE  /\ ~is_anon(q) /\ fp_cap(q) = LEGACY_MAX_PER_FINGERPRINT
                      /\ Newer(R, G, q) = Ahead(q)
    OBVIOUS
  <2>1. ~is_anon(q)
    BY DEF is_anon
  <2>2. fp_cap(q) = LEGACY_MAX_PER_FINGERPRINT
    BY <2>1 DEF fp_cap
  <2>3. Newer(R, G, q) = Ahead(q)
    BY DEF Newer
  <2>4. QED BY <2>1, <2>2, <2>3
<1>10. T \in SUBSET G /\ G \in SUBSET S /\ p \in G
  BY DEF Newest
<1>11. T \in SUBSET A
  <2>1. \A t \in T : t \in fair
    BY <1>9, <1>10 DEF Newest
  <2>2. QED BY <1>3, <1>9, <1>10, <2>1
<1>12. p \in fair \/ p \notin T
  BY <1>9, <1>10 DEF Newest
<1>13. \A q \in S : q \in fair <=> Cardinality(Ahead(q)) < fp_cap(q)
  OBVIOUS
<1> HIDE DEF R, fair, A, N, U, G
\* Over the global cap.
<1>14. ASSUME NEW q \in A, q \notin K, q = p \/ <<p, q>> \in R
       PROVE  LEGACY_MAX_POINTERS <= Cardinality(U)
  <2>1. Newer(R, K, q) \subseteq U
    <3> SUFFICES ASSUME NEW k \in Newer(R, K, q) PROVE k \in U
      OBVIOUS
    <3>1. k \in K /\ <<q, k>> \in R
      BY DEF Newer
    <3>2. k \in A /\ k \in S /\ ~is_anon(k) /\ q \in S /\ p \in S
      BY <1>3, <3>1
    <3>3. <<p, k>> \in R
      BY <1>1, <1>14, <3>1, <3>2 DEF StrictTotalOrder
    <3>4. k \in held \cup new
      BY <1>2, <3>1, <3>2
    <3>5. QED BY <1>8, <3>2, <3>3, <3>4
  <2>2. QED BY <1>1, <1>3, <1>6, <1>7, <1>14, <2>1, CutLeaves
<1>15. CASE p \in fair
  <2>1. p \in A
    BY <1>3, <1>15
  <2>2. p \notin K
    BY <1>2
  <2>3. QED BY <1>14, <2>1, <2>2 DEF U
<1>16. CASE p \notin T /\ \A q \in Newer(R, T, p) : q \in held \cup new
  <2> DEFINE H == {q \in U : q.fp = p.fp}
  <2>1. IsFiniteSet(H)
    BY <1>6, FS_Subset
  <2>2. Newer(R, T, p) \subseteq H
    <3> SUFFICES ASSUME NEW q \in Newer(R, T, p) PROVE q \in H
      OBVIOUS
    <3>1. q \in T /\ <<p, q>> \in R /\ q \in held \cup new
      BY <1>16 DEF Newer
    <3>2. q \in A /\ q \in S /\ ~is_anon(q)
      BY <1>3, <1>11, <3>1
    <3>3. q.fp = p.fp
      BY <1>10, <3>1 DEF G
    <3>4. QED BY <1>8, <3>1, <3>2, <3>3
  <2> HIDE DEF H
  <2>3. LEGACY_MAX_PER_FINGERPRINT <= Cardinality(H)
    BY <1>1, <1>7, <1>10, <1>16, <2>1, <2>2, CutLeaves
  <2>4. QED BY <2>3 DEF H, U
<1>17. CASE \E q \in Newer(R, T, p) : q \notin held \cup new
  <2>1. PICK q \in Newer(R, T, p) : q \notin held \cup new
    BY <1>17
  <2>2. q \in T /\ <<p, q>> \in R
    BY DEF Newer
  <2>3. q \in A /\ q \in S
    BY <1>3, <1>11, <2>2
  <2>4. Matches(cs, q)
    BY <2>1, <2>3
  <2>5. q \notin K
    BY <1>2, <2>1, <2>4
  <2>6. QED BY <1>14, <2>2, <2>3, <2>5 DEF U
<1>18. QED BY <1>12, <1>15, <1>16, <1>17

\* A delivery of the inbox keeps the invariant, and an attested pointer goes
\* only so.
LEMMA HearInbox ==
  ASSUME MirrorsInv, NEW d \in InboxDelivery, HearLegacyInbox(d)
  PROVE  /\ MirrorsInv'
         /\ \A p \in pointers \ pointers' : ~is_anon(p) => PointerLeaves(p)
<1> DEFINE cs == merge_creds(creds, d.creds)
           S == seat(cs, pointers, d.pointers)
           served == creds \cup Checked(d.creds)
<1>1. /\ pointers' = {p \in capped(S) : Matches(cs, p)}
      /\ creds' = {c \in cs : \E p \in pointers' : p.replier = c.key}
      /\ delivered' = [delivered EXCEPT !.creds = @ \cup Checked(d.creds)]
      /\ LEGACY_DIRECTORY' = LEGACY_DIRECTORY
  BY DEF HearLegacyInbox, merge_inbox, canonicalize_inbox, Matches, Checked
<1>2. /\ delivered \in [listings : SUBSET Checked(Listing), creds : SUBSET Checked(Credential)]
      /\ LEGACY_DIRECTORY \subseteq delivered.listings /\ IsFiniteSet(LEGACY_DIRECTORY)
      /\ creds \subseteq delivered.creds
      /\ pointers \subseteq Delivered /\ IsFiniteSet(pointers) /\ OneReply(pointers)
      /\ \A p \in pointers : Matches(creds, p)
  BY DEF MirrorsInv, ListingsInv, PointersInv
<1>3. d.creds \in SUBSET Credential
  BY DEF Credential
<1>4. creds \in SUBSET Checked(Credential) /\ Checked(d.creds) \in SUBSET Checked(Credential)
  BY <1>2, <1>3 DEF Checked
<1>5. /\ delivered' \in [listings : SUBSET Checked(Listing), creds : SUBSET Checked(Credential)]
      /\ delivered'.listings = delivered.listings
      /\ delivered'.creds = delivered.creds \cup Checked(d.creds)
  BY <1>1, <1>2, <1>4
<1>6. /\ cs \subseteq served /\ OneEach(cs)
      /\ \A c \in creds \ cs : \E e \in CredOf(served, c.key) : content_hash(c) < content_hash(e)
  BY <1>3, <1>4, MergeCreds
<1> HIDE DEF cs
<1>7. /\ S \in SUBSET Delivered /\ IsFiniteSet(S) /\ OneReply(S)
      /\ pointers \subseteq S /\ \A p \in S \ pointers : Matches(cs, p)
  <2>1. pointers \in SUBSET Delivered /\ IsFiniteSet(pointers) /\ OneReply(pointers)
    BY <1>2
  <2>2. SeatedWell(cs, pointers, S)
    BY <2>1, Seats
  <2> HIDE DEF S, served
  <2>3. QED BY <2>2 DEF SeatedWell
<1> HIDE DEF S
<1>8. capped(S) \in SUBSET S
  BY DEF capped, tiered, Newest, AnonP
<1>9. ListingsInv'
  BY <1>1, <1>2, <1>5 DEF ListingsInv
<1>10. PointersInv'
  <2>1. pointers' \in SUBSET S
    BY <1>1, <1>8
  <2>2. pointers' \subseteq Delivered /\ IsFiniteSet(pointers') /\ OneReply(pointers')
    BY <1>7, <2>1, FS_Subset DEF OneReply
  <2>3. creds' \subseteq delivered'.creds /\ OneEach(creds')
    BY <1>1, <1>2, <1>5, <1>6 DEF OneEach
  <2>4. \A p \in pointers' : Matches(creds', p)
    BY <1>1 DEF Matches, CredOf
  <2>5. QED BY <2>2, <2>3, <2>4 DEF PointersInv
<1>11. ASSUME NEW p \in pointers \ pointers', ~is_anon(p)
       PROVE  PointerLeaves(p)
  <2>1. CASE Matches(cs, p)
    <3>1. \/ LEGACY_MAX_PER_FINGERPRINT
               <= Cardinality({q \in NewerAttested(pointers \cup pointers', p) : q.fp = p.fp})
          \/ LEGACY_MAX_POINTERS <= Cardinality(NewerAttested(pointers \cup pointers', p))
      BY <1>1, <1>7, <1>11, <2>1, CapsLeave
    <3>2. QED BY <3>1 DEF PointerLeaves, NewerAttested
  <2>2. CASE ~Matches(cs, p)
    <3>1. PICK c \in CredOf(creds, p.replier) : c.fp = p.fp
      BY <1>2 DEF Matches
    <3>2. c \in creds /\ c.key = p.replier /\ c \notin cs
      BY <2>2, <3>1 DEF Matches, CredOf
    <3>3. PICK e \in CredOf(served, c.key) : content_hash(c) < content_hash(e)
      BY <1>6, <3>2
    <3>4. e \in CredOf(delivered'.creds, p.replier)
      BY <1>2, <1>5, <3>2, <3>3 DEF CredOf
    <3>5. QED BY <3>1, <3>3, <3>4 DEF PointerLeaves
  <2>3. QED BY <2>1, <2>2
<1>12. QED BY <1>9, <1>10, <1>11 DEF MirrorsInv

\* A delivery of the directory keeps the invariant, and an attested listing
\* goes only so.
LEMMA HearDirectories ==
  ASSUME MirrorsInv, NEW d \in DirectoryDelivery, HearLegacyDirectory(d)
  PROVE  /\ MirrorsInv'
         /\ \A l \in LEGACY_DIRECTORY \ LEGACY_DIRECTORY' : l.attested => ListingLeaves(l)
<1>1. /\ LEGACY_DIRECTORY' = merge_listings(LEGACY_DIRECTORY, d)
      /\ delivered' = [delivered EXCEPT !.listings = @ \cup Checked(d)]
      /\ creds' = creds /\ pointers' = pointers
  BY DEF HearLegacyDirectory, Checked
<1>2. /\ delivered \in [listings : SUBSET Checked(Listing), creds : SUBSET Checked(Credential)]
      /\ LEGACY_DIRECTORY \subseteq delivered.listings /\ IsFiniteSet(LEGACY_DIRECTORY)
  BY DEF MirrorsInv, ListingsInv
<1>3. LEGACY_DIRECTORY \in SUBSET Checked(Listing) /\ Checked(d) \in SUBSET Checked(Listing)
  BY <1>2, MirrorsAssumption DEF Checked
<1>4. /\ delivered' \in [listings : SUBSET Checked(Listing), creds : SUBSET Checked(Credential)]
      /\ delivered'.listings = delivered.listings \cup Checked(d)
      /\ delivered'.creds = delivered.creds
  BY <1>1, <1>2, <1>3
<1>5. /\ LEGACY_DIRECTORY' \subseteq LEGACY_DIRECTORY \cup Checked(d)
      /\ IsFiniteSet(LEGACY_DIRECTORY')
      /\ \A l \in LEGACY_DIRECTORY \ LEGACY_DIRECTORY' : l.attested =>
           \/ \E m \in LEGACY_DIRECTORY \cup Checked(d) : m.author = l.author /\ lww_key(l, m)
           \/ LEGACY_MAX_LISTINGS <= Cardinality({m \in LEGACY_DIRECTORY' :
                                                    m.attested /\ <<l, m>> \in Activity})
  BY <1>1, <1>2, <1>3, MergeListings
<1>6. ListingsInv'
  BY <1>2, <1>4, <1>5 DEF ListingsInv
<1>7. PointersInv'
  BY <1>1, <1>4 DEF MirrorsInv, PointersInv
<1>8. \A l \in LEGACY_DIRECTORY \ LEGACY_DIRECTORY' : l.attested => ListingLeaves(l)
  BY <1>2, <1>4, <1>5 DEF ListingLeaves
<1>9. QED BY <1>6, <1>7, <1>8 DEF MirrorsInv

\* MirrorsInv is inductive.
LEMMA MirrorsInvHolds == MirrorsSpec => []MirrorsInv
<1>1. MirrorsInit => MirrorsInv
  BY FS_EmptySet DEF MirrorsInit, MirrorsInv, ListingsInv, PointersInv, OneEach, OneReply
<1>2. MirrorsInv /\ [MirrorsNext]_mirrorsVars => MirrorsInv'
  <2> SUFFICES ASSUME MirrorsInv, [MirrorsNext]_mirrorsVars PROVE MirrorsInv'
    OBVIOUS
  <2>1. ASSUME NEW d \in DirectoryDelivery, HearLegacyDirectory(d) PROVE MirrorsInv'
    BY <2>1, HearDirectories
  <2>2. ASSUME NEW d \in InboxDelivery, HearLegacyInbox(d) PROVE MirrorsInv'
    BY <2>2, HearInbox
  <2>3. CASE UNCHANGED mirrorsVars
    BY <2>3 DEF mirrorsVars, MirrorsInv, ListingsInv, PointersInv
  <2>4. QED BY <2>1, <2>2, <2>3 DEF MirrorsNext
<1>3. QED BY <1>1, <1>2, PTL DEF MirrorsSpec

\* Verified is never crowded out of the mirrors by anonymous, whatever is
\* delivered in whatever order, and what is shown agrees with its credential.
THEOREM VerifiedStaysHolds == MirrorsSpec => VerifiedStays
<1> DEFINE Stays ==
      /\ \A l \in LEGACY_DIRECTORY \ LEGACY_DIRECTORY' : l.attested => ListingLeaves(l)
      /\ \A p \in pointers \ pointers' : ~is_anon(p) => PointerLeaves(p)
      /\ \A p \in pointers' : \E c \in creds' : c.key = p.replier /\ c.fp = p.fp
      /\ \A c, d \in creds' : c.key = d.key => c = d
<1>1. MirrorsInv /\ MirrorsInv' /\ [MirrorsNext]_mirrorsVars => [Stays]_mirrorsVars
  <2> SUFFICES ASSUME MirrorsInv, MirrorsInv', MirrorsNext PROVE Stays
    OBVIOUS
  <2>1. /\ \A p \in pointers' : \E c \in creds' : c.key = p.replier /\ c.fp = p.fp
        /\ \A c, d \in creds' : c.key = d.key => c = d
    BY DEF MirrorsInv, PointersInv, Matches, CredOf, OneEach
  <2>2. ASSUME NEW d \in DirectoryDelivery, HearLegacyDirectory(d)
        PROVE  /\ \A l \in LEGACY_DIRECTORY \ LEGACY_DIRECTORY' : l.attested => ListingLeaves(l)
               /\ \A p \in pointers \ pointers' : ~is_anon(p) => PointerLeaves(p)
    <3>1. pointers' = pointers
      BY <2>2 DEF HearLegacyDirectory
    <3>2. QED BY <2>2, <3>1, HearDirectories
  <2>3. ASSUME NEW d \in InboxDelivery, HearLegacyInbox(d)
        PROVE  /\ \A l \in LEGACY_DIRECTORY \ LEGACY_DIRECTORY' : l.attested => ListingLeaves(l)
               /\ \A p \in pointers \ pointers' : ~is_anon(p) => PointerLeaves(p)
    <3>1. LEGACY_DIRECTORY' = LEGACY_DIRECTORY
      BY <2>3 DEF HearLegacyInbox
    <3>2. QED BY <2>3, <3>1, HearInbox
  <2>4. QED BY <2>1, <2>2, <2>3 DEF MirrorsNext
<1>2. [][Stays]_mirrorsVars => VerifiedStays
  BY PTL DEF VerifiedStays
<1>3. QED BY <1>1, <1>2, MirrorsInvHolds, PTL DEF MirrorsSpec
=============================================================================

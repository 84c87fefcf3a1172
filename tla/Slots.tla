------------------------------- MODULE Slots -------------------------------
(***************************************************************************)
(* The contracts whose state is one signed record, and the page that reads *)
(* them: the profile picture, the anchor that says where an author's       *)
(* contracts live, and the control channel of the publisher.               *)
(*                                                                         *)
(* Sources: contracts/cell-contract, contracts/avatar-contract,            *)
(* ui/src/api.rs (apply_contract_bytes, anchors, fetches),                 *)
(* ui/src/actions.rs (publish_avatar, migrate_avatar).                     *)
(*                                                                         *)
(* The contracts share no state: a behaviour follows the one that `topic`  *)
(* names.  State, delta and notification are all the whole record.  Hosts   *)
(* and the page get the signed records from anybody, in any order, late    *)
(* and again.                                                              *)
(***************************************************************************)
EXTENDS Client, Integers, FiniteSets

CONSTANTS
  Host,
  Shown,           \* bound: authors whose addresses the page derives
  Record,          \* per topic, the records signed elsewhere
  Upload,          \* pictures the user may upload
  Old,             \* the picture of the previous avatar contract, or None
  Poison,          \* a picture dated in the far future, in force since before
                   \* hosts looked at the date
  Rotated,         \* addresses no build derives
  Generation,      \* per role, the generation this build derives
  MAX_FUTURE_MS,
  MaxClock         \* bound: the clock of a host

Topic == {"avatar", "anchor", "control"}
Role == {"inbox", "feed", "avatar"}

Address == (Shown \X Role) \cup Rotated
derived(a, role) == <<a, role>>

\* The records there are of a topic, signed here or elsewhere.
Signed(t) ==
  Record[t] \cup IF t = "avatar" THEN {Poison} \cup Upload \cup ({Old} \ {None}) ELSE {}

\* The content hash tells records apart that pass the checks, a control record
\* publishes a build and an anchor names addresses, and a host never stored a
\* record that fails the checks, of whatever date.
ASSUME SlotsAssumption ==
  /\ Me \in Shown /\ Shown \subseteq Author
  /\ DOMAIN Record = Topic
  /\ DOMAIN Generation = Role
  /\ {MAX_FUTURE_MS, MaxClock} \subseteq Nat
  /\ \A t \in Topic : \A r \in Signed(t) :
        /\ r # None /\ r.time \in Nat /\ r.hash \in Nat /\ r.ok \in BOOLEAN
        /\ \A s \in Signed(t) :
              r.ok /\ s.ok /\ r.time = s.time /\ r.hash = s.hash => r = s
  /\ \A r \in Record["control"] : r.body \in Nat \cup {None}
  /\ \A r \in Record["anchor"] : r.body # None =>
        \A role \in Role : r.body[role] = None \/ r.body[role].address \in Address
  /\ Poison.ok
  /\ None \notin Role \X Author

VARIABLES
  topic,
  sent,       \* records put or updated by whoever signed them
  slot,       \* per host
  clock,      \* per host
  cache,      \* AVATARS, ANCHORS with ANCHOR_ORDER, or CONTROL
  heard,      \* records the page got, since its own last upload
  LEGACY_AVATARS,
  uploaded,   \* bound: the page uploaded a picture
  started,    \* avatar_migration_started
  TRACKED,    \* address to kind
  fetched     \* authors whose feed was fetched

slotsVars == <<topic, sent, slot, clock, cache, heard, LEGACY_AVATARS,
               uploaded, started, TRACKED, fetched>>

-----------------------------------------------------------------------------
(* One record.                                                             *)

\* Fault: only the time decides.
order_key_TimeOnly(r, s) == r.time > s.time

\* (time or seq, content hash), the greater one wins.
order_key(r, s) == r.time > s.time \/ (r.time = s.time /\ r.hash > s.hash)

newer(r, held) == held = None \/ order_key(r, held)

\* The signature, the size and the format of a record.
check(r) == r.ok

InTime(r, now) == r.time <= now + MAX_FUTURE_MS

\* The avatar contract: a held picture of the far future is dropped, an
\* arriving one skipped, a bad one refused; a slot is never emptied.
update_at(held, r, now) ==
  LET kept == IF held # None /\ InTime(held, now) THEN held ELSE None
  IN CASE InTime(r, now) /\ ~check(r)                  -> held
       [] InTime(r, now) /\ check(r)                   -> IF newer(r, kept) THEN r ELSE kept
       [] ~InTime(r, now)                              -> IF kept = None THEN held ELSE kept

\* The cell contract.
cell_merge(held, r) == IF check(r) /\ newer(r, held) THEN r ELSE held

update_state(h, r) ==
  IF topic = "avatar" THEN update_at(slot[h], r, clock[h]) ELSE cell_merge(slot[h], r)

\* What g offers to h for its summary: its record, when h has an older one.
get_state_delta(g, h) ==
  IF slot[g] # None /\ newer(slot[g], slot[h]) THEN {slot[g]} ELSE {}

-----------------------------------------------------------------------------
(* The page.                                                               *)

readable(r) == r.body # None

\* Fault: an address that is tracked for somebody else is tagged anew.
claims_Retag(a, role, anchor) ==
  /\ anchor[role] # None
  /\ anchor[role].version = Generation[role]
  /\ anchor[role].address # derived(a, role)

\* A role of an anchor is followed when it names the generation of this
\* build at another address, one that nothing is tracked at.
claims(a, role, anchor) ==
  /\ anchor[role] # None
  /\ anchor[role].version = Generation[role]
  /\ anchor[role].address # derived(a, role)
  /\ TRACKED[anchor[role].address] = None

\* The roles are followed in the order inbox, feed, avatar.
Before(role) ==
  CASE role = "inbox" -> {} [] role = "feed" -> {"inbox"}
    [] role = "avatar" -> {"inbox", "feed"}

anchor_targets(a, anchor) ==
  [x \in Address |->
     LET roles == {role \in Role : claims(a, role, anchor) /\ anchor[role].address = x}
     IN IF roles = {} THEN TRACKED[x]
        ELSE LET last == CHOOSE role \in roles : roles \subseteq Before(role) \cup {role}
             IN <<last, a>>]

\* Fault: what arrives last stands.
Accepts_Arrival(r) == topic = "avatar" \/ readable(r)

\* Whether the page takes a record in place of the one it has: a picture
\* and an anchor by their order key, a control record by its build.
Accepts(r) ==
  CASE topic = "avatar"  -> newer(r, cache)
    [] topic = "anchor"  -> readable(r) /\ newer(r, cache)
    [] topic = "control" -> readable(r) /\ (cache = None \/ r.body > cache.body)

-----------------------------------------------------------------------------
SlotsInit ==
  /\ topic \in Topic
  /\ sent = Record[topic] \cup (IF topic = "avatar" THEN {Poison} ELSE {})
  /\ slot \in [Host -> {None} \cup IF topic = "avatar" THEN {Poison} ELSE {}]
  /\ clock \in [Host -> 0..MaxClock]
  /\ cache = None /\ heard = {} /\ LEGACY_AVATARS = None
  /\ uploaded = FALSE /\ started = FALSE
  /\ TRACKED = [x \in Address |-> None]
  /\ fetched = {}

Store(h, new) ==
  /\ new # slot[h]
  /\ slot' = [slot EXCEPT ![h] = new]
  /\ UNCHANGED <<topic, sent, clock, cache, heard, LEGACY_AVATARS, uploaded, started,
                 TRACKED, fetched>>

HostUpdate(h) == \E r \in sent : Store(h, update_state(h, r))

HostSync(g, h) == \E r \in get_state_delta(g, h) : Store(h, update_state(h, r))

Tick(h) ==
  /\ topic = "avatar" /\ clock[h] < MaxClock
  /\ clock' = [clock EXCEPT ![h] = @ + 1]
  /\ UNCHANGED <<topic, sent, slot, cache, heard, LEGACY_AVATARS, uploaded,
                 started, TRACKED, fetched>>

\* The feed, the inbox and the anchor of an author are tracked and asked for.
fetch_feed(a) ==
  /\ topic = "anchor" /\ a \notin fetched
  /\ fetched' = fetched \cup {a}
  /\ TRACKED' = [TRACKED EXCEPT ![derived(a, "feed")] = <<"feed", a>>,
                                ![derived(a, "inbox")] = <<"inbox", a>>]
  /\ UNCHANGED <<topic, sent, slot, clock, cache, heard, LEGACY_AVATARS,
                 uploaded, started>>

\* The picture is tracked and asked for.
fetch_avatar(a) ==
  /\ topic \in {"avatar", "anchor"} /\ TRACKED[derived(a, "avatar")] # <<"avatar", a>>
  /\ TRACKED' = [TRACKED EXCEPT ![derived(a, "avatar")] = <<"avatar", a>>]
  /\ UNCHANGED <<topic, sent, slot, clock, cache, heard, LEGACY_AVATARS,
                 uploaded, started, fetched>>

\* What the page has asked for and knows how to route.
lookup ==
  CASE topic = "avatar"  -> TRACKED[derived(Me, "avatar")] = <<"avatar", Me>>
    [] topic = "anchor"  -> Me \in fetched
    [] topic = "control" -> TRUE

\* A record reaches the page.
apply_contract_bytes(r) ==
  /\ lookup /\ check(r)
  /\ heard' = heard \cup {r}
  /\ cache' = IF Accepts(r) THEN r ELSE cache
  /\ TRACKED' = IF topic = "anchor" /\ Accepts(r) THEN anchor_targets(Me, r.body) ELSE TRACKED
  /\ <<heard, cache, TRACKED>>' # <<heard, cache, TRACKED>>
  /\ UNCHANGED <<topic, sent, slot, clock, LEGACY_AVATARS, uploaded,
                 started, fetched>>

\* The picture at the address of the previous contract, while the dual-read
\* window is open.
HearLegacyAvatar ==
  /\ topic = "avatar" /\ lookup /\ Old # None /\ LEGACY_AVATARS = None
  /\ LEGACY_AVATARS' = Old
  /\ UNCHANGED <<topic, sent, slot, clock, cache, heard, uploaded, started,
                 TRACKED, fetched>>

\* An upload is shown whatever the page had.
publish_avatar(r) ==
  /\ topic = "avatar" /\ ~uploaded /\ check(r)
  /\ uploaded' = TRUE
  /\ sent' = sent \cup {r}
  /\ cache' = r /\ heard' = {r}
  /\ TRACKED' = [TRACKED EXCEPT ![derived(Me, "avatar")] = <<"avatar", Me>>]
  /\ UNCHANGED <<topic, slot, clock, LEGACY_AVATARS, started, fetched>>

\* Without a current picture the legacy one is signed anew, with its time.
migrate_avatar ==
  /\ topic = "avatar" /\ cache = None /\ LEGACY_AVATARS # None /\ ~started
  /\ started' = TRUE
  /\ sent' = sent \cup {LEGACY_AVATARS}
  /\ cache' = LEGACY_AVATARS /\ heard' = heard \cup {LEGACY_AVATARS}
  /\ UNCHANGED <<topic, slot, clock, LEGACY_AVATARS, uploaded, TRACKED, fetched>>

SlotsNext ==
  \/ \E h \in Host : HostUpdate(h) \/ Tick(h)
  \/ \E g, h \in Host : HostSync(g, h)
  \/ \E a \in Shown : fetch_feed(a) \/ fetch_avatar(a)
  \/ \E r \in sent : apply_contract_bytes(r)
  \/ HearLegacyAvatar
  \/ \E r \in Upload : publish_avatar(r)
  \/ migrate_avatar

SlotsSpec == SlotsInit /\ [][SlotsNext]_slotsVars

-----------------------------------------------------------------------------
(* Properties.                                                             *)

\* Every variable has its type; in particular an address is tracked as one
\* role of one author.
SlotsTypeOK ==
  /\ topic \in Topic
  /\ sent \subseteq Signed(topic) /\ heard \subseteq Signed(topic)
  /\ slot \in [Host -> Signed(topic) \cup {None}]
  /\ clock \in [Host -> 0..MaxClock]
  /\ cache \in Signed(topic) \cup {None}
  /\ LEGACY_AVATARS \in {Old, None}
  /\ uploaded \in BOOLEAN /\ started \in BOOLEAN
  /\ TRACKED \in [Address -> (Role \X Shown) \cup {None}]
  /\ fetched \subseteq Shown

\* Whatever the order in which the page hears records, late ones and
\* repeated ones included, it has the newest it can read: an anchor of a
\* newer schema does not hide the one before it, and no older picture or
\* build comes back.
CachesAreNewest ==
  LET known == {r \in heard : topic = "avatar" \/ readable(r)}
  IN IF known = {} THEN cache = None
     ELSE /\ cache \in known
          /\ \A r \in known : IF topic = "control" THEN r.body <= cache.body
                              ELSE ~order_key(r, cache)

\* The address a build derives for an author that was fetched stays routed
\* to that author, whatever the anchors of other authors name, whenever.
FetchedGoHome ==
  \A a \in fetched : \A role \in {"feed", "inbox"} : TRACKED[derived(a, role)] = <<role, a>>

\* One exchange in both directions makes two hosts agree on a record that
\* neither clock calls far future.
SlotsSettle ==
  \A g, h \in Host :
    (\A r \in {slot[g], slot[h]} \ {None} :
        topic # "avatar" \/ (InTime(r, clock[g]) /\ InTime(r, clock[h])))
    => LET Met(x, y) == IF get_state_delta(x, y) = {} THEN slot[y]
                        ELSE update_state(y, slot[x])
       IN Met(g, h) = Met(h, g)

=============================================================================

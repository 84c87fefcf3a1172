----------------------------- MODULE Migration -----------------------------
(***************************************************************************)
(* The one-time forward migration of an account from the first contract    *)
(* generation (issues #56, #82, #90, #91) on several devices of one owner, *)
(* who edits the profile and the follow list while it runs.                *)
(*                                                                         *)
(* Sources: ui/src/actions.rs, ui/src/state.rs, ui/src/views.rs (App).     *)
(*                                                                         *)
(* A session begins with its delegate's answer about the marker.  An       *)
(* update that left for the network is applied there later, in any order,  *)
(* or is lost; nothing tells the client which.                             *)
(***************************************************************************)
EXTENDS Integers, FiniteSets

CONSTANTS
  Device,
  Name,           \* what the owner may type as a profile; others than these:
  Blank,          \* the profile of seed_feed
  LegacyProfile,  \* the profile of the first generation
  Followee,
  LegacyFollows,  \* the follow list of the first generation
  LegacyPost,     \* its posts
  ReplyTo,        \* ... and the author whom each of them answers, or Nobody
  Hash,           \* content hash of a profile and of a follow list, as a rank
  CONFIRM_TRIES,
  MIGRATION_ANNOUNCE_MS, \* the id of every announcement a run makes
  Nobody,
  MaxEdits,       \* bound: edits by the owner
  MaxLost,        \* bound: updates the network loses or rejects
  MaxSessions,    \* bound: sessions begun after the first of each device
  MaxEvents       \* bound: the three together

ASSUME MigrationAssumption ==
  /\ Name \cap {Blank, LegacyProfile} = {}
  /\ LegacyFollows \subseteq Followee
  /\ ReplyTo \in [LegacyPost -> Followee \cup {Nobody}]
  /\ CONFIRM_TRIES \in Nat \ {0}
  /\ {MaxEdits, MaxLost, MaxSessions, MaxEvents} \subseteq Nat

VARIABLES
  net,          \* the second-generation feed, as the network holds it
  wire,         \* updates on their way to it
  pointers,     \* pointers put into inboxes
  FEEDS,        \* per device: its copy of the own feed, or Nobody
  LEGACY_FEEDS, \* per device: the legacy feed has arrived
  V1_MIGRATION, \* per device
  started,      \* per device: migration_started, once per session
  tries,        \* per device: re-reads made by a run that awaits its writes
  marker,       \* per device: V1_MIGRATION_KEY in its delegate
  edits, losses, sessions,
  touched,      \* devices with an edit in their copy that nobody confirmed
  unfollowed,   \* followees the owner ever dropped
  blind         \* a follow list was edited without the legacy list at hand

migrationVars == <<net, wire, pointers, FEEDS, LEGACY_FEEDS, V1_MIGRATION, started,
                   tries, marker, edits, losses, sessions, touched, unfollowed, blind>>

Text == Name \cup {Blank, LegacyProfile}
Profile == [version : 0..MaxEdits + 1, value : Text]
Follows == [version : 0..MaxEdits + 1, value : SUBSET Followee]
OwnFeed == [profile : Profile, follows : Follows, posts : SUBSET LegacyPost]

ASSUME NobodyAssumption ==
  Nobody \notin Profile /\ Nobody \notin Follows /\ Nobody \notin OwnFeed

Delta == [profile : Profile \cup {Nobody}, follows : Follows \cup {Nobody},
          posts : SUBSET LegacyPost]
Pointer == [target : Followee, id : LegacyPost \cup {MIGRATION_ANNOUNCE_MS} \cup 1..MaxEdits]

seed_feed == [profile |-> [version |-> 0, value |-> Blank],
              follows |-> [version |-> 0, value |-> {}], posts |-> {}]

empty_delta == [profile |-> Nobody, follows |-> Nobody, posts |-> {}]

-----------------------------------------------------------------------------
\* Registers: the higher version wins, content hash between equal ones.
Newer(r, s) ==
  \/ r.version > s.version
  \/ r.version = s.version /\ Hash[r.value] > Hash[s.value]

Latest(held, r) == IF r # Nobody /\ Newer(r, held) THEN r ELSE held

merge_feed(held, in) ==
  [profile |-> Latest(held.profile, in.profile),
   follows |-> Latest(held.follows, in.follows),
   posts |-> held.posts \cup in.posts]

written_since_rotation(version) == version > 0

\* The follow list on the screen: the legacy one until the first write.
follows_of(f, legacy) ==
  IF written_since_rotation(f.version) \/ ~legacy THEN f.value ELSE LegacyFollows

\* Fault: an edit starts from the raw second-generation list (issue #82).
effective_follows_Raw(d) == FEEDS[d].follows.value

effective_follows(d) == follows_of(FEEDS[d].follows, LEGACY_FEEDS[d])

posts_to_migrate(current) == LegacyPost \ current.posts

\* Fault: the versions of the two lineages are compared (issue #82); the legacy
\* profile went through two edits.
identity_to_migrate_Compared(current) ==
  [profile |-> IF 2 > current.profile.version
               THEN [version |-> current.profile.version + 1, value |-> LegacyProfile]
               ELSE Nobody,
   follows |-> IF 2 > current.follows.version
               THEN [version |-> current.follows.version + 1, value |-> LegacyFollows]
               ELSE Nobody]

\* The legacy records that still owe a copy: those whose successor has not
\* been written, whatever the legacy versions are.
identity_to_migrate(current) ==
  [profile |-> IF written_since_rotation(current.profile.version) THEN Nobody
               ELSE [version |-> current.profile.version + 1, value |-> LegacyProfile],
   follows |-> IF written_since_rotation(current.follows.version) THEN Nobody
               ELSE [version |-> current.follows.version + 1, value |-> LegacyFollows]]

NothingOwed(current) ==
  LET owed == identity_to_migrate(current)
  IN owed.profile = Nobody /\ owed.follows = Nobody

\* Any stored value but "done" means: run it.
decode(value) == IF value = "done" THEN "Done" ELSE "Pending"

Within(bound, n) == n < bound /\ edits + losses + sessions < MaxEvents

-----------------------------------------------------------------------------
MigrationInit ==
  /\ net = seed_feed
  /\ wire = {} /\ pointers = {}
  /\ FEEDS = [d \in Device |-> Nobody]
  /\ LEGACY_FEEDS = [d \in Device |-> FALSE]
  /\ V1_MIGRATION = [d \in Device |-> "Pending"]
  /\ started = [d \in Device |-> FALSE]
  /\ tries = [d \in Device |-> 0]
  /\ marker = [d \in Device |-> "absent"]
  /\ edits = 0 /\ losses = 0 /\ sessions = 0
  /\ touched = {} /\ unfollowed = {} /\ blind = FALSE

\* A state or a notification of the own feed arrives.
HearFeed(d) ==
  /\ FEEDS' = [FEEDS EXCEPT ![d] = IF @ = Nobody THEN net ELSE merge_feed(@, net)]
  /\ FEEDS' # FEEDS
  /\ UNCHANGED <<net, wire, pointers, LEGACY_FEEDS, V1_MIGRATION, started, tries,
                 marker, edits, losses, sessions, touched, unfollowed, blind>>

\* The legacy feed arrives; the dead contract never changes.
HearLegacy(d) ==
  /\ ~LEGACY_FEEDS[d]
  /\ LEGACY_FEEDS' = [LEGACY_FEEDS EXCEPT ![d] = TRUE]
  /\ UNCHANGED <<net, wire, pointers, FEEDS, V1_MIGRATION, started, tries, marker,
                 edits, losses, sessions, touched, unfollowed, blind>>

\* A profile edit, applied to the own copy as soon as it was sent.
publish_profile(d, n) ==
  /\ FEEDS[d] # Nobody /\ Within(MaxEdits, edits)
  /\ LET rec == [version |-> FEEDS[d].profile.version + 1, value |-> n]
     IN /\ wire' = wire \cup {[empty_delta EXCEPT !.profile = rec]}
        /\ FEEDS' = [FEEDS EXCEPT ![d].profile = rec]
  /\ edits' = edits + 1
  /\ touched' = touched \cup {d}
  /\ UNCHANGED <<net, pointers, LEGACY_FEEDS, V1_MIGRATION, started, tries, marker,
                 losses, sessions, unfollowed, blind>>

\* A follow or an unfollow; a follow is announced in the inbox of its target.
set_follow(d, t, follow) ==
  /\ FEEDS[d] # Nobody /\ Within(MaxEdits, edits)
  /\ (t \in effective_follows(d)) # follow
  /\ LET rec == [version |-> FEEDS[d].follows.version + 1,
                 value |-> IF follow THEN effective_follows(d) \cup {t}
                           ELSE effective_follows(d) \ {t}]
     IN /\ wire' = wire \cup {[empty_delta EXCEPT !.follows = rec]}
        /\ FEEDS' = [FEEDS EXCEPT ![d].follows = rec]
  /\ edits' = edits + 1
  /\ pointers' = IF follow THEN pointers \cup {[target |-> t, id |-> edits']} ELSE pointers
  /\ touched' = touched \cup {d}
  /\ unfollowed' = IF follow THEN unfollowed ELSE unfollowed \cup {t}
  /\ blind' = (blind \/ (~LEGACY_FEEDS[d] /\ ~written_since_rotation(FEEDS[d].follows.version)))
  /\ UNCHANGED <<net, LEGACY_FEEDS, V1_MIGRATION, started, tries, marker, losses, sessions>>

\* migrate_v1 up to its first wait: what is owed is sent and not applied to
\* the own copy, every legacy reply and every follow is announced, and the
\* feed is asked for again.
migrate_v1(d) ==
  /\ V1_MIGRATION[d] = "Pending" /\ ~started[d]
  /\ FEEDS[d] # Nobody /\ LEGACY_FEEDS[d]
  /\ LET owed == identity_to_migrate(FEEDS[d])
         posts == posts_to_migrate(FEEDS[d])
         announce_to == IF owed.follows # Nobody THEN owed.follows.value
                        ELSE FEEDS[d].follows.value
     IN /\ wire' = IF posts = {} /\ NothingOwed(FEEDS[d]) THEN wire
                   ELSE wire \cup {[profile |-> owed.profile, follows |-> owed.follows,
                                    posts |-> posts]}
        /\ pointers' = pointers
             \cup {[target |-> ReplyTo[p], id |-> p] :
                     p \in {q \in LegacyPost : ReplyTo[q] # Nobody}}
             \cup [target : announce_to, id : {MIGRATION_ANNOUNCE_MS}]
  /\ started' = [started EXCEPT ![d] = TRUE]
  /\ tries' = [tries EXCEPT ![d] = 1]
  /\ UNCHANGED <<net, FEEDS, LEGACY_FEEDS, V1_MIGRATION, marker, edits, losses,
                 sessions, touched, unfollowed, blind>>

\* Fault: the run trusts the sends and confirms nothing (issue #90).
confirm_identity_migrated_Trusting(d) ==
  /\ tries[d] > 0
  /\ tries' = [tries EXCEPT ![d] = 0]
  /\ marker' = [marker EXCEPT ![d] = "done"]
  /\ V1_MIGRATION' = [V1_MIGRATION EXCEPT ![d] = "Done"]
  /\ UNCHANGED <<net, wire, pointers, FEEDS, LEGACY_FEEDS, started, edits, losses,
                 sessions, touched, unfollowed, blind>>

\* A second after each re-read: the run is done when its own function finds
\* nothing left to write, asks again otherwise, and gives up in the end.
confirm_identity_migrated(d) ==
  /\ tries[d] > 0
  /\ IF NothingOwed(FEEDS[d])
     THEN /\ tries' = [tries EXCEPT ![d] = 0]
          /\ marker' = [marker EXCEPT ![d] = "done"]
          /\ V1_MIGRATION' = [V1_MIGRATION EXCEPT ![d] = "Done"]
     ELSE /\ tries' = [tries EXCEPT ![d] = IF @ = CONFIRM_TRIES THEN 0 ELSE @ + 1]
          /\ UNCHANGED <<marker, V1_MIGRATION>>
  /\ UNCHANGED <<net, wire, pointers, FEEDS, LEGACY_FEEDS, started, edits, losses,
                 sessions, touched, unfollowed, blind>>

\* The network applies an update, or never does.
Apply(u) ==
  /\ net' = merge_feed(net, u)
  /\ wire' = wire \ {u}
  /\ UNCHANGED <<pointers, FEEDS, LEGACY_FEEDS, V1_MIGRATION, started, tries, marker,
                 edits, losses, sessions, touched, unfollowed, blind>>

Lose(u) ==
  /\ Within(MaxLost, losses)
  /\ losses' = losses + 1
  /\ wire' = wire \ {u}
  /\ UNCHANGED <<net, pointers, FEEDS, LEGACY_FEEDS, V1_MIGRATION, started, tries,
                 marker, edits, sessions, touched, unfollowed, blind>>

\* The next session of a device: resume_account puts the seed, which loses
\* against whatever is there, and reads both feeds anew.
resume_account(d) ==
  /\ FEEDS[d] # Nobody /\ Within(MaxSessions, sessions)
  /\ sessions' = sessions + 1
  /\ net' = merge_feed(net, seed_feed)
  /\ FEEDS' = [FEEDS EXCEPT ![d] = Nobody]
  /\ LEGACY_FEEDS' = [LEGACY_FEEDS EXCEPT ![d] = FALSE]
  /\ V1_MIGRATION' = [V1_MIGRATION EXCEPT ![d] = decode(marker[d])]
  /\ started' = [started EXCEPT ![d] = FALSE]
  /\ tries' = [tries EXCEPT ![d] = 0]
  /\ touched' = IF marker[d] = "done" THEN touched ELSE touched \ {d}
  /\ UNCHANGED <<wire, pointers, marker, edits, losses, unfollowed, blind>>

MigrationNext ==
  \/ \E d \in Device : HearFeed(d) \/ HearLegacy(d)
  \/ \E d \in Device, n \in Name : publish_profile(d, n)
  \/ \E d \in Device, t \in Followee, follow \in BOOLEAN : set_follow(d, t, follow)
  \/ \E d \in Device : migrate_v1(d) \/ confirm_identity_migrated(d)
  \/ \E u \in wire : Apply(u) \/ Lose(u)
  \/ \E d \in Device : resume_account(d)

MigrationSpec == MigrationInit /\ [][MigrationNext]_migrationVars

-----------------------------------------------------------------------------
(* Properties.                                                             *)

\* Every variable has its type.
MigrationTypeOK ==
  /\ net \in OwnFeed /\ wire \subseteq Delta /\ pointers \subseteq Pointer
  /\ FEEDS \in [Device -> OwnFeed \cup {Nobody}]
  /\ LEGACY_FEEDS \in [Device -> BOOLEAN] /\ started \in [Device -> BOOLEAN]
  /\ V1_MIGRATION \in [Device -> {"Pending", "Done"}]
  /\ tries \in [Device -> 0..CONFIRM_TRIES]
  /\ marker \in [Device -> {"absent", "done"}]
  /\ edits \in 0..MaxEdits /\ losses \in 0..MaxLost /\ sessions \in 0..MaxSessions
  /\ touched \subseteq Device /\ unfollowed \subseteq Followee /\ blind \in BOOLEAN

\* The legacy profile never replaces a profile the owner wrote after the
\* rotation, on whichever device, except by the content hash when the
\* migration and the owner both made the first write (issue #82).
LegacyNeverReverts ==
  [][net.profile.value \in Name /\ net'.profile.value = LegacyProfile
       => net'.profile.version = net.profile.version]_migrationVars

\* Through edits on several devices, migrations and losses, the list the
\* network holds misses no legacy followee but those the owner dropped,
\* unless it was edited before the legacy list had arrived.
FollowsKept ==
  written_since_rotation(net.follows.version) /\ ~blind
    => LegacyFollows \subseteq net.follows.value \cup unfollowed

\* A device that stamped "done" saw the network hold the migrated identity,
\* if no unconfirmed edit of its own was in the copy it looked at (#90).
ConfirmedMeansHeld ==
  \A d \in Device : marker[d] = "done" /\ d \notin touched => NothingOwed(net)

=============================================================================

-------------------------- MODULE MigrationProofs --------------------------
(***************************************************************************)
(* The properties of Migration, for every number of devices, edits, losses *)
(* and sessions.                                                           *)
(*                                                                         *)
(* One inductive invariant carries them all: what it says of a record, it  *)
(* says of every copy of that record, in the network, on its way there and *)
(* on each device.                                                         *)
(***************************************************************************)
EXTENDS Migration, TLAPS

-----------------------------------------------------------------------------
(* Records.  n edits were made, b is blind and w unfollowed.               *)

\* An edited profile has left version 0, the legacy one never passes 1.
ProfileOK(p, n) ==
  /\ p \in Profile /\ p.version <= n + 1
  /\ p.value \in Name => p.version > 0
  /\ p.value = LegacyProfile => p.version <= 1

\* A follow list that was written has what FollowsKept asks for.
FollowsOK(f, n, b, w) ==
  /\ f \in Follows /\ f.version <= n + 1
  /\ f.version > 0 /\ ~b => LegacyFollows \subseteq f.value \cup w

FeedOK(f, n, b, w) ==
  f \in OwnFeed /\ ProfileOK(f.profile, n) /\ FollowsOK(f.follows, n, b, w)

\* ... and an update, of which every part may be absent.
DeltaOK(u, n, b, w) ==
  /\ u.posts \subseteq LegacyPost
  /\ u.profile # Nobody => ProfileOK(u.profile, n)
  /\ u.follows # Nobody => FollowsOK(u.follows, n, b, w)

\* A copy that only ever came from the network is not ahead of it.
Behind(f, g) ==
  f.profile.version <= g.profile.version /\ f.follows.version <= g.follows.version

Held(f) == f.profile.version > 0 /\ f.follows.version > 0

MigrationInv ==
  /\ MigrationTypeOK
  /\ FeedOK(net, edits, blind, unfollowed)
  /\ \A d \in Device :
       FEEDS[d] # Nobody =>
         /\ FeedOK(FEEDS[d], edits, blind, unfollowed)
         /\ d \notin touched => Behind(FEEDS[d], net)
  /\ \A u \in wire : DeltaOK(u, edits, blind, unfollowed)
  /\ \A d \in Device : marker[d] = "done" /\ d \notin touched => Held(net)
  /\ \A d \in Device : tries[d] > 0 => FEEDS[d] # Nobody

-----------------------------------------------------------------------------
\* What holds of a record outlives further edits, blind ones and unfollows.
LEMMA RecordsLast ==
  ASSUME NEW n \in Nat, NEW m \in Nat, n <= m,
         NEW b \in BOOLEAN, NEW c \in BOOLEAN, b => c,
         NEW w, NEW x, w \subseteq x
  PROVE  /\ \A f : FeedOK(f, n, b, w) => FeedOK(f, m, c, x)
         /\ \A u : DeltaOK(u, n, b, w) => DeltaOK(u, m, c, x)
<1>0. MaxEdits \in Nat
  BY MigrationAssumption
<1>1. ASSUME NEW p, ProfileOK(p, n) PROVE ProfileOK(p, m)
  <2>1. p.version \in Nat
    BY <1>0, <1>1 DEF ProfileOK, Profile
  <2>2. p.version <= m + 1
    BY <2>1, <1>1 DEF ProfileOK
  <2> QED BY <1>1, <2>2 DEF ProfileOK
<1>2. ASSUME NEW f, FollowsOK(f, n, b, w) PROVE FollowsOK(f, m, c, x)
  <2>1. f.version \in Nat
    BY <1>0, <1>2 DEF FollowsOK, Follows
  <2>2. f.version <= m + 1
    BY <2>1, <1>2 DEF FollowsOK
  <2> QED BY <1>2, <2>2 DEF FollowsOK
<1>3. QED
  BY <1>1, <1>2 DEF FeedOK, DeltaOK

\* The register takes one of the two, and never an older one.
LEMMA LatestOf ==
  ASSUME NEW held, NEW r, held.version \in Nat, r # Nobody => r.version \in Nat
  PROVE  /\ Latest(held, r) = held \/ (r # Nobody /\ Latest(held, r) = r)
         /\ held.version <= Latest(held, r).version
BY DEF Latest, Newer

\* Merging an update, or another copy, into a feed: what holds of both holds
\* of the result, which is not older, and a legacy profile that replaces an
\* edited one does so in a tie.
LEMMA MergeKeeps ==
  ASSUME NEW n \in Nat, NEW b \in BOOLEAN, NEW w,
         NEW f, FeedOK(f, n, b, w), NEW u, DeltaOK(u, n, b, w)
  PROVE  /\ FeedOK(merge_feed(f, u), n, b, w)
         /\ Behind(f, merge_feed(f, u))
         /\ merge_feed(f, u).profile = f.profile
              \/ (u.profile # Nobody /\ merge_feed(f, u).profile = u.profile)
         /\ merge_feed(f, u).follows = f.follows
              \/ (u.follows # Nobody /\ merge_feed(f, u).follows = u.follows)
         /\ f.profile.value \in Name /\ merge_feed(f, u).profile.value = LegacyProfile
              => merge_feed(f, u).profile.version = f.profile.version
<1> DEFINE g == merge_feed(f, u)
<1>0. MaxEdits \in Nat /\ Name \cap {Blank, LegacyProfile} = {}
  BY MigrationAssumption
<1>1. /\ g.profile = Latest(f.profile, u.profile)
      /\ g.follows = Latest(f.follows, u.follows)
      /\ g.posts = f.posts \cup u.posts
      /\ g = [profile |-> g.profile, follows |-> g.follows, posts |-> g.posts]
  BY DEF merge_feed
<1>2. /\ f.profile.version \in Nat /\ f.follows.version \in Nat
      /\ u.profile # Nobody => u.profile.version \in Nat
      /\ u.follows # Nobody => u.follows.version \in Nat
  BY <1>0 DEF FeedOK, DeltaOK, ProfileOK, FollowsOK, Profile, Follows
<1>3. /\ g.profile = f.profile \/ (u.profile # Nobody /\ g.profile = u.profile)
      /\ f.profile.version <= g.profile.version
  BY <1>1, <1>2, LatestOf
<1>4. /\ g.follows = f.follows \/ (u.follows # Nobody /\ g.follows = u.follows)
      /\ f.follows.version <= g.follows.version
  BY <1>1, <1>2, LatestOf
<1>5. ProfileOK(g.profile, n) /\ FollowsOK(g.follows, n, b, w)
  BY <1>3, <1>4 DEF FeedOK, DeltaOK
<1>6. g \in OwnFeed
  <2>1. g.profile \in Profile /\ g.follows \in Follows
    BY <1>5 DEF ProfileOK, FollowsOK
  <2>2. g.posts \subseteq LegacyPost
    BY <1>1 DEF FeedOK, DeltaOK, OwnFeed
  <2> HIDE DEF g
  <2> QED BY <1>1, <2>1, <2>2 DEF OwnFeed
<1>7. f.profile.value \in Name /\ g.profile.value = LegacyProfile
        => g.profile.version = f.profile.version
  <2> SUFFICES ASSUME f.profile.value \in Name, g.profile.value = LegacyProfile
               PROVE  g.profile.version = f.profile.version
    OBVIOUS
  <2>1. f.profile.version > 0 /\ g.profile.version <= 1
    BY <1>5 DEF FeedOK, ProfileOK
  <2>2. g.profile.version \in Nat
    BY <1>2, <1>3
  <2> HIDE DEF g
  <2> QED BY <1>2, <1>3, <2>1, <2>2
<1>8. QED
  BY <1>3, <1>4, <1>5, <1>6, <1>7 DEF FeedOK, Behind

-----------------------------------------------------------------------------
\* The network changes to what holds of the rest: shared by every action that
\* merges something into it.
LEMMA NetworkMoves ==
  ASSUME MigrationInv, NEW u, DeltaOK(u, edits, blind, unfollowed)
  PROVE  /\ FeedOK(merge_feed(net, u), edits, blind, unfollowed)
         /\ \A d \in Device : FEEDS[d] # Nobody /\ d \notin touched
              => Behind(FEEDS[d], merge_feed(net, u))
         /\ Held(net) => Held(merge_feed(net, u))
<1>0. MaxEdits \in Nat
  BY MigrationAssumption
<1> DEFINE g == merge_feed(net, u)
<1>1. edits \in Nat /\ blind \in BOOLEAN /\ FeedOK(net, edits, blind, unfollowed)
  BY <1>0 DEF MigrationInv, MigrationTypeOK
<1>2. FeedOK(g, edits, blind, unfollowed) /\ Behind(net, g)
  BY <1>1, MergeKeeps
<1>3. ASSUME NEW f, FeedOK(f, edits, blind, unfollowed)
      PROVE  f.profile.version \in Nat /\ f.follows.version \in Nat
  BY <1>0, <1>3 DEF FeedOK, ProfileOK, FollowsOK, Profile, Follows
<1> HIDE DEF g
<1>4. ASSUME NEW d \in Device, FEEDS[d] # Nobody, d \notin touched
      PROVE  Behind(FEEDS[d], g)
  <2>1. FeedOK(FEEDS[d], edits, blind, unfollowed) /\ Behind(FEEDS[d], net)
    BY <1>4 DEF MigrationInv
  <2>2. QED
    BY <2>1, <1>1, <1>2, <1>3 DEF Behind
<1>5. Held(net) => Held(g)
  BY <1>1, <1>2, <1>3 DEF Behind, Held
<1>6. QED
  BY <1>2, <1>4, <1>5 DEF g

\* The seed of a new feed, as a feed and as an update.
LEMMA SeedOK ==
  ASSUME NEW n \in Nat, NEW b \in BOOLEAN, NEW w
  PROVE  FeedOK(seed_feed, n, b, w) /\ DeltaOK(seed_feed, n, b, w)
<1>0. MaxEdits \in Nat /\ Name \cap {Blank, LegacyProfile} = {}
  BY MigrationAssumption
<1>1. seed_feed.profile \in Profile /\ seed_feed.follows \in Follows
  BY <1>0 DEF seed_feed, Profile, Follows, Text
<1>2. seed_feed \in OwnFeed
  BY <1>1 DEF seed_feed, OwnFeed
<1>3. ProfileOK(seed_feed.profile, n) /\ FollowsOK(seed_feed.follows, n, b, w)
  BY <1>0, <1>1 DEF seed_feed, ProfileOK, FollowsOK
<1>4. QED
  BY <1>2, <1>3 DEF FeedOK, DeltaOK, OwnFeed

\* A feed offered as an update.
LEMMA FeedAsDelta ==
  ASSUME NEW n, NEW b, NEW w, NEW f, FeedOK(f, n, b, w)
  PROVE  DeltaOK(f, n, b, w)
BY DEF FeedOK, DeltaOK, OwnFeed

\* The initial states satisfy the invariant.
LEMMA InitInv == MigrationInit => MigrationInv
<1> SUFFICES ASSUME MigrationInit PROVE MigrationInv
  OBVIOUS
<1>0. MaxEdits \in Nat /\ MaxLost \in Nat /\ MaxSessions \in Nat /\ CONFIRM_TRIES \in Nat
  BY MigrationAssumption
<1>1. FeedOK(net, edits, blind, unfollowed)
  BY SeedOK DEF MigrationInit
<1>2. MigrationTypeOK
  <2>1. /\ edits \in 0..MaxEdits /\ losses \in 0..MaxLost /\ sessions \in 0..MaxSessions
        /\ tries \in [Device -> 0..CONFIRM_TRIES]
    BY <1>0 DEF MigrationInit
  <2>2. net \in OwnFeed
    BY <1>1 DEF FeedOK
  <2>3. QED
    BY <2>1, <2>2 DEF MigrationInit, MigrationTypeOK
<1>3. QED
  BY <1>1, <1>2 DEF MigrationInit, MigrationInv

-----------------------------------------------------------------------------
(* One lemma per action.                                                   *)

\* A copy that took what the network holds.
LEMMA HearFeedInv == ASSUME MigrationInv, NEW d \in Device, HearFeed(d) PROVE MigrationInv'
<1>0. MaxEdits \in Nat
  BY MigrationAssumption
<1>1. edits \in Nat /\ blind \in BOOLEAN /\ FeedOK(net, edits, blind, unfollowed)
  BY <1>0 DEF MigrationInv, MigrationTypeOK
<1>2. UNCHANGED <<net, wire, pointers, LEGACY_FEEDS, V1_MIGRATION, started, tries, marker,
                  edits, losses, sessions, touched, unfollowed, blind>>
  BY DEF HearFeed
<1>3. /\ FEEDS \in [Device -> OwnFeed \cup {Nobody}]
      /\ FEEDS' = [FEEDS EXCEPT ![d] = FEEDS'[d]]
      /\ FEEDS'[d] = net \/ (FEEDS[d] # Nobody /\ FEEDS'[d] = merge_feed(FEEDS[d], net))
  BY DEF HearFeed, MigrationInv, MigrationTypeOK
<1>4. /\ FeedOK(FEEDS'[d], edits, blind, unfollowed)
      /\ d \notin touched => Behind(FEEDS'[d], net)
  <2>0. net.profile.version \in Nat /\ net.follows.version \in Nat
    BY <1>0, <1>1 DEF FeedOK, ProfileOK, FollowsOK, Profile, Follows
  <2>1. CASE FEEDS'[d] = net
    BY <2>0, <2>1, <1>1 DEF Behind
  <2>2. CASE FEEDS[d] # Nobody /\ FEEDS'[d] = merge_feed(FEEDS[d], net)
    <3>1. FeedOK(FEEDS[d], edits, blind, unfollowed)
      BY <2>2 DEF MigrationInv
    <3>2. DeltaOK(net, edits, blind, unfollowed)
      BY <1>1, FeedAsDelta
    <3>3. /\ FeedOK(FEEDS'[d], edits, blind, unfollowed)
          /\ FEEDS'[d].profile \in {FEEDS[d].profile, net.profile}
          /\ FEEDS'[d].follows \in {FEEDS[d].follows, net.follows}
      BY <1>1, <2>2, <3>1, <3>2, MergeKeeps
    <3>4. d \notin touched => Behind(FEEDS[d], net)
      BY <2>2 DEF MigrationInv
    <3>5. QED
      BY <2>0, <3>3, <3>4 DEF Behind
  <2>3. QED
    BY <1>3, <2>1, <2>2
<1>5. MigrationTypeOK'
  BY <1>2, <1>3, <1>4 DEF MigrationInv, MigrationTypeOK, FeedOK
<1>6. ASSUME NEW e \in Device, FEEDS'[e] # Nobody
      PROVE  /\ FeedOK(FEEDS'[e], edits, blind, unfollowed)
             /\ e \notin touched => Behind(FEEDS'[e], net)
  BY <1>3, <1>4, <1>6 DEF MigrationInv
<1>7. ASSUME NEW e \in Device, tries'[e] > 0 PROVE FEEDS'[e] # Nobody
  <2>1. FEEDS'[d] # Nobody
    BY <1>4, NobodyAssumption DEF FeedOK
  <2>2. QED
    BY <1>2, <1>3, <1>7, <2>1 DEF MigrationInv
<1>8. QED
  BY <1>2, <1>5, <1>6, <1>7 DEF MigrationInv

\* A profile edit: the device is touched from now on.
LEMMA publish_profileInv ==
  ASSUME MigrationInv, NEW d \in Device, NEW n \in Name, publish_profile(d, n)
  PROVE  MigrationInv'
<1>0. MaxEdits \in Nat /\ Name \cap {Blank, LegacyProfile} = {}
  BY MigrationAssumption
<1>1. /\ edits \in 0..MaxEdits /\ edits < MaxEdits /\ edits' = edits + 1 /\ edits' \in 0..MaxEdits
      /\ blind \in BOOLEAN
  BY <1>0 DEF MigrationInv, MigrationTypeOK, publish_profile, Within
<1>2. /\ UNCHANGED <<net, pointers, LEGACY_FEEDS, V1_MIGRATION, started, tries, marker,
                     losses, sessions, unfollowed, blind>>
      /\ touched' = touched \cup {d}
  BY DEF publish_profile
<1> DEFINE rec == [version |-> FEEDS[d].profile.version + 1, value |-> n]
<1>3. FEEDS[d] # Nobody /\ FeedOK(FEEDS[d], edits, blind, unfollowed)
  BY DEF publish_profile, MigrationInv
<1>4. FEEDS[d].profile.version \in 0..edits + 1
  BY <1>0, <1>3 DEF FeedOK, ProfileOK, Profile
<1>5. ProfileOK(rec, edits') /\ rec \in Profile
  BY <1>0, <1>1, <1>4 DEF ProfileOK, Profile, Text
<1>6. wire' = wire \cup {[empty_delta EXCEPT !.profile = rec]}
  BY DEF publish_profile
<1>7. DeltaOK([empty_delta EXCEPT !.profile = rec], edits', blind, unfollowed)
  BY <1>5 DEF DeltaOK, empty_delta
<1>8. [empty_delta EXCEPT !.profile = rec] \in Delta
  BY <1>5 DEF empty_delta, Delta
<1>9. /\ FEEDS \in [Device -> OwnFeed \cup {Nobody}]
      /\ FEEDS' = [FEEDS EXCEPT ![d].profile = rec]
  BY DEF publish_profile, MigrationInv, MigrationTypeOK
<1> HIDE DEF rec
<1>10. /\ FEEDS'[d] = [FEEDS[d] EXCEPT !.profile = rec]
       /\ FEEDS'[d].profile = rec /\ FEEDS'[d].follows = FEEDS[d].follows
       /\ FEEDS'[d] \in OwnFeed
  BY <1>3, <1>5, <1>9 DEF FeedOK, OwnFeed
<1>11. /\ \A f : FeedOK(f, edits, blind, unfollowed) => FeedOK(f, edits', blind, unfollowed)
       /\ \A u : DeltaOK(u, edits, blind, unfollowed) => DeltaOK(u, edits', blind, unfollowed)
  BY <1>0, <1>1, RecordsLast
<1>12. FeedOK(FEEDS'[d], edits', blind, unfollowed)
  BY <1>3, <1>5, <1>10, <1>11 DEF FeedOK
<1>13. MigrationTypeOK'
  BY <1>1, <1>2, <1>6, <1>8, <1>9, <1>10 DEF MigrationInv, MigrationTypeOK
<1>14. ASSUME NEW e \in Device, FEEDS'[e] # Nobody
       PROVE  /\ FeedOK(FEEDS'[e], edits', blind, unfollowed)
              /\ e \notin touched' => Behind(FEEDS'[e], net)
  BY <1>2, <1>9, <1>11, <1>12, <1>14 DEF MigrationInv
<1>15. \A u \in wire' : DeltaOK(u, edits', blind, unfollowed)
  BY <1>6, <1>7, <1>11 DEF MigrationInv
<1>16. FeedOK(net, edits', blind, unfollowed)
  BY <1>11 DEF MigrationInv
<1>17. \A e \in Device : marker'[e] = "done" /\ e \notin touched' => Held(net')
  BY <1>2 DEF MigrationInv
<1>18. ASSUME NEW e \in Device, tries'[e] > 0 PROVE FEEDS'[e] # Nobody
  BY <1>2, <1>9, <1>10, <1>18, NobodyAssumption DEF MigrationInv
<1>19. QED
  BY <1>2, <1>13, <1>14, <1>15, <1>16, <1>17, <1>18 DEF MigrationInv

\* An edit of the follow list: blind, or it starts from the whole legacy list.
LEMMA set_followInv ==
  ASSUME MigrationInv, NEW d \in Device, NEW t \in Followee, NEW follow \in BOOLEAN,
         set_follow(d, t, follow)
  PROVE  MigrationInv'
<1>0. MaxEdits \in Nat /\ LegacyFollows \subseteq Followee
  BY MigrationAssumption
<1>1. /\ edits \in 0..MaxEdits /\ edits < MaxEdits /\ edits' = edits + 1 /\ edits' \in 1..MaxEdits
      /\ blind \in BOOLEAN /\ blind' \in BOOLEAN /\ (blind => blind')
      /\ unfollowed \subseteq unfollowed' /\ unfollowed' \subseteq Followee
  BY <1>0 DEF MigrationInv, MigrationTypeOK, set_follow, Within
<1>2. /\ UNCHANGED <<net, LEGACY_FEEDS, V1_MIGRATION, started, tries, marker, losses, sessions>>
      /\ touched' = touched \cup {d}
      /\ pointers' \subseteq pointers \cup {[target |-> t, id |-> edits']}
  BY DEF set_follow
<1> DEFINE old == effective_follows(d)
<1> DEFINE list == IF follow THEN old \cup {t} ELSE old \ {t}
<1> DEFINE rec == [version |-> FEEDS[d].follows.version + 1, value |-> list]
<1>3. FEEDS[d] # Nobody /\ FeedOK(FEEDS[d], edits, blind, unfollowed)
  BY DEF set_follow, MigrationInv
<1>4. /\ FEEDS[d].follows.version \in 0..edits + 1
      /\ FEEDS[d].follows.value \subseteq Followee
  BY <1>0, <1>3 DEF FeedOK, FollowsOK, Follows
<1>5. old \subseteq Followee /\ list \subseteq Followee
  BY <1>0, <1>4 DEF effective_follows, follows_of
<1>6. ~blind' => LegacyFollows \subseteq old \cup unfollowed
  <2> SUFFICES ASSUME ~blind' PROVE LegacyFollows \subseteq old \cup unfollowed
    OBVIOUS
  <2>1. ~blind /\ (LEGACY_FEEDS[d] \/ written_since_rotation(FEEDS[d].follows.version))
    BY DEF set_follow
  <2>2. CASE FEEDS[d].follows.version > 0
    <3>1. old = FEEDS[d].follows.value
      BY <2>2 DEF effective_follows, follows_of, written_since_rotation
    <3>2. QED
      BY <1>3, <2>1, <2>2, <3>1 DEF FeedOK, FollowsOK
  <2>3. CASE ~(FEEDS[d].follows.version > 0)
    <3>1. LEGACY_FEEDS[d]
      BY <2>1, <2>3 DEF written_since_rotation
    <3>2. old = LegacyFollows
      BY <2>3, <3>1 DEF effective_follows, follows_of, written_since_rotation
    <3>3. QED
      BY <3>2
  <2>4. QED
    BY <2>2, <2>3
<1>7. ~blind' => LegacyFollows \subseteq list \cup unfollowed'
  <2>1. unfollowed' = IF follow THEN unfollowed ELSE unfollowed \cup {t}
    BY DEF set_follow
  <2> HIDE DEF old
  <2>2. QED
    BY <1>6, <2>1
<1>8. /\ wire' = wire \cup {[empty_delta EXCEPT !.follows = rec]}
      /\ FEEDS' = [FEEDS EXCEPT ![d].follows = rec]
  BY DEF set_follow
<1> HIDE DEF list
<1>9. rec \in Follows /\ FollowsOK(rec, edits', blind', unfollowed')
  <2>1. rec.version \in 0..MaxEdits + 1 /\ rec.version <= edits' + 1
    BY <1>0, <1>1, <1>4
  <2>2. rec.value = list
    OBVIOUS
  <2>3. rec \in Follows
    BY <2>1, <1>5 DEF Follows
  <2>4. QED
    BY <2>1, <2>2, <2>3, <1>7 DEF FollowsOK
<1> HIDE DEF rec
<1>10. /\ DeltaOK([empty_delta EXCEPT !.follows = rec], edits', blind', unfollowed')
       /\ [empty_delta EXCEPT !.follows = rec] \in Delta
  BY <1>9 DEF DeltaOK, empty_delta, Delta
<1>11. FEEDS \in [Device -> OwnFeed \cup {Nobody}]
  BY DEF MigrationInv, MigrationTypeOK
<1>12. /\ FEEDS'[d].follows = rec /\ FEEDS'[d].profile = FEEDS[d].profile
       /\ FEEDS'[d] \in OwnFeed
  BY <1>3, <1>8, <1>9, <1>11 DEF FeedOK, OwnFeed
<1>13. /\ \A f : FeedOK(f, edits, blind, unfollowed) => FeedOK(f, edits', blind', unfollowed')
       /\ \A u : DeltaOK(u, edits, blind, unfollowed) => DeltaOK(u, edits', blind', unfollowed')
  BY <1>0, <1>1, RecordsLast
<1>14. FeedOK(FEEDS'[d], edits', blind', unfollowed')
  BY <1>3, <1>9, <1>12, <1>13 DEF FeedOK
<1>15. pointers' \subseteq Pointer
  <2>1. [target |-> t, id |-> edits'] \in Pointer
    BY <1>1 DEF Pointer
  <2>2. QED
    BY <1>2, <2>1 DEF MigrationInv, MigrationTypeOK
<1>16. MigrationTypeOK'
  <2>1. FEEDS' \in [Device -> OwnFeed \cup {Nobody}]
    BY <1>8, <1>11, <1>12
  <2>2. wire' \subseteq Delta /\ touched' \subseteq Device /\ edits' \in 0..MaxEdits
    BY <1>1, <1>2, <1>8, <1>10 DEF MigrationInv, MigrationTypeOK
  <2>3. QED
    BY <1>1, <1>2, <1>15, <2>1, <2>2 DEF MigrationInv, MigrationTypeOK
<1>17. ASSUME NEW e \in Device, FEEDS'[e] # Nobody
       PROVE  /\ FeedOK(FEEDS'[e], edits', blind', unfollowed')
              /\ e \notin touched' => Behind(FEEDS'[e], net)
  BY <1>2, <1>8, <1>11, <1>13, <1>14, <1>17 DEF MigrationInv
<1>18. \A u \in wire' : DeltaOK(u, edits', blind', unfollowed')
  BY <1>8, <1>10, <1>13 DEF MigrationInv
<1>19. FeedOK(net, edits', blind', unfollowed')
  BY <1>13 DEF MigrationInv
<1>20. \A e \in Device : marker'[e] = "done" /\ e \notin touched' => Held(net')
  BY <1>2 DEF MigrationInv
<1>21. ASSUME NEW e \in Device, tries'[e] > 0 PROVE FEEDS'[e] # Nobody
  BY <1>2, <1>8, <1>11, <1>12, <1>21, NobodyAssumption DEF MigrationInv
<1>22. QED
  BY <1>2, <1>16, <1>17, <1>18, <1>19, <1>20, <1>21 DEF MigrationInv

\* What a run owes is what records must be: the first version after the
\* rotation, with the whole legacy list.
LEMMA OwedOK ==
  ASSUME NEW n \in 0..MaxEdits, NEW b \in BOOLEAN, NEW w, NEW f, FeedOK(f, n, b, w)
  PROVE  LET owed == identity_to_migrate(f)
         IN /\ owed.profile # Nobody => owed.profile \in Profile /\ ProfileOK(owed.profile, n)
            /\ owed.follows # Nobody => owed.follows \in Follows /\ FollowsOK(owed.follows, n, b, w)
<1> DEFINE owed == identity_to_migrate(f)
<1>0. /\ MaxEdits \in Nat /\ Name \cap {Blank, LegacyProfile} = {}
      /\ LegacyFollows \subseteq Followee
  BY MigrationAssumption
<1>1. f.profile.version \in Nat /\ f.follows.version \in Nat
  BY <1>0 DEF FeedOK, ProfileOK, FollowsOK, Profile, Follows
<1>2. owed.profile = Nobody \/ owed.profile = [version |-> 1, value |-> LegacyProfile]
  BY <1>1 DEF identity_to_migrate, written_since_rotation
<1>3. owed.follows = Nobody \/ owed.follows = [version |-> 1, value |-> LegacyFollows]
  BY <1>1 DEF identity_to_migrate, written_since_rotation
<1> HIDE DEF owed
<1>4. /\ [version |-> 1, value |-> LegacyProfile] \in Profile
      /\ ProfileOK([version |-> 1, value |-> LegacyProfile], n)
  BY <1>0 DEF ProfileOK, Profile, Text
<1>5. /\ [version |-> 1, value |-> LegacyFollows] \in Follows
      /\ FollowsOK([version |-> 1, value |-> LegacyFollows], n, b, w)
  BY <1>0 DEF FollowsOK, Follows
<1>6. QED
  BY <1>2, <1>3, <1>4, <1>5 DEF owed

\* A run that owes nothing looks at a copy with both registers written.
LEMMA NothingOwedHeld ==
  ASSUME NEW f \in OwnFeed, NothingOwed(f) PROVE Held(f)
<1>1. MaxEdits \in Nat /\ LegacyFollows \subseteq Followee
  BY MigrationAssumption
<1>2. f.profile.version \in Nat /\ f.follows.version \in Nat
  BY <1>1 DEF OwnFeed, Profile, Follows
<1>3. /\ [version |-> 1, value |-> LegacyProfile] # Nobody
      /\ [version |-> 1, value |-> LegacyFollows] # Nobody
  BY <1>1, NobodyAssumption DEF Profile, Follows, Text
<1>4. f.profile.version # 0
  BY <1>2, <1>3 DEF NothingOwed, identity_to_migrate, written_since_rotation
<1>5. f.follows.version # 0
  BY <1>2, <1>3 DEF NothingOwed, identity_to_migrate, written_since_rotation
<1>6. QED
  BY <1>2, <1>4, <1>5 DEF Held

\* The legacy feed is mentioned by its arrival only.
LEMMA HearLegacyInv ==
  ASSUME MigrationInv, NEW d \in Device, HearLegacy(d) PROVE MigrationInv'
<1>1. /\ LEGACY_FEEDS' = [LEGACY_FEEDS EXCEPT ![d] = TRUE]
      /\ UNCHANGED <<net, wire, pointers, FEEDS, V1_MIGRATION, started, tries, marker, edits,
                     losses, sessions, touched, unfollowed, blind>>
  BY DEF HearLegacy
<1>2. MigrationTypeOK'
  BY <1>1 DEF MigrationInv, MigrationTypeOK
<1>3. QED
  BY <1>1, <1>2 DEF MigrationInv

\* A run sends what it owes and keeps its own copy as it is.
LEMMA migrate_v1Inv ==
  ASSUME MigrationInv, NEW d \in Device, migrate_v1(d) PROVE MigrationInv'
<1>0. /\ MaxEdits \in Nat /\ CONFIRM_TRIES \in Nat \ {0}
      /\ LegacyFollows \subseteq Followee /\ ReplyTo \in [LegacyPost -> Followee \cup {Nobody}]
  BY MigrationAssumption
<1> DEFINE owed == identity_to_migrate(FEEDS[d])
<1> DEFINE posts == posts_to_migrate(FEEDS[d])
<1> DEFINE update == [profile |-> owed.profile, follows |-> owed.follows, posts |-> posts]
<1> DEFINE announce_to == IF owed.follows # Nobody THEN owed.follows.value
                          ELSE FEEDS[d].follows.value
<1>1. /\ UNCHANGED <<net, FEEDS, LEGACY_FEEDS, V1_MIGRATION, marker, edits, losses, sessions,
                     touched, unfollowed, blind>>
      /\ started' = [started EXCEPT ![d] = TRUE]
      /\ tries' = [tries EXCEPT ![d] = 1]
      /\ wire' \subseteq wire \cup {update}
      /\ pointers' = pointers
            \cup {[target |-> ReplyTo[p], id |-> p] :
                    p \in {q \in LegacyPost : ReplyTo[q] # Nobody}}
            \cup [target : announce_to, id : {MIGRATION_ANNOUNCE_MS}]
  BY DEF migrate_v1
<1>2. FeedOK(FEEDS[d], edits, blind, unfollowed) /\ edits \in 0..MaxEdits /\ blind \in BOOLEAN
  BY DEF migrate_v1, MigrationInv, MigrationTypeOK
<1>3. /\ owed.profile # Nobody
           => owed.profile \in Profile /\ ProfileOK(owed.profile, edits)
      /\ owed.follows # Nobody
           => owed.follows \in Follows /\ FollowsOK(owed.follows, edits, blind, unfollowed)
  BY <1>2, OwedOK
<1>4. posts \subseteq LegacyPost
  BY DEF posts_to_migrate
<1>5. announce_to \subseteq Followee
  BY <1>2, <1>3 DEF FeedOK, OwnFeed, Follows
<1> HIDE DEF owed, posts, announce_to
<1>6. update \in Delta /\ DeltaOK(update, edits, blind, unfollowed)
  BY <1>3, <1>4 DEF Delta, DeltaOK
<1> HIDE DEF update
<1>7. pointers' \subseteq Pointer
  <2>1. pointers \subseteq Pointer
    BY DEF MigrationInv, MigrationTypeOK
  <2>2. ASSUME NEW p \in LegacyPost, ReplyTo[p] # Nobody
        PROVE  [target |-> ReplyTo[p], id |-> p] \in Pointer
    BY <1>0, <2>2 DEF Pointer
  <2>3. [target : announce_to, id : {MIGRATION_ANNOUNCE_MS}] \subseteq Pointer
    BY <1>5 DEF Pointer
  <2>4. QED
    BY <1>1, <2>1, <2>2, <2>3
<1>8. MigrationTypeOK'
  <2>1. tries' \in [Device -> 0..CONFIRM_TRIES] /\ started' \in [Device -> BOOLEAN]
    BY <1>0, <1>1 DEF MigrationInv, MigrationTypeOK
  <2>2. wire' \subseteq Delta
    BY <1>1, <1>6 DEF MigrationInv, MigrationTypeOK
  <2>3. QED
    BY <1>1, <1>7, <2>1, <2>2 DEF MigrationInv, MigrationTypeOK
<1>9. \A u \in wire' : DeltaOK(u, edits, blind, unfollowed)
  BY <1>1, <1>6 DEF MigrationInv
<1>10. ASSUME NEW e \in Device, tries'[e] > 0 PROVE FEEDS'[e] # Nobody
  <2>1. FEEDS[d] # Nobody
    BY DEF migrate_v1
  <2>2. QED
    BY <1>1, <1>10, <2>1 DEF MigrationInv, MigrationTypeOK
<1>11. QED
  BY <1>1, <1>8, <1>9, <1>10 DEF MigrationInv

\* The marker is set by a copy that has both registers past version 0; if the
\* network is ahead of that copy it has them too.
LEMMA confirm_identity_migratedInv ==
  ASSUME MigrationInv, NEW d \in Device, confirm_identity_migrated(d)
  PROVE  MigrationInv'
<1>0. MaxEdits \in Nat /\ CONFIRM_TRIES \in Nat \ {0}
  BY MigrationAssumption
<1>1. /\ UNCHANGED <<net, wire, pointers, FEEDS, LEGACY_FEEDS, started, edits, losses,
                     sessions, touched, unfollowed, blind>>
      /\ tries' = [tries EXCEPT ![d] = 0]
         \/ tries' = [tries EXCEPT ![d] = IF @ = CONFIRM_TRIES THEN 0 ELSE @ + 1]
      /\ \/ /\ NothingOwed(FEEDS[d])
            /\ marker' = [marker EXCEPT ![d] = "done"]
            /\ V1_MIGRATION' = [V1_MIGRATION EXCEPT ![d] = "Done"]
         \/ UNCHANGED <<marker, V1_MIGRATION>>
  BY DEF confirm_identity_migrated
<1>2. FEEDS[d] # Nobody
  BY DEF confirm_identity_migrated, MigrationInv
<1>3. MigrationTypeOK'
  <2>1. tries' \in [Device -> 0..CONFIRM_TRIES]
    BY <1>0, <1>1 DEF MigrationInv, MigrationTypeOK
  <2>2. /\ marker' \in [Device -> {"absent", "done"}]
        /\ V1_MIGRATION' \in [Device -> {"Pending", "Done"}]
    BY <1>1 DEF MigrationInv, MigrationTypeOK
  <2>3. QED
    BY <1>1, <2>1, <2>2 DEF MigrationInv, MigrationTypeOK
<1>4. ASSUME NEW e \in Device, marker'[e] = "done", e \notin touched PROVE Held(net)
  <2>1. CASE marker[e] = "done"
    BY <1>4, <2>1 DEF MigrationInv
  <2>2. CASE marker[e] # "done"
    <3>1. e = d /\ NothingOwed(FEEDS[d])
      BY <1>1, <1>4, <2>2 DEF MigrationInv, MigrationTypeOK
    <3>2. FeedOK(FEEDS[d], edits, blind, unfollowed) /\ Behind(FEEDS[d], net)
      BY <1>4, <1>2, <3>1 DEF MigrationInv
    <3>3. Held(FEEDS[d])
      BY <3>1, <3>2, NothingOwedHeld DEF FeedOK
    <3>4. QED
      BY <1>0, <3>2, <3>3 DEF MigrationInv, FeedOK, ProfileOK, FollowsOK, Profile, Follows,
                              Behind, Held
  <2>3. QED
    BY <2>1, <2>2
<1>5. ASSUME NEW e \in Device, tries'[e] > 0 PROVE FEEDS'[e] # Nobody
  BY <1>0, <1>1, <1>5, <1>2 DEF MigrationInv, MigrationTypeOK
<1>6. QED
  BY <1>1, <1>3, <1>4, <1>5 DEF MigrationInv

\* An update reaches the network.
LEMMA ApplyInv ==
  ASSUME MigrationInv, NEW u \in wire, Apply(u) PROVE MigrationInv'
<1>1. /\ UNCHANGED <<pointers, FEEDS, LEGACY_FEEDS, V1_MIGRATION, started, tries, marker,
                     edits, losses, sessions, touched, unfollowed, blind>>
      /\ net' = merge_feed(net, u)
      /\ wire' \subseteq wire
  BY DEF Apply
<1>2. DeltaOK(u, edits, blind, unfollowed)
  BY DEF MigrationInv
<1>3. /\ FeedOK(net', edits, blind, unfollowed)
      /\ \A d \in Device : FEEDS[d] # Nobody /\ d \notin touched => Behind(FEEDS[d], net')
      /\ Held(net) => Held(net')
  BY <1>1, <1>2, NetworkMoves
<1>4. MigrationTypeOK'
  BY <1>1, <1>3 DEF MigrationInv, MigrationTypeOK, FeedOK
<1>5. QED
  BY <1>1, <1>3, <1>4 DEF MigrationInv

\* An update is lost.
LEMMA LoseInv ==
  ASSUME MigrationInv, NEW u \in wire, Lose(u) PROVE MigrationInv'
<1>0. MaxLost \in Nat
  BY MigrationAssumption
<1>1. /\ UNCHANGED <<net, pointers, FEEDS, LEGACY_FEEDS, V1_MIGRATION, started, tries, marker,
                     edits, sessions, touched, unfollowed, blind>>
      /\ losses < MaxLost /\ losses' = losses + 1
      /\ wire' \subseteq wire
  BY DEF Lose, Within
<1>2. MigrationTypeOK'
  BY <1>0, <1>1 DEF MigrationInv, MigrationTypeOK
<1>3. QED
  BY <1>1, <1>2 DEF MigrationInv

\* A session begins with no copy, and with its marker forgotten unless it
\* was done: a device whose marker counts stays touched.
LEMMA resume_accountInv ==
  ASSUME MigrationInv, NEW d \in Device, resume_account(d) PROVE MigrationInv'
<1>0. MaxSessions \in Nat /\ CONFIRM_TRIES \in Nat \ {0} /\ MaxEdits \in Nat
  BY MigrationAssumption
<1>1. /\ UNCHANGED <<wire, pointers, marker, edits, losses, unfollowed, blind>>
      /\ sessions < MaxSessions /\ sessions' = sessions + 1
      /\ net' = merge_feed(net, seed_feed)
      /\ FEEDS' = [FEEDS EXCEPT ![d] = Nobody]
      /\ LEGACY_FEEDS' = [LEGACY_FEEDS EXCEPT ![d] = FALSE]
      /\ V1_MIGRATION' = [V1_MIGRATION EXCEPT ![d] = decode(marker[d])]
      /\ started' = [started EXCEPT ![d] = FALSE]
      /\ tries' = [tries EXCEPT ![d] = 0]
      /\ touched' = IF marker[d] = "done" THEN touched ELSE touched \ {d}
  BY DEF resume_account, Within
<1>2. edits \in Nat /\ blind \in BOOLEAN
  BY <1>0 DEF MigrationInv, MigrationTypeOK
<1>3. /\ FeedOK(net', edits, blind, unfollowed)
      /\ \A e \in Device : FEEDS[e] # Nobody /\ e \notin touched => Behind(FEEDS[e], net')
      /\ Held(net) => Held(net')
  BY <1>1, <1>2, SeedOK, NetworkMoves
<1>4. MigrationTypeOK'
  <2>1. /\ FEEDS' \in [Device -> OwnFeed \cup {Nobody}]
        /\ LEGACY_FEEDS' \in [Device -> BOOLEAN] /\ started' \in [Device -> BOOLEAN]
        /\ V1_MIGRATION' \in [Device -> {"Pending", "Done"}]
        /\ tries' \in [Device -> 0..CONFIRM_TRIES]
    BY <1>0, <1>1 DEF MigrationInv, MigrationTypeOK, decode
  <2>2. sessions' \in 0..MaxSessions /\ touched' \subseteq Device
    BY <1>0, <1>1 DEF MigrationInv, MigrationTypeOK
  <2>3. QED
    BY <1>1, <1>3, <2>1, <2>2 DEF MigrationInv, MigrationTypeOK, FeedOK
<1>5. ASSUME NEW e \in Device, FEEDS'[e] # Nobody
      PROVE  /\ FeedOK(FEEDS'[e], edits, blind, unfollowed)
             /\ e \notin touched' => Behind(FEEDS'[e], net')
  <2>1. e # d /\ FEEDS'[e] = FEEDS[e]
    BY <1>1, <1>5 DEF MigrationInv, MigrationTypeOK
  <2>2. QED
    BY <1>1, <1>3, <1>5, <2>1 DEF MigrationInv
<1>6. ASSUME NEW e \in Device, marker[e] = "done", e \notin touched' PROVE Held(net')
  <2>1. e \notin touched
    BY <1>1, <1>6
  <2>2. QED
    BY <1>3, <1>6, <2>1 DEF MigrationInv
<1>7. ASSUME NEW e \in Device, tries'[e] > 0 PROVE FEEDS'[e] # Nobody
  BY <1>1, <1>7 DEF MigrationInv, MigrationTypeOK
<1>8. QED
  BY <1>1, <1>3, <1>4, <1>5, <1>6, <1>7 DEF MigrationInv
\* Every step keeps the invariant.
LEMMA NextInv == MigrationInv /\ [MigrationNext]_migrationVars => MigrationInv'
<1> SUFFICES ASSUME MigrationInv, [MigrationNext]_migrationVars PROVE MigrationInv'
  OBVIOUS
<1>1. ASSUME NEW d \in Device, HearFeed(d) PROVE MigrationInv'
  BY <1>1, HearFeedInv
<1>2. ASSUME NEW d \in Device, HearLegacy(d) PROVE MigrationInv'
  BY <1>2, HearLegacyInv
<1>3. ASSUME NEW d \in Device, NEW n \in Name, publish_profile(d, n) PROVE MigrationInv'
  BY <1>3, publish_profileInv
<1>4. ASSUME NEW d \in Device, NEW t \in Followee, NEW follow \in BOOLEAN, set_follow(d, t, follow)
      PROVE  MigrationInv'
  BY <1>4, set_followInv
<1>5. ASSUME NEW d \in Device, migrate_v1(d) PROVE MigrationInv'
  BY <1>5, migrate_v1Inv
<1>6. ASSUME NEW d \in Device, confirm_identity_migrated(d) PROVE MigrationInv'
  BY <1>6, confirm_identity_migratedInv
<1>7. ASSUME NEW u \in wire, Apply(u) PROVE MigrationInv'
  BY <1>7, ApplyInv
<1>8. ASSUME NEW u \in wire, Lose(u) PROVE MigrationInv'
  BY <1>8, LoseInv
<1>9. ASSUME NEW d \in Device, resume_account(d) PROVE MigrationInv'
  BY <1>9, resume_accountInv
<1>10. ASSUME UNCHANGED migrationVars PROVE MigrationInv'
  BY <1>10 DEF migrationVars, MigrationInv, MigrationTypeOK
<1>11. QED
  BY <1>1, <1>2, <1>3, <1>4, <1>5, <1>6, <1>7, <1>8, <1>9, <1>10 DEF MigrationNext

\* The invariant is one.
LEMMA MigrationInvariance == MigrationSpec => []MigrationInv
BY InitInv, NextInv, PTL DEF MigrationSpec

-----------------------------------------------------------------------------
(* Theorems.                                                               *)

\* Every variable keeps its type: no edit, migration or session writes a
\* register version past the number of edits and one migration.
THEOREM MigrationTypesHold == MigrationSpec => []MigrationTypeOK
<1>1. MigrationInv => MigrationTypeOK
  BY DEF MigrationInv
<1>2. QED
  BY <1>1, MigrationInvariance, PTL

\* No legacy followee is ever missing from the network's list but those the
\* owner dropped, unless a list was edited before the legacy list arrived
\* (set_follow and migrate_v1, on any number of devices).
THEOREM FollowsKeptHolds == MigrationSpec => []FollowsKept
<1>1. MigrationInv => FollowsKept
  BY DEF MigrationInv, FeedOK, FollowsOK, FollowsKept, written_since_rotation
<1>2. QED
  BY <1>1, MigrationInvariance, PTL

\* A network that is past version 0 in both registers owes nothing.
LEMMA HeldOwesNothing ==
  ASSUME NEW f, Held(f) PROVE NothingOwed(f)
BY DEF Held, NothingOwed, identity_to_migrate, written_since_rotation

\* A device that stamped "done" and has no unconfirmed edit of its own may
\* rely on the network: nothing is left to migrate there
\* (confirm_identity_migrated, issue #90).
THEOREM ConfirmedMeansHeldHolds == MigrationSpec => []ConfirmedMeansHeld
<1>1. MigrationInv => ConfirmedMeansHeld
  BY HeldOwesNothing DEF MigrationInv, ConfirmedMeansHeld
<1>2. QED
  BY <1>1, MigrationInvariance, PTL

\* The legacy profile never takes the place of one that the owner wrote,
\* other than by the hash in a tie of versions (identity_to_migrate, #82).
THEOREM LegacyNeverRevertsHolds == MigrationSpec => LegacyNeverReverts
<1> DEFINE Reverts == net.profile.value \in Name /\ net'.profile.value = LegacyProfile
                        => net'.profile.version = net.profile.version
<1>1. MigrationInv /\ [MigrationNext]_migrationVars => [Reverts]_migrationVars
  <2> SUFFICES ASSUME MigrationInv, [MigrationNext]_migrationVars PROVE Reverts
    OBVIOUS
  <2>1. edits \in Nat /\ blind \in BOOLEAN /\ FeedOK(net, edits, blind, unfollowed)
    BY MigrationAssumption DEF MigrationInv, MigrationTypeOK
  <2>2. ASSUME NEW u, DeltaOK(u, edits, blind, unfollowed), net' = merge_feed(net, u)
        PROVE  Reverts
    BY <2>1, <2>2, MergeKeeps
  <2>3. CASE UNCHANGED net
    BY <2>3, MigrationAssumption
  <2>4. ASSUME NEW u \in wire, Apply(u) PROVE Reverts
    BY <2>2, <2>4 DEF Apply, MigrationInv
  <2>5. ASSUME NEW d \in Device, resume_account(d) PROVE Reverts
    BY <2>1, <2>2, <2>5, SeedOK DEF resume_account
  <2>6. UNCHANGED net \/ (\E u \in wire : Apply(u)) \/ (\E d \in Device : resume_account(d))
    BY DEF MigrationNext, migrationVars, HearFeed, HearLegacy, publish_profile, set_follow,
           migrate_v1, confirm_identity_migrated, Lose
  <2>7. QED
    BY <2>3, <2>4, <2>5, <2>6
<1>2. QED
  BY <1>1, MigrationInvariance, PTL DEF MigrationSpec, LegacyNeverReverts
=============================================================================

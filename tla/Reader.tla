------------------------------- MODULE Reader -------------------------------
(***************************************************************************)
(* Whose feeds the page loads: the listed authors on the Discover tab, the *)
(* followed ones, the repliers and ancestors of a thread, the authors who  *)
(* announce that they follow.                                              *)
(*                                                                         *)
(* Sources: ui/src/views.rs (App, Discover, Thread, ThreadPage,            *)
(* AuthorPage, FollowersBox), ui/src/api.rs (fetch_feed, merge_feed).      *)
(*                                                                         *)
(* A view's effects run whenever a signal they read changes.  A GET is     *)
(* answered, or fails with an error that the page only logs.               *)
(***************************************************************************)
EXTENDS Client, Naturals, FiniteSets

CONSTANTS
  Opened,          \* the views the user opens
  Peep,            \* [author, id, parent], the parent a [author, id] or None
  Follows,         \* per author, the second-generation list once written, or None
  LegacyFollows,   \* ... and the list of the first generation, or None
  Pointer,         \* [owner, replier, target, reply], of either generation
  Listed,          \* second-generation listings: [author, time]
  LegacyListed,    \* first-generation listings
  FOLLOW_ANNOUNCE_TARGET,
  SAMPLE

ASSUME ReaderAssumption ==
  /\ \A p \in Peep : p.author \in Author
  /\ Follows \in [Author -> (SUBSET Author) \cup {None}]
  /\ LegacyFollows \in [Author -> (SUBSET Author) \cup {None}]
  /\ SAMPLE \in Nat \ {0}

VARIABLES
  view,          \* VIEW
  FEEDS,         \* per author: "absent", "pending" (the placeholder) or "loaded"
  LEGACY_FEEDS,  \* authors whose legacy feed arrived
  asked,         \* GETs of feeds under way
  INBOXES,         \* pointers in INBOXES
  LEGACY_INBOXES,  \* ... and in LEGACY_INBOXES
  directories,   \* which of the two directories arrived
  attempted      \* authors the Discover tab fetched during this visit

readerVars == <<view, FEEDS, LEGACY_FEEDS, asked, INBOXES, LEGACY_INBOXES, directories, attempted>>

Ref(p) == [author |-> p.author, id |-> p.id]

View == {[tab |-> t] : t \in {"home", "profile", "discover"}}
          \cup {[tab |-> "author", author |-> a] : a \in Author}
          \cup {[tab |-> "thread", post |-> Ref(p)] : p \in Peep}

ASSUME ViewAssumption == Opened \subseteq View

loaded(a) == FEEDS[a] = "loaded"

-----------------------------------------------------------------------------
(* What is read out of what arrived.                                       *)

\* The list that counts: the legacy one until the author wrote another.
follows_of(a) ==
  CASE loaded(a) /\ Follows[a] # None -> Follows[a]
    [] ~(loaded(a) /\ Follows[a] # None) /\ a \in LEGACY_FEEDS -> LegacyFollows[a]
    [] OTHER -> {}

\* The legacy copy of a pointer counts only when the new inbox lacks it.
merged_pointers(owner) ==
  LET v2 == {p \in INBOXES : p.owner = owner}
  IN v2 \cup {p \in LEGACY_INBOXES : p.owner = owner
                /\ \A q \in v2 : <<q.replier, q.reply>> # <<p.replier, p.reply>>}

found(ref) == {p \in Peep : Ref(p) = ref /\ loaded(p.author)}

\* The walk up in_reply_to from a reference, as the references it visits; it
\* ends at the root, at what is not loaded, and where a cycle closes.
ancestor_chain(start) ==
  LET Step[n \in 0..Cardinality(Peep)] ==
        IF n = 0 THEN {start} \ {None}
        ELSE Step[n - 1]
               \cup ({p.parent : p \in UNION {found(r) : r \in Step[n - 1]}} \ {None})
  IN Step[Cardinality(Peep)]

unresolved(start) == {r \in ancestor_chain(start) : found(r) = {}}

\* One row per author, the second generation over the first.
current_listings ==
  LET v2 == IF "v2" \in directories THEN Listed ELSE {}
      v1 == IF "v1" \in directories THEN LegacyListed ELSE {}
  IN v2 \cup {l \in v1 : \A m \in v2 : m.author # l.author}

\* The newest SAMPLE rows; authors of one time in the order of their keys.
sample ==
  {l.author : l \in {x \in current_listings :
     Cardinality({y \in current_listings :
        y.time > x.time \/ (y.time = x.time /\ y.author > x.author)}) < SAMPLE}}

\* Fault: the placeholder of a GET that failed counts as being on its way.
feeds_to_fetch_Placeholder == {a \in sample : FEEDS[a] = "absent" /\ a \notin attempted}

feeds_to_fetch == {a \in sample : ~loaded(a) /\ a \notin attempted}

\* The authors whom the effects on the screen want: the author and the lowest
\* ancestor that is not there yet, ...
ThreadPage(ref) ==
  {ref.author} \cup {r.author : r \in UNION {unresolved(p.parent) : p \in found(ref)}}

\* ... below a post, everybody who points at its author, ...
Thread(ref) ==
  IF found(ref) = {} THEN {} ELSE {p.replier : p \in merged_pointers(ref.author)}

\* ... and on the own profile those who announce that they follow.
FollowersBox ==
  {p.replier : p \in {q \in merged_pointers(Me) : q.target = FOLLOW_ANNOUNCE_TARGET}}

\* With the followed ones, whatever the view; a placeholder is not missing.
missing ==
  LET shown ==
        CASE view.tab = "profile" -> FollowersBox
          [] view.tab = "author"  -> {view.author}
          [] view.tab = "thread"  -> ThreadPage(view.post) \cup Thread(view.post)
          [] OTHER                -> {}
  IN {a \in shown \cup follows_of(Me) : FEEDS[a] = "absent"}

-----------------------------------------------------------------------------
ReaderInit ==
  /\ view = [tab |-> "home"]
  /\ FEEDS = [a \in Author |-> IF a = Me THEN "pending" ELSE "absent"]
  /\ asked = {Me}
  /\ LEGACY_FEEDS = {} /\ INBOXES = {} /\ LEGACY_INBOXES = {} /\ directories = {}
  /\ attempted = {}

\* A placeholder until the answer, and a GET that also asks for the inbox and
\* for the legacy feed and inbox.
fetch(S) ==
  /\ FEEDS' = [a \in Author |-> IF a \in S /\ FEEDS[a] = "absent" THEN "pending" ELSE FEEDS[a]]
  /\ asked' = asked \cup S

\* Leaving a view unmounts it: the Discover tab forgets whom it attempted.
Visit(v) ==
  /\ v # view
  /\ view' = v
  /\ attempted' = {}
  /\ UNCHANGED <<FEEDS, LEGACY_FEEDS, asked, INBOXES, LEGACY_INBOXES, directories>>

FetchMissing ==
  /\ missing # {}
  /\ fetch(missing)
  /\ UNCHANGED <<view, LEGACY_FEEDS, INBOXES, LEGACY_INBOXES, directories, attempted>>

\* One attempt per author and visit.
Discover ==
  /\ view.tab = "discover" /\ feeds_to_fetch # {}
  /\ attempted' = attempted \cup feeds_to_fetch
  /\ fetch(feeds_to_fetch)
  /\ UNCHANGED <<view, LEGACY_FEEDS, INBOXES, LEGACY_INBOXES, directories>>

\* The answer, and from then on the notifications.
Answered(a) ==
  /\ a \in asked
  /\ FEEDS' = [FEEDS EXCEPT ![a] = "loaded"]
  /\ asked' = asked \ {a}
  /\ UNCHANGED <<view, LEGACY_FEEDS, INBOXES, LEGACY_INBOXES, directories, attempted>>

\* A request error is logged; nothing tells the page whose GET it was.
Failed(a) ==
  /\ a \in asked
  /\ asked' = asked \ {a}
  /\ UNCHANGED <<view, FEEDS, LEGACY_FEEDS, INBOXES, LEGACY_INBOXES, directories, attempted>>

HearLegacyFeed(a) ==
  /\ FEEDS[a] # "absent" /\ LegacyFollows[a] # None /\ a \notin LEGACY_FEEDS
  /\ LEGACY_FEEDS' = LEGACY_FEEDS \cup {a}
  /\ UNCHANGED <<view, FEEDS, asked, INBOXES, LEGACY_INBOXES, directories, attempted>>

HearPointer(p) ==
  /\ FEEDS[p.owner] # "absent"
  /\ \/ INBOXES' = INBOXES \cup {p} /\ UNCHANGED LEGACY_INBOXES
     \/ LEGACY_INBOXES' = LEGACY_INBOXES \cup {p} /\ UNCHANGED INBOXES
  /\ UNCHANGED <<view, FEEDS, LEGACY_FEEDS, asked, directories, attempted>>

\* The first visit to Discover asks for both directories.
HearDirectory(g) ==
  /\ view.tab = "discover" /\ g \notin directories
  /\ directories' = directories \cup {g}
  /\ UNCHANGED <<view, FEEDS, LEGACY_FEEDS, asked, INBOXES, LEGACY_INBOXES, attempted>>

ReaderNext ==
  \/ \E v \in Opened : Visit(v)
  \/ FetchMissing
  \/ Discover
  \/ \E a \in Author : Answered(a) \/ Failed(a) \/ HearLegacyFeed(a)
  \/ \E p \in Pointer : HearPointer(p)
  \/ \E g \in {"v1", "v2"} : HearDirectory(g)

\* The effect of a view runs before the user can leave it; a GET that is
\* repeated for ever is answered once.
ReaderFairness ==
  /\ SF_readerVars(Discover)
  /\ \A a \in Author : SF_readerVars(Answered(a))

ReaderSpec == ReaderInit /\ [][ReaderNext]_readerVars /\ ReaderFairness

-----------------------------------------------------------------------------
(* Properties.                                                             *)

\* A GET that failed does not black-hole an author for the session: whoever
\* stays in the sample of the Discover tab is loaded in the end, if the user
\* goes on opening that tab.
ListedLoad ==
  []<><<Visit([tab |-> "discover"])>>_readerVars
    => \A a \in Author : a \in sample ~> (loaded(a) \/ a \notin sample)

=============================================================================

------------------------------ MODULE Account ------------------------------
(***************************************************************************)
(* The account at startup: the posting key kept by the delegate of the     *)
(* node, the probe that carries what older delegate generations stored     *)
(* forward, the screen that is shown meanwhile, and the user who creates,  *)
(* restores or destroys the account while answers are still on their way.  *)
(*                                                                         *)
(* Sources: ui/src/api.rs (probe and dispatch), ui/src/actions.rs,         *)
(* ui/src/views.rs (App), delegates/freebird-delegate, delegate_api.rs.    *)
(*                                                                         *)
(* A page is one load of the app.  Its handlers run to completion: the     *)
(* client is single-threaded, and a send only hands the request to the     *)
(* socket, so that it fails exactly when the socket is closed.             *)
(***************************************************************************)
EXTENDS Integers, Sequences, SequencesExt, FiniteSets

CONSTANTS
  Current,      \* the delegate generation of this build
  Legacy,       \* the older generations of LEGACY_DELEGATE_WASMS
  Seed,         \* posting keys
  Old,          \* the seeds that exist before the first page load
  Setting,      \* the other names the delegate keeps (theme, listing, ...)
  Unanswered,   \* POSTING_KEY_LOADED before the delegate's answer
  None,
  MaxLoads,     \* bound: page loads
  MaxNukes      \* bound: confirmed clicks on "delete forever"

Generation == Legacy \cup {Current}
Key == Setting \cup {"posting_key"}
Stored == "stored"                  \* the value of a setting

ASSUME AccountAssumption ==
  /\ Current \notin Legacy
  /\ IsFiniteSet(Legacy) /\ IsFiniteSet(Setting)
  /\ Old \subseteq Seed
  /\ "posting_key" \notin Setting
  /\ None \notin Seed \cup {Stored} /\ Unanswered \notin Seed \cup {None}
  /\ MaxLoads \in Nat \ {0} /\ MaxNukes \in Nat

Value == Seed \cup {Stored}

VARIABLES
  store,      \* what each delegate generation keeps, by key
  registered, \* the generations the node can run
  attested,   \* by page load: the node attests the page's origin to delegates
  requests,   \* to each generation, in the order sent
  answers,    \* from each generation to this page, in the order sent
  page,       \* the signals and statics of this page load
  loads,      \* page loads so far
  minted,     \* seeds in existence
  destroyed,  \* seeds the user asked to destroy
  lost,       \* a Store or a Delete was lost with its connection
  refused,    \* the kinds of write that some delegate's storage has refused
  nukes,      \* accounts destroyed so far
  haunted     \* a nuke overtook an answer that carries a seed

accountVars == <<store, registered, attested, requests, answers, page, loads,
                 minted, destroyed, lost, refused, nukes, haunted>>

\* FreebirdDelegateRequest, and the registration of a delegate.
Request ==
  [op : {"Register", "List"}, load : 1..MaxLoads]
    \cup [op : {"Get", "Delete"}, key : Key, load : 1..MaxLoads]
    \cup [op : {"Store"}, key : Key, value : Value, load : 1..MaxLoads]

\* FreebirdDelegateResponse, and the empty message list.  Stored and Deleted
\* are ignored by whoever receives them and left out.
Answer ==
  {[kind |-> "Empty"]}
    \cup [kind : {"Value"}, key : Key, value : Value \cup {None}]
    \cup [kind : {"KeyList"}, keys : SUBSET Key]

Page ==
  [socket : {"open", "closed"},
   status : {"Connected", "Error"},
   POSTING_KEY_LOADED : Seed \cup {None, Unanswered},
   ACCOUNT : Seed \cup {None},
   PENDING : BOOLEAN,               \* LEGACY_PROBE_PENDING
   FAILED : BOOLEAN,                \* LEGACY_PROBE_FAILED
   KEY_STORE_UNREACHABLE : BOOLEAN,
   PROBE_DONE : BOOLEAN,
   OUTSTANDING : Int,               \* PROBE_OUTSTANDING
   ACK_BUDGET : Int,                \* LEGACY_ACK_BUDGET
   EMPTY_FREEBIRD : 0..2,           \* counted up to two
   timers : SUBSET {"watchdog", "ceiling"}]

FreshPage ==
  [socket |-> "open", status |-> "Connected", POSTING_KEY_LOADED |-> Unanswered,
   ACCOUNT |-> None, PENDING |-> FALSE, FAILED |-> FALSE,
   KEY_STORE_UNREACHABLE |-> FALSE, PROBE_DONE |-> FALSE, OUTSTANDING |-> 0,
   ACK_BUDGET |-> 0, EMPTY_FREEBIRD |-> 0, timers |-> {"watchdog"}]

-----------------------------------------------------------------------------
(* The screen.                                                             *)

account_gate(onboarded, awaiting_key, timed_out, connected) ==
  CASE onboarded                                              -> "App"
    [] ~onboarded /\ awaiting_key /\ connected /\ timed_out   -> "KeyStoreStuck"
    [] ~onboarded /\ awaiting_key /\ connected /\ ~timed_out  -> "Loading"
    [] ~onboarded /\ ~(awaiting_key /\ connected)             -> "Onboarding"

gate == account_gate(page.ACCOUNT # None,
                     page.POSTING_KEY_LOADED = Unanswered \/ page.PENDING,
                     page.KEY_STORE_UNREACHABLE,
                     page.status = "Connected")

-----------------------------------------------------------------------------
(* The delegate.                                                           *)

\* The keys of the caller, without the prefix of its origin.
keys_of(kv) == {k \in Key : kv[k] # None}

\* What a request leaves in the store of its caller, when the storage of
\* secrets does its part (see Refuse).
handle_store(kv, r) ==
  CASE r.op = "Store"  -> [kv EXCEPT ![r.key] = r.value]
    [] r.op = "Delete" -> [kv EXCEPT ![r.key] = None]
    [] OTHER           -> kv

\* What it answers, when the page has a use for the answer.
handle_request(kv, r) ==
  CASE r.op = "Get"  -> <<[kind |-> "Value", key |-> r.key, value |-> kv[r.key]]>>
    [] r.op = "List" -> <<[kind |-> "KeyList", keys |-> keys_of(kv)]>>
    [] OTHER         -> <<>>

\* The node's part.  A message to a generation it has not registered is
\* dropped; one from a page it does not attest fails in the delegate
\* (missing message origin) and is answered with an empty list.
process(g, r) ==
  CASE r.op = "Register" ->
         [kv |-> store[g], out |-> <<[kind |-> "Empty"]>>]
    [] r.op # "Register" /\ g \notin registered ->
         [kv |-> store[g], out |-> <<>>]
    [] r.op # "Register" /\ g \in registered /\ ~attested[r.load] ->
         [kv |-> store[g], out |-> <<[kind |-> "Empty"]>>]
    [] r.op # "Register" /\ g \in registered /\ attested[r.load] ->
         [kv |-> handle_store(store[g], r), out |-> handle_request(store[g], r)]

-----------------------------------------------------------------------------
(* The page.  A handler yields the page after it and the requests it sends *)
(* to each generation, in order.                                           *)

Register == [op |-> "Register", load |-> loads]
List == [op |-> "List", load |-> loads]
Get(k) == [op |-> "Get", key |-> k, load |-> loads]
Store(k, v) == [op |-> "Store", key |-> k, value |-> v, load |-> loads]
Delete(k) == [op |-> "Delete", key |-> k, load |-> loads]

Nothing == [g \in Generation |-> <<>>]
To(g, rs) == [Nothing EXCEPT ![g] = rs]

send(sent) == requests' = [g \in Generation |-> requests[g] \o sent[g]]

\* Answers the probe is owed, n more of them; the gate drops with the last.
probe_note(p, n) ==
  [p EXCEPT !.OUTSTANDING = @ + n, !.PENDING = @ /\ p.OUTSTANDING + n > 0]

suppress_legacy_probe(p) == [p EXCEPT !.PROBE_DONE = TRUE]

\* Once per page load, and never after a nuke: raise the gate, register
\* every legacy generation and ask it for its keys.
begin_legacy_probe(p) ==
  IF p.PROBE_DONE \/ Legacy = {}
  THEN [page |-> suppress_legacy_probe(p), sent |-> Nothing]
  ELSE [page |-> [suppress_legacy_probe(p) EXCEPT
                    !.PENDING = TRUE,
                    !.OUTSTANDING = Cardinality(Legacy),
                    !.ACK_BUDGET = @ + Cardinality(Legacy),
                    !.timers = @ \cup {"ceiling"}],
        sent |-> [g \in Generation |->
                    IF g \in Legacy THEN <<Register, List>> ELSE <<>>]]

\* The effect on POSTING_KEY_LOADED: resume the account, or probe.
resume_or_probe(p) ==
  CASE p.POSTING_KEY_LOADED \in Seed ->
         [page |-> IF p.ACCOUNT = None
                   THEN [p EXCEPT !.ACCOUNT = p.POSTING_KEY_LOADED] ELSE p,
          sent |-> Nothing]
    [] p.POSTING_KEY_LOADED = None -> begin_legacy_probe(p)
    [] OTHER -> [page |-> p, sent |-> Nothing]

dispatch_kv(a) ==
  IF a.kind = "Value" /\ a.key = "posting_key"
  THEN resume_or_probe([page EXCEPT !.POSTING_KEY_LOADED = a.value])
  ELSE [page |-> page, sent |-> Nothing]

\* A second empty answer of the current generation cannot be the ack of its
\* registration: the node swallows delegate errors.
note_empty_delegate_response(p) ==
  LET seen == p.EMPTY_FREEBIRD + 1
  IN [p EXCEPT !.EMPTY_FREEBIRD = IF seen > 2 THEN 2 ELSE seen,
               !.KEY_STORE_UNREACHABLE =
                 @ \/ (seen >= 2 /\ p.POSTING_KEY_LOADED = Unanswered)]

\* An empty answer of a legacy generation within the budget is an ack.
note_empty_legacy_response(p) ==
  LET spent == [p EXCEPT !.ACK_BUDGET = @ - 1]
  IN IF p.ACK_BUDGET > 0 THEN spent
     ELSE probe_note([spent EXCEPT !.FAILED = TRUE], -1)

\* Fault: the guard against a late answer, dropped.
has_identity_Never(p) == FALSE

\* An identity that is there already wins over the one carried forward.
has_identity(p) == p.ACCOUNT # None \/ p.POSTING_KEY_LOADED \in Seed

\* Fault: the values it asks for are not counted as owed.
legacy_key_list_Uncounted(g, a) ==
  [page |-> probe_note(page, -1),
   sent |-> To(g, SetToSeq({Get(k) : k \in a.keys}))]

legacy_key_list(g, a) ==
  [page |-> probe_note(page, Cardinality(a.keys) - 1),
   sent |-> To(g, SetToSeq({Get(k) : k \in a.keys}))]

legacy_value(a) ==
  LET noted == probe_note(page, -1)
      carry == To(Current, <<Store(a.key, a.value)>>)
  IN CASE a.value = None -> [page |-> noted, sent |-> Nothing]
       [] a.value # None /\ a.key # "posting_key" ->
            [page |-> noted, sent |-> carry]
       [] a.value # None /\ a.key = "posting_key" /\ has_identity(noted) ->
            [page |-> noted, sent |-> Nothing]
       [] a.value # None /\ a.key = "posting_key" /\ ~has_identity(noted) ->
            LET seen == [noted EXCEPT !.POSTING_KEY_LOADED = a.value]
            IN [page |-> resume_or_probe(seen).page, sent |-> carry]

dispatch_legacy_kv(g, a) ==
  IF a.kind = "KeyList" THEN legacy_key_list(g, a) ELSE legacy_value(a)

dispatch(g, a) ==
  CASE a.kind = "Empty" /\ g = Current ->
         [page |-> note_empty_delegate_response(page), sent |-> Nothing]
    [] a.kind = "Empty" /\ g # Current ->
         [page |-> note_empty_legacy_response(page), sent |-> Nothing]
    [] a.kind # "Empty" /\ g = Current -> dispatch_kv(a)
    [] a.kind # "Empty" /\ g # Current -> dispatch_legacy_kv(g, a)

-----------------------------------------------------------------------------
AccountInit ==
  /\ store \in [Generation -> [Key -> Old \cup {Stored, None}]]
  /\ \A g \in Generation :
        /\ store[g]["posting_key"] \in Old \cup {None}
        /\ \A k \in Setting : store[g][k] \in {Stored, None}
  /\ registered = {}
  /\ attested \in [1..MaxLoads -> BOOLEAN]
  /\ loads = 1
  /\ requests = [Nothing EXCEPT ![Current] =
                   <<[op |-> "Register", load |-> 1],
                     [op |-> "Get", key |-> "posting_key", load |-> 1]>>]
  /\ answers = Nothing
  /\ page = FreshPage
  /\ minted = Old
  /\ destroyed = {}
  /\ lost = FALSE
  /\ refused = {}
  /\ nukes = 0
  /\ haunted = FALSE

\* The node handles the next request to a generation.  An answer reaches the
\* page that asked, while its socket is open.
Handle(g) ==
  /\ requests[g] # <<>>
  /\ LET r == Head(requests[g])
         done == process(g, r)
     IN /\ store' = [store EXCEPT ![g] = done.kv]
        /\ registered' = IF r.op = "Register" THEN registered \cup {g} ELSE registered
        /\ answers' = IF r.load = loads /\ page.socket = "open"
                      THEN [answers EXCEPT ![g] = @ \o done.out] ELSE answers
  /\ requests' = [requests EXCEPT ![g] = Tail(@)]
  /\ UNCHANGED <<attested, page, loads, minted, destroyed, lost, refused, nukes, haunted>>

\* The delegate's storage fails on a write: `set` or `remove` returns false
\* and the secrets stay as they were.  The delegate answers Error, which the
\* page logs, or Deleted all the same: nobody tries again.
Refuse(g) ==
  /\ requests[g] # <<>>
  /\ LET r == Head(requests[g])
     IN /\ r.op \in {"Store", "Delete"} /\ g \in registered /\ attested[r.load]
        /\ refused' = refused \cup {r.op}
  /\ requests' = [requests EXCEPT ![g] = Tail(@)]
  /\ UNCHANGED <<store, registered, attested, answers, page, loads, minted,
                 destroyed, lost, nukes, haunted>>

\* An answer reaches the page.
Dispatch(g) ==
  /\ answers[g] # <<>>
  /\ LET d == dispatch(g, Head(answers[g]))
     IN page' = d.page /\ send(d.sent)
  /\ answers' = [answers EXCEPT ![g] = Tail(@)]
  /\ UNCHANGED <<store, registered, attested, loads, minted, destroyed, lost, refused,
                 nukes, haunted>>

\* Fifteen seconds without an answer about the posting key.
Watchdog ==
  /\ "watchdog" \in page.timers
  /\ page' = [page EXCEPT !.timers = @ \ {"watchdog"},
                          !.KEY_STORE_UNREACHABLE =
                             @ \/ page.POSTING_KEY_LOADED = Unanswered]
  /\ UNCHANGED <<store, registered, attested, requests, answers, loads, minted,
                 destroyed, lost, refused, nukes, haunted>>

\* Fault: the ceiling drops the gate without a warning.
Ceiling_Quiet ==
  /\ "ceiling" \in page.timers
  /\ page' = [page EXCEPT !.timers = @ \ {"ceiling"}, !.PENDING = FALSE]
  /\ UNCHANGED <<store, registered, attested, requests, answers, loads, minted,
                 destroyed, lost, refused, nukes, haunted>>

\* Fault: the ceiling warns and leaves the gate up.
Ceiling_StaysUp ==
  /\ "ceiling" \in page.timers
  /\ page' = [page EXCEPT !.timers = @ \ {"ceiling"}, !.FAILED = @ \/ page.PENDING]
  /\ UNCHANGED <<store, registered, attested, requests, answers, loads, minted,
                 destroyed, lost, refused, nukes, haunted>>

\* Five seconds after the probe began: what is owed now was lost.
Ceiling ==
  /\ "ceiling" \in page.timers
  /\ page' = [page EXCEPT !.timers = @ \ {"ceiling"},
                          !.FAILED = @ \/ page.PENDING, !.PENDING = FALSE]
  /\ UNCHANGED <<store, registered, attested, requests, answers, loads, minted,
                 destroyed, lost, refused, nukes, haunted>>

\* "Create account" on the onboarding screen, with a seed nobody has.  The
\* Store fails on a closed socket, and nothing else happens then.
create_account(s) ==
  /\ gate = "Onboarding" /\ page.socket = "open" /\ s \notin minted
  /\ send(To(Current, <<Store("posting_key", s)>>))
  /\ page' = [page EXCEPT !.ACCOUNT = s, !.POSTING_KEY_LOADED = s]
  /\ minted' = minted \cup {s}
  /\ UNCHANGED <<store, registered, attested, answers, loads, destroyed, lost, refused,
                 nukes, haunted>>

\* "Restore account", with the backup of a seed.
import_account(s) ==
  /\ gate = "Onboarding" /\ page.socket = "open" /\ s \in minted
  /\ send(To(Current, <<Store("posting_key", s)>>))
  /\ page' = [page EXCEPT !.ACCOUNT = s, !.POSTING_KEY_LOADED = s]
  /\ destroyed' = destroyed \ {s}
  /\ UNCHANGED <<store, registered, attested, answers, loads, minted, lost, refused,
                 nukes, haunted>>

\* Fault: only the current generation is wiped.
wipe_legacy_seeds_Current == To(Current, <<Delete("posting_key")>>)

\* The requests that wipe the seed out of every generation.
wipe_legacy_seeds ==
  [g \in Generation |-> IF g \in Legacy THEN <<Register, Delete("posting_key")>>
                        ELSE <<Delete("posting_key")>>]

\* An answer with the seed is on its way, or will be before the wipe.
SeedUnderWay(g) ==
  \/ \E i \in 1..Len(answers[g]) :
        /\ answers[g][i].kind = "Value" /\ answers[g][i].key = "posting_key"
        /\ answers[g][i].value # None
  \/ \E i \in 1..Len(requests[g]) :
        /\ requests[g][i].op = "Get" /\ requests[g][i].key = "posting_key"
        /\ store[g]["posting_key"] # None

\* "Yes, delete forever".  On a closed socket the first send fails: the
\* probe stays suppressed and the account stays.
nuke_account ==
  /\ gate = "App" /\ nukes < MaxNukes
  /\ nukes' = nukes + 1
  /\ IF page.socket = "open"
     THEN /\ LET wiped == [suppress_legacy_probe(page) EXCEPT
                               !.ACCOUNT = None, !.POSTING_KEY_LOADED = None,
                               !.ACK_BUDGET = @ + Cardinality(Legacy)]
                 d == resume_or_probe(wiped)
             IN /\ page' = d.page
                /\ send([g \in Generation |-> wipe_legacy_seeds[g] \o d.sent[g]])
          /\ destroyed' = destroyed \cup {page.ACCOUNT}
               \cup ({store[g]["posting_key"] : g \in Generation} \ {None})
          /\ haunted' = (haunted \/ \E g \in Legacy : SeedUnderWay(g))
     ELSE /\ page' = [suppress_legacy_probe(page) EXCEPT
                         !.ACK_BUDGET = IF Legacy = {} THEN @ ELSE @ + 1]
          /\ UNCHANGED <<requests, destroyed, haunted>>
  /\ UNCHANGED <<store, registered, attested, answers, loads, minted, lost, refused>>

\* The socket dies; what was sent is handled all the same or is lost with it,
\* and a node that restarts forgets which delegates it had registered.
ConnectionLost ==
  /\ page.socket = "open"
  /\ page' = [page EXCEPT !.socket = "closed"]
  /\ answers' = Nothing
  /\ \/ UNCHANGED <<requests, registered, lost>>
     \/ /\ requests' = Nothing
        /\ registered' \in {registered, {}}
        /\ lost' = (lost \/ \E g \in Generation : \E i \in 1..Len(requests[g]) :
                               requests[g][i].op \in {"Store", "Delete"})
  /\ UNCHANGED <<store, attested, loads, minted, destroyed, refused, nukes, haunted>>

\* The pump hears of it; the reload it schedules is Load.
NoticeLost ==
  /\ page.socket = "closed" /\ page.status = "Connected"
  /\ page' = [page EXCEPT !.status = "Error"]
  /\ UNCHANGED <<store, registered, attested, requests, answers, loads, minted,
                 destroyed, lost, refused, nukes, haunted>>

\* The page is loaded again, by the user or after a lost connection: App
\* registers the current delegate and asks it for the posting key.
Load ==
  /\ loads < MaxLoads
  /\ loads' = loads + 1
  /\ page' = FreshPage
  /\ answers' = Nothing
  /\ requests' = [requests EXCEPT ![Current] =
                    @ \o <<[op |-> "Register", load |-> loads + 1],
                           [op |-> "Get", key |-> "posting_key", load |-> loads + 1]>>]
  /\ UNCHANGED <<store, registered, attested, minted, destroyed, lost, refused, nukes, haunted>>

AccountNext ==
  \/ \E g \in Generation : Handle(g)
  \/ \E g \in Generation : Refuse(g)
  \/ \E g \in Generation : Dispatch(g)
  \/ Watchdog
  \/ Ceiling
  \/ \E s \in Seed : create_account(s)
  \/ \E s \in Seed : import_account(s)
  \/ nuke_account
  \/ ConnectionLost
  \/ NoticeLost
  \/ Load

\* Timers of a live page go off.
AccountFairness == WF_accountVars(Watchdog) /\ WF_accountVars(Ceiling)

AccountSpec == AccountInit /\ [][AccountNext]_accountVars /\ AccountFairness

-----------------------------------------------------------------------------
(* Properties.                                                             *)

\* Every variable has its type; in particular no seed is stored as a setting.
AccountTypeOK ==
  /\ store \in [Generation -> [Key -> Value \cup {None}]]
  /\ registered \subseteq Generation
  /\ attested \in [1..MaxLoads -> BOOLEAN]
  /\ \A g \in Generation : \A i \in 1..Len(requests[g]) : requests[g][i] \in Request
  /\ \A g \in Generation : \A i \in 1..Len(answers[g]) : answers[g][i] \in Answer
  /\ page \in Page
  /\ minted \subseteq Seed /\ destroyed \subseteq minted
  /\ refused \subseteq {"Store", "Delete"}

\* The places in a queue of requests that write k.
Writes(rs, k) == {i \in 1..Len(rs) : rs[i].op \in {"Store", "Delete"} /\ rs[i].key = k}

\* What the store kv has under k once the queue rs is handled: what the last
\* request to write k leaves.
After(kv, rs, k) ==
  LET W == Writes(rs, k)
  IN IF W = {} THEN kv[k]
     ELSE handle_store(kv, rs[CHOOSE i \in W : \A j \in W : j <= i])[k]

\* What a generation holds once the requests on their way are handled.
WillHold(g, k) == After(store[g], requests[g], k)

\* A fresh account is created only when no generation holds a live seed that
\* it would strand, or with the warning that the probe failed on the screen:
\* LEGACY_PROBE_FAILED, KEY_STORE_UNREACHABLE and the ack budget together.
CreateIsWarned ==
  [][minted' # minted =>
       \/ page.FAILED
       \/ \A g \in Generation : store[g]["posting_key"] \in destroyed \cup {None}
    ]_accountVars

\* The account on the screen is the one the delegate has or is about to get,
\* whatever late answer of an old generation arrives: the guard of
\* dispatch_legacy_kv ("never clobber an existing identity").  Not so once a
\* write was lost with its connection or a Store failed in a delegate, which
\* the page only logs.
AccountIsStored ==
  page.ACCOUNT # None /\ ~lost /\ "Store" \notin refused
    => WillHold(Current, "posting_key") = page.ACCOUNT

\* A destroyed seed is in no generation once the wipe is handled, and no
\* page has it as its account, unless the wipe was lost with its connection,
\* failed in a delegate, or overtook an answer that carries the seed.  A Store
\* that fails brings nothing back.
NukeIsFinal ==
  ~lost /\ ~haunted /\ "Delete" \notin refused =>
    /\ page.ACCOUNT \notin destroyed
    /\ \A g \in Generation : WillHold(g, "posting_key") \notin destroyed

\* A probe that ends without a failure has carried everything: each name an
\* old generation holds, the current one holds or is about to get, unless a
\* write was lost with its connection or a Store failed in a delegate, which
\* LEGACY_PROBE_FAILED does not tell.
ProbeCarriesAll ==
  /\ page.PROBE_DONE /\ ~page.PENDING /\ ~page.FAILED
  /\ page.socket = "open" /\ nukes = 0 /\ ~lost /\ "Store" \notin refused
  => \A g \in Legacy : \A k \in Key :
       store[g][k] # None => WillHold(Current, k) # None

\* The account gate does not stay on Loading: the watchdog and the ceiling
\* of the probe end it, even when no answer ever comes.
GateSettles == (gate = "Loading") ~> (gate # "Loading")

=============================================================================

------------------------------ MODULE Mirrors ------------------------------
(***************************************************************************)
(* The page's copies of the previous generation of the directory and of an *)
(* inbox, kept while the dual-read window is open (issues #23, #81).       *)
(*                                                                         *)
(* Source: ui/src/legacy.rs, and the arms of apply_contract_bytes          *)
(* (ui/src/api.rs) that feed it.                                           *)
(*                                                                         *)
(* The contracts that kept these states are no longer asked: whatever a    *)
(* peer serves is checked, merged and cut to the caps here, in deliveries  *)
(* that come in any order, repeatedly, and incomplete.                     *)
(***************************************************************************)
EXTENDS CappedLog, Sequences

CONSTANTS
  Listing,          \* legacy listings, valid or not
  DirectoryDelivery,\* states and deltas of the directory: sets of listings
  InboxDelivery,    \* ... of the inbox: credentials and a list of pointers
  LEGACY_MAX_LISTINGS, LEGACY_ANON_LISTINGS,
  LEGACY_MAX_POINTERS, LEGACY_ANON_POINTER_SLOTS,
  LEGACY_MAX_PER_FINGERPRINT, LEGACY_MAX_PER_ANON_KEY

\* What arrives in an inbox's deliveries.
Credential == UNION {d.creds : d \in InboxDelivery}
pointers_of(d) == {d.pointers[i] : i \in DOMAIN d.pointers}

\* A delivery is finite, and the content hash tells apart the listings of an
\* author and the credentials of a key that pass the checks: an anonymous
\* credential is its key.
ASSUME MirrorsAssumption ==
  /\ DirectoryDelivery \subseteq SUBSET Listing
  /\ \A d \in DirectoryDelivery : IsFiniteSet(d)
  /\ \A l \in Listing :
        /\ {l.author, l.time, l.hash} \subseteq Nat /\ {l.attested, l.ok} \subseteq BOOLEAN
        /\ \A m \in Listing :
              l.ok /\ m.ok /\ <<l.author, l.time, l.attested, l.hash>>
                               = <<m.author, m.time, m.attested, m.hash>> => l = m
  /\ \A d \in InboxDelivery : d.pointers \in Seq(pointers_of(d))
  /\ \A d \in InboxDelivery : \A p \in pointers_of(d) : {p.time, p.reply} \subseteq Nat
  /\ \A c \in Credential :
        /\ c.hash \in Nat
        /\ \A b \in Credential : b.ok /\ c.ok /\ b.key = c.key /\ b.hash = c.hash => b = c
  /\ {LEGACY_MAX_LISTINGS, LEGACY_ANON_LISTINGS, LEGACY_MAX_POINTERS,
      LEGACY_ANON_POINTER_SLOTS, LEGACY_MAX_PER_FINGERPRINT,
      LEGACY_MAX_PER_ANON_KEY} \subseteq Nat \ {0}

VARIABLES
  LEGACY_DIRECTORY, \* listings, one per author
  creds,            \* LEGACY_INBOXES of one owner: credentials, one per key
  pointers,         \* ... and pointers, one per reply
  delivered         \* valid listings and credentials delivered so far

mirrorsVars == <<LEGACY_DIRECTORY, creds, pointers, delivered>>

-----------------------------------------------------------------------------
(* The directory.                                                          *)

AnonL(S) == {l \in S : ~l.attested}

\* Less, in the order (last_active, attested, content hash) of lww_key.
lww_key(l, m) ==
  \/ l.time < m.time
  \/ l.time = m.time /\ ~l.attested /\ m.attested
  \/ l.time = m.time /\ l.attested = m.attested /\ l.hash < m.hash

\* The order of eviction: (last_active, author).
Activity == {o \in Listing \X Listing :
               o[1].time < o[2].time \/ (o[1].time = o[2].time /\ o[1].author < o[2].author)}

\* Fault: over the cap the oldest goes first, whatever its tier.
tiered_OneQueue(R, max, attested, anon) == Newest(R, max, attested \cup anon)

\* What a cap leaves when its anonymous entries go first.
tiered(R, max, attested, anon) ==
  LET kept == Newest(R, max, attested)
  IN kept \cup Newest(R, max - Cardinality(kept), anon)

canonicalize_listings(S) ==
  tiered(Activity, LEGACY_MAX_LISTINGS, S \ AnonL(S),
         Newest(Activity, LEGACY_ANON_LISTINGS, AnonL(S)))

merge_listings(held, incoming) ==
  LET all == held \cup {l \in incoming : l.ok}
  IN canonicalize_listings({l \in all : \A m \in all : m.author = l.author => ~lww_key(l, m)})

-----------------------------------------------------------------------------
(* The inbox.                                                              *)

is_anon(p) == p.fp.anon

AnonP(S) == {p \in S : is_anon(p)}

fp_cap(p) == IF is_anon(p) THEN LEGACY_MAX_PER_ANON_KEY ELSE LEGACY_MAX_PER_FINGERPRINT

\* An anonymous credential has the content hash 0.
content_hash(c) == c.hash

CredOf(cs, key) == {c \in cs : c.key = key}

\* The checked credentials of a delivery: the greater content hash stays.
merge_creds(held, incoming) ==
  LET all == held \cup {c \in incoming : c.ok}
  IN {c \in all : \A d \in CredOf(all, c.key) : content_hash(d) <= content_hash(c)}

\* A pointer may be taken when its credential is there, it is signed and it
\* carries the credential's fingerprint, ...
seatable(cs, p) == p.ok /\ \E c \in CredOf(cs, p.replier) : c.fp = p.fp

\* ... and the first of a delivery is that points at a reply nobody held
\* points at.
seat(cs, held, ps) ==
  LET first(i) == /\ seatable(cs, ps[i])
                  /\ \A h \in held : h.reply # ps[i].reply
                  /\ \A j \in 1..i-1 : ps[j].reply = ps[i].reply => ~seatable(cs, ps[j])
  IN held \cup {ps[i] : i \in {j \in DOMAIN ps : first(j)}}

\* (time, reply post), which no two pointers held together share.
PointerAge(S) == {o \in S \X S :
                    o[1].time < o[2].time \/ (o[1].time = o[2].time /\ o[1].reply < o[2].reply)}

\* The fairness caps first, then the anonymous share, then the global cap.
capped(S) ==
  LET R == PointerAge(S)
      fair == {p \in S : Cardinality({q \in Newer(R, S, p) : q.fp = p.fp}) < fp_cap(p)}
  IN tiered(R, LEGACY_MAX_POINTERS, fair \ AnonP(fair),
            Newest(R, LEGACY_ANON_POINTER_SLOTS, AnonP(fair)))

\* ... and at the end the pointers whose credential changed its tier, and
\* the credentials no pointer is left for.
canonicalize_inbox(cs, S) ==
  LET kept == {p \in capped(S) : \E c \in CredOf(cs, p.replier) : c.fp = p.fp}
  IN [pointers |-> kept, creds |-> {c \in cs : \E p \in kept : p.replier = c.key}]

merge_inbox(d) ==
  LET cs == merge_creds(creds, d.creds)
  IN canonicalize_inbox(cs, seat(cs, pointers, d.pointers))

-----------------------------------------------------------------------------
MirrorsInit ==
  /\ LEGACY_DIRECTORY = {}
  /\ delivered = [listings |-> {}, creds |-> {}]
  /\ creds = {} /\ pointers = {}

HearLegacyDirectory(d) ==
  /\ LEGACY_DIRECTORY' = merge_listings(LEGACY_DIRECTORY, d)
  /\ delivered' = [delivered EXCEPT !.listings = @ \cup {l \in d : l.ok}]
  /\ UNCHANGED <<creds, pointers>>

HearLegacyInbox(d) ==
  /\ LET merged == merge_inbox(d)
     IN creds' = merged.creds /\ pointers' = merged.pointers
  /\ delivered' = [delivered EXCEPT !.creds = @ \cup {c \in d.creds : c.ok}]
  /\ UNCHANGED LEGACY_DIRECTORY

MirrorsNext ==
  \/ \E d \in DirectoryDelivery : HearLegacyDirectory(d)
  \/ \E d \in InboxDelivery : HearLegacyInbox(d)

MirrorsSpec == MirrorsInit /\ [][MirrorsNext]_mirrorsVars

-----------------------------------------------------------------------------
(* Properties.                                                             *)

\* A verified author's listing leaves the mirror only for a newer one of
\* that author or when newer verified ones fill the directory.
ListingLeaves(l) ==
  \/ \E m \in delivered'.listings : m.author = l.author /\ lww_key(l, m)
  \/ LEGACY_MAX_LISTINGS <= Cardinality({m \in LEGACY_DIRECTORY' :
                                           m.attested /\ <<l, m>> \in Activity})

\* A verified reply leaves it only with its credential, for a greater one,
\* or when newer ones, of its author or all verified, fill a cap.
PointerLeaves(p) ==
  LET newer == {q \in pointers \cup pointers' :
                  ~is_anon(q) /\ <<p, q>> \in PointerAge({p, q})}
  IN \/ \E c \in CredOf(creds, p.replier), d \in CredOf(delivered'.creds, p.replier) :
          content_hash(c) < content_hash(d)
     \/ LEGACY_MAX_PER_FINGERPRINT <= Cardinality({q \in newer : q.fp = p.fp})
     \/ LEGACY_MAX_POINTERS <= Cardinality(newer)

\* Verified is never crowded out by anonymous, whatever a peer serves and in
\* whatever order, and every pointer that is shown agrees with the credential
\* it is shown under, of which each key has one.
VerifiedStays ==
  [][/\ \A l \in LEGACY_DIRECTORY \ LEGACY_DIRECTORY' : l.attested => ListingLeaves(l)
     /\ \A p \in pointers \ pointers' : ~is_anon(p) => PointerLeaves(p)
     /\ \A p \in pointers' : \E c \in creds' : c.key = p.replier /\ c.fp = p.fp
     /\ \A c, d \in creds' : c.key = d.key => c = d]_mirrorsVars

=============================================================================

-------------------------- MODULE VerificationProofs --------------------------
(***************************************************************************)
(* The check mark and the public listing, proved for every number of       *)
(* posting keys and every set of difficulty records.                       *)
(***************************************************************************)
EXTENDS Verification, TLAPS

Record == Difficulty \ Malformed

-----------------------------------------------------------------------------
\* A record that was adopted is one the publisher signed, or none.
LEMMA AdoptedIsSigned ==
  ASSUME NEW held \in Record \cup {None}, NEW c \in Difficulty \cup Malformed \cup {None}
  PROVE  adopt_difficulty(held, c) \in Record \cup {None}
BY DEF adopt_difficulty, Record

\* The newer of two records is not older than either.
LEMMA AdoptedIsNewest ==
  ASSUME NEW held \in Record \cup {None}, NEW c \in Record \cup {None}
  PROVE  /\ adopt_difficulty(held, c) \in {held, c}
         /\ difficulty_seq(held) <= difficulty_seq(adopt_difficulty(held, c))
         /\ difficulty_seq(c) <= difficulty_seq(adopt_difficulty(held, c))
<1>1. difficulty_seq(held) \in Nat /\ difficulty_seq(c) \in Nat
  BY PowAssumption DEF Record, difficulty_seq
<1>2. c = None => difficulty_seq(c) = 0
  BY DEF difficulty_seq
<1>3. c # None => c.seq = difficulty_seq(c) /\ c \notin Malformed
  BY DEF difficulty_seq, Record
<1> QED BY <1>1, <1>2, <1>3 DEF adopt_difficulty

-----------------------------------------------------------------------------
\* The own copy of an author whose check mark was seen keeps it; the records
\* the page goes by are the publisher's.
VerificationInv ==
  /\ born \subseteq PostingKey /\ ACCOUNT \in born \cup {None}
  /\ own \in [PostingKey -> {None, "bare", "attested"}]
  /\ shown \subseteq born
  /\ \A k \in shown : own[k] = "attested"
  /\ POW_DIFFICULTY \in Record \cup {None}
  /\ DIRECTORY = None \/ DIRECTORY \in [pow : Record \cup {None}]

\* What a step that lists or delists leaves: the directory's record is a
\* record, and a new listing is of the account and in the tier of its feed.
LEMMA ListingStep ==
  ASSUME VerificationInv, NEW on, NEW feed, set_public_listing(on, feed)
  PROVE  /\ DIRECTORY' = None \/ DIRECTORY' \in [pow : Record \cup {None}]
         /\ listing' # listing =>
              /\ feed # None
              /\ listing' = [author |-> ACCOUNT, attested |-> feed = "attested",
                             stamp |-> IF feed = "attested" THEN None
                                       ELSE difficulty_bits(difficulty)]
              /\ latched' \in {latched, difficulty}
<1>1. latched \in Record \cup {None}
  BY DEF VerificationInv, latched
<1>2. difficulty \in Record \cup {None}
  BY <1>1, AdoptedIsSigned DEF VerificationInv, difficulty, Record
<1>3. CASE on /\ feed = None
  BY <1>3 DEF set_public_listing, VerificationInv
<1>4. CASE ~(on /\ feed = None) /\ ~on
  BY <1>4 DEF set_public_listing, VerificationInv
<1>5. CASE ~(on /\ feed = None) /\ on
  <2>1. /\ DIRECTORY' = IF DIRECTORY = None THEN None ELSE [pow |-> difficulty]
        /\ feed # None
        /\ listing' = [author |-> ACCOUNT, attested |-> feed = "attested",
                       stamp |-> IF feed = "attested" THEN None ELSE difficulty_bits(difficulty)]
    BY <1>5 DEF set_public_listing
  <2>2. [pow |-> difficulty] # None /\ [pow |-> difficulty].pow = difficulty
    BY <1>2, VerificationAssumption DEF Record
  <2>3. DIRECTORY' = None \/ DIRECTORY' \in [pow : Record \cup {None}]
    BY <1>2, <2>1
  <2>4. latched' \in {latched, difficulty}
    BY <2>1, <2>2 DEF latched
  <2> QED BY <2>1, <2>3, <2>4
<1> QED BY <1>3, <1>4, <1>5

\* At first nothing is asked and nothing attested.
LEMMA VerificationInvInit == VerificationInit => VerificationInv
BY DEF VerificationInit, VerificationInv

\* One step per action; those of the vault touch nothing of the invariant.
LEMMA VerificationInvStep ==
  VerificationInv /\ [VerificationNext]_verificationVars => VerificationInv'
<1> SUFFICES ASSUME VerificationInv, [VerificationNext]_verificationVars
             PROVE  VerificationInv'
  OBVIOUS
<1> USE DEF accountVars, vaultVars, listingVars, powVars
<1>1. ASSUME NEW k \in PostingKey, create_account(k) \/ import_account(k)
      PROVE  VerificationInv'
  BY <1>1 DEF create_account, import_account, Become, VerificationInv
<1>2. CASE nuke_account
  BY <1>2 DEF nuke_account, VerificationInv
<1>3. CASE OpenProfile \/ LeaveProfile \/ discover_vault_delegate \/ HasIdentity
           \/ request_verification \/ HearSetting \/ \E r \in vault : dispatch_ghostkey(r)
  BY <1>3 DEF OpenProfile, LeaveProfile, discover_vault_delegate, HasIdentity,
              request_verification, HearSetting, dispatch_ghostkey, VerificationInv
<1>4. CASE complete_verification
  <2> DEFINE att  == attestation_from_sign_result(GHOSTKEY_SIGN_RESULT, ACCOUNT)
             feed == IF own_feed = None THEN None ELSE "attested"
  <2>1. UNCHANGED <<ACCOUNT, born, POW_DIFFICULTY>>
    BY <1>4 DEF complete_verification
  <2>2. CASE ~verify(att, ACCOUNT)
    BY <1>4, <2>1, <2>2 DEF complete_verification, VerificationInv
  <2>3. CASE verify(att, ACCOUNT)
    <3>1. /\ published' = published \cup {[feed |-> ACCOUNT, attestation |-> att]}
          /\ own' = [own EXCEPT ![ACCOUNT] = feed]
          /\ shown' = IF feed = "attested" THEN shown \cup {ACCOUNT} ELSE shown
          /\ \/ set_public_listing(TRUE, feed)
             \/ UNCHANGED <<PUBLIC_LISTING, listing, DIRECTORY>>
      BY <1>4, <2>3 DEF complete_verification
    <3>2. (DIRECTORY = None \/ DIRECTORY \in [pow : Record \cup {None}])'
      BY <3>1, ListingStep DEF VerificationInv
    <3>3. feed = "attested" => ACCOUNT \in born
      <4>1. None # "attested"
        BY VerificationAssumption
      <4> QED BY <4>1 DEF own_feed, VerificationInv
    <3>4. feed # "attested" => feed = None /\ ACCOUNT \notin shown
      BY VerificationAssumption DEF own_feed, VerificationInv
    <3>5. /\ own' \in [PostingKey -> {None, "bare", "attested"}]
          /\ shown' \subseteq born
          /\ \A k \in shown' : own'[k] = "attested"
      BY <3>1, <3>3, <3>4 DEF VerificationInv
    <3> QED BY <2>1, <3>2, <3>5 DEF VerificationInv
  <2> QED BY <2>2, <2>3
<1>5. ASSUME NEW on \in BOOLEAN, PublicListingToggle(on) \/ RefreshListing
      PROVE  VerificationInv'
  <2>1. \E b \in BOOLEAN : set_public_listing(b, own_feed)
    BY <1>5 DEF PublicListingToggle, RefreshListing
  <2>2. UNCHANGED <<accountVars, POW_DIFFICULTY, published>>
    BY <1>5 DEF PublicListingToggle, RefreshListing
  <2> QED BY <2>1, <2>2, ListingStep DEF VerificationInv
<1>6. ASSUME NEW k \in PostingKey, HearOwnFeed(k)
      PROVE  VerificationInv'
  <2>1. k \in born /\ UNCHANGED <<ACCOUNT, born, powVars, published>>
    BY <1>6 DEF HearOwnFeed
  <2>2. PICK state \in {"bare", "attested"} : own' = [own EXCEPT ![k] = merge_attestation(@, state)]
    BY <1>6 DEF HearOwnFeed
  <2>3. shown' = IF own'[k] = "attested" THEN shown \cup {k} ELSE shown
    BY <1>6 DEF HearOwnFeed
  <2> QED BY <2>1, <2>2, <2>3 DEF merge_attestation, VerificationInv
<1>7. ASSUME NEW c \in Difficulty \cup Malformed, HearPow(c)
      PROVE  VerificationInv'
  BY <1>7, AdoptedIsSigned DEF HearPow, VerificationInv
<1>8. ASSUME NEW c \in Difficulty \cup Malformed \cup {None}, HearLatch(c)
      PROVE  VerificationInv'
  <2>1. latched \in Record \cup {None}
    BY DEF VerificationInv, latched
  <2>2. adopt_difficulty(latched, c) \in Record \cup {None}
    BY <2>1, AdoptedIsSigned
  <2> QED BY <1>8, <2>2 DEF HearLatch, VerificationInv
<1>9. CASE UNCHANGED verificationVars
  BY <1>9 DEF verificationVars, VerificationInv
<1> QED BY <1>1, <1>2, <1>3, <1>4, <1>5, <1>6, <1>7, <1>8, <1>9 DEF VerificationNext

-----------------------------------------------------------------------------
\* A step that changes the last listing lists the account with a feed that is
\* there: the own copy, or that copy with the attestation just completed.
LEMMA NewListing ==
  ASSUME VerificationInv, VerificationNext, listing' # listing
  PROVE  \E feed \in {own_feed, "attested"} :
            /\ ACCOUNT # None /\ feed # None
            /\ listing' = [author |-> ACCOUNT, attested |-> feed = "attested",
                           stamp |-> IF feed = "attested" THEN None
                                     ELSE difficulty_bits(difficulty)]
            /\ latched' \in {latched, difficulty}
            /\ UNCHANGED POW_DIFFICULTY
<1> USE DEF accountVars, vaultVars, listingVars, powVars
<1>1. \/ complete_verification
      \/ \E on \in BOOLEAN : PublicListingToggle(on)
      \/ RefreshListing
  BY DEF VerificationNext, create_account, import_account, Become, nuke_account, OpenProfile,
         LeaveProfile, discover_vault_delegate, HasIdentity, request_verification, HearSetting,
         dispatch_ghostkey, HearOwnFeed, HearPow, HearLatch
<1>2. CASE complete_verification
  <2> DEFINE feed == IF own_feed = None THEN None ELSE "attested"
  <2>1. set_public_listing(TRUE, feed) /\ UNCHANGED POW_DIFFICULTY
    BY <1>2 DEF complete_verification
  <2>2. feed # None
    BY <2>1, ListingStep
  <2>3. feed = "attested" /\ ACCOUNT # None
    BY <2>2 DEF own_feed
  <2> QED BY <2>1, <2>3, VerificationAssumption, ListingStep
<1>3. CASE (\E on \in BOOLEAN : PublicListingToggle(on)) \/ RefreshListing
  <2>1. PICK on \in BOOLEAN : set_public_listing(on, own_feed)
    BY <1>3 DEF PublicListingToggle, RefreshListing
  <2>2. UNCHANGED POW_DIFFICULTY
    BY <1>3 DEF PublicListingToggle, RefreshListing
  <2>3. own_feed # None => ACCOUNT # None
    BY DEF own_feed
  <2> QED BY <2>1, <2>2, <2>3, ListingStep
<1> QED BY <1>1, <1>2, <1>3

(***************************************************************************)
(* An author whose own copy has had the check mark is never listed in the  *)
(* evictable tier: the copy keeps it whatever older states arrive, and     *)
(* set_public_listing reads the tier off the copy.                         *)
(***************************************************************************)
THEOREM TierIsKeptHolds == VerificationSpec => TierIsKept
<1>1. ASSUME VerificationInv, VerificationNext, listing' # listing, listing'.author \in shown
      PROVE  listing'.attested
  <2>1. PICK feed \in {own_feed, "attested"} :
          listing' = [author |-> ACCOUNT, attested |-> feed = "attested",
                      stamp |-> IF feed = "attested" THEN None ELSE difficulty_bits(difficulty)]
    BY <1>1, NewListing
  <2>2. ACCOUNT \in shown /\ own[ACCOUNT] = "attested" /\ ACCOUNT # None
    BY <1>1, <2>1, VerificationAssumption DEF VerificationInv
  <2> QED BY <2>1, <2>2 DEF own_feed
<1>2. VerificationInv /\ [VerificationNext]_verificationVars
        => [listing' # listing /\ listing'.author \in shown => listing'.attested]_verificationVars
  BY <1>1
<1> QED BY <1>2, VerificationInvInit, VerificationInvStep, PTL DEF VerificationSpec, TierIsKept

(***************************************************************************)
(* The stamp of a new anonymous listing clears the newest difficulty that  *)
(* has reached the page, by the publisher's cell or in a directory that    *)
(* latched it (set_public_listing).                                        *)
(***************************************************************************)
THEOREM ListingsClearBarHolds == VerificationSpec => ListingsClearBar
<1> DEFINE Clears == \E c \in {POW_DIFFICULTY, latched} :
                       /\ listing'.stamp >= difficulty_bits(c)
                       /\ \A e \in {POW_DIFFICULTY, latched} : difficulty_seq(e) <= difficulty_seq(c)
<1>1. ASSUME VerificationInv, VerificationNext, listing' # listing, ~listing'.attested
      PROVE  Clears
  <2>1. PICK feed \in {own_feed, "attested"} :
          listing' = [author |-> ACCOUNT, attested |-> feed = "attested",
                      stamp |-> IF feed = "attested" THEN None ELSE difficulty_bits(difficulty)]
    BY <1>1, NewListing
  <2>2. listing'.stamp = difficulty_bits(difficulty)
    BY <1>1, <2>1
  <2>3. latched \in Record \cup {None} /\ POW_DIFFICULTY \in Record \cup {None}
    BY <1>1 DEF VerificationInv, latched
  <2>4. /\ difficulty \in {POW_DIFFICULTY, latched}
        /\ difficulty_seq(POW_DIFFICULTY) <= difficulty_seq(difficulty)
        /\ difficulty_seq(latched) <= difficulty_seq(difficulty)
    BY <2>3, AdoptedIsNewest DEF difficulty
  <2>5. difficulty_bits(difficulty) \in Nat
    BY <2>3, <2>4, PowAssumption DEF difficulty_bits, Record
  <2> QED BY <2>2, <2>4, <2>5
<1>2. VerificationInv /\ [VerificationNext]_verificationVars
        => [listing' # listing /\ ~listing'.attested => Clears]_verificationVars
  BY <1>1
<1> QED BY <1>2, VerificationInvInit, VerificationInvStep, PTL DEF VerificationSpec, ListingsClearBar
=============================================================================

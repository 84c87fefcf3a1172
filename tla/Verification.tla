---------------------------- MODULE Verification ----------------------------
(***************************************************************************)
(* The check mark and the public listing of the account on the page: the   *)
(* vault signs, the posting key counter-signs, the own feed publishes; a   *)
(* listing carries the attestation or a proof-of-work stamp.               *)
(*                                                                         *)
(* Sources: ui/src/actions.rs (request_verification, complete_verification,*)
(* set_public_listing), ui/src/ghostkey.rs, ui/src/views.rs (VerifyBox,    *)
(* PublicListingToggle, the listing refresh), ui/src/api.rs.               *)
(*                                                                         *)
(* One page load.  The vault answers each request in its own time; feeds,  *)
(* directories and difficulty records arrive from any replica, old states  *)
(* after new ones.  A posting key here stands for the account it makes.    *)
(***************************************************************************)
EXTENDS PowLatch, FiniteSets

CONSTANT PostingKey

ASSUME VerificationAssumption ==
  None \notin PostingKey \cup {"bare", "attested"} \cup [pow : Difficulty \cup {None}]

VARIABLES
  ACCOUNT,               \* a posting key, or None
  born,                  \* posting keys there are
  own,                   \* FEEDS of posting keys: None, "bare" or "attested"
  shown,                 \* posting keys whose own copy has had the check mark
  page,                  \* the profile page: "closed", "open" or "busy"
  GHOSTKEY_DELEGATE,     \* discovered
  GHOSTKEY_HAS_IDENTITY, \* None until the vault answers
  GHOSTKEY_SIGN_RESULT,  \* None or the vault's answer
  vault,                 \* requests the vault has not answered
  setting,               \* the startup answer about the listing, until it arrives
  PUBLIC_LISTING,
  listing_refreshed,
  POW_DIFFICULTY,
  DIRECTORY,             \* None, or its latched difficulty record
  published,             \* attestations put into own feeds
  listing                \* the last listing signed, or None

accountVars == <<ACCOUNT, born, own, shown, page>>
vaultVars == <<GHOSTKEY_DELEGATE, GHOSTKEY_HAS_IDENTITY, GHOSTKEY_SIGN_RESULT, vault>>
listingVars == <<setting, PUBLIC_LISTING, listing_refreshed, listing>>
powVars == <<POW_DIFFICULTY, DIRECTORY>>
verificationVars == <<accountVars, vaultVars, listingVars, powVars, published>>

-----------------------------------------------------------------------------
\* What the vault signs: the payload names a posting key; ok stands for the
\* certificate chain, the ghost signature and the requestor, and is false of a
\* refusal.
Signed == [names : PostingKey, ok : BOOLEAN]

\* The posting key of the account counter-signs.
attestation_from_sign_result(result, sk) == [names |-> result.names, ok |-> result.ok, pop |-> sk]

verify(att, key) == att.ok /\ att.names = key /\ att.pop = key

\* Fault: what arrives replaces what is there.
merge_attestation_Replace(held, incoming) == incoming

\* An attestation once held stays.
merge_attestation(held, incoming) == IF held = "attested" THEN held ELSE incoming

own_feed == IF ACCOUNT = None THEN None ELSE own[ACCOUNT]

latched == IF DIRECTORY = None THEN None ELSE DIRECTORY.pow

\* Fault: only the tracked cell counts.
difficulty_Tracked == POW_DIFFICULTY

\* The newer of the tracked record and the one the directory has latched.
difficulty == adopt_difficulty(POW_DIFFICULTY, latched)

\* Listing or delisting; `feed` is the own feed as the caller left it.  Without
\* an account or its feed the page refuses to guess the tier.
set_public_listing(on, feed) ==
  IF on /\ feed = None
  THEN UNCHANGED <<PUBLIC_LISTING, listing, DIRECTORY>>
  ELSE /\ PUBLIC_LISTING' = on
       /\ IF on
          THEN /\ listing' = [author |-> ACCOUNT, attested |-> feed = "attested",
                              stamp |-> IF feed = "attested" THEN None
                                        ELSE difficulty_bits(difficulty)]
               /\ DIRECTORY' = IF DIRECTORY = None THEN None ELSE [pow |-> difficulty]
          ELSE UNCHANGED <<listing, DIRECTORY>>

-----------------------------------------------------------------------------
VerificationInit ==
  /\ born \in {{}} \cup {{k} : k \in PostingKey}
  /\ ACCOUNT \in born \cup {None}
  /\ own = [k \in PostingKey |-> None] /\ shown = {}
  /\ page = "closed"
  /\ GHOSTKEY_DELEGATE = FALSE /\ GHOSTKEY_HAS_IDENTITY = None
  /\ GHOSTKEY_SIGN_RESULT = None /\ vault = {}
  /\ setting \in BOOLEAN /\ PUBLIC_LISTING = None /\ listing_refreshed = FALSE
  /\ POW_DIFFICULTY = None /\ DIRECTORY = None
  /\ published = {} /\ listing = None

Become(k) ==
  /\ ACCOUNT = None
  /\ ACCOUNT' = k
  /\ UNCHANGED <<shown, page, vaultVars, listingVars, powVars, published>>

create_account(k) ==
  /\ Become(k) /\ k \notin born
  /\ born' = born \cup {k}
  /\ own' = [own EXCEPT ![k] = "bare"]

\* From its recovery seed; the feed is asked for.
import_account(k) == Become(k) /\ k \in born /\ UNCHANGED <<born, own>>

\* The local feeds go, and with the account the profile page; the listing, the
\* vault and its answers stay.
nuke_account ==
  /\ ACCOUNT # None /\ page # "closed"
  /\ ACCOUNT' = None
  /\ own' = [k \in PostingKey |-> None] /\ shown' = {}
  /\ page' = "closed"
  /\ UNCHANGED <<born, vaultVars, listingVars, powVars, published>>

\* Opening the profile page mounts the box anew; leaving it forgets `busy`.
OpenProfile ==
  /\ ACCOUNT # None /\ page = "closed"
  /\ page' = "open"
  /\ UNCHANGED <<ACCOUNT, born, own, shown, vaultVars, listingVars, powVars, published>>

LeaveProfile ==
  /\ page # "closed"
  /\ page' = "closed"
  /\ UNCHANGED <<ACCOUNT, born, own, shown, vaultVars, listingVars, powVars, published>>

-----------------------------------------------------------------------------
(* The vault.                                                              *)

discover_vault_delegate ==
  /\ ~GHOSTKEY_DELEGATE
  /\ GHOSTKEY_DELEGATE' = TRUE
  /\ UNCHANGED <<accountVars, GHOSTKEY_HAS_IDENTITY, GHOSTKEY_SIGN_RESULT, vault,
                 listingVars, powVars, published>>

ghostkey_request(r) == vault' = vault \cup {r}

\* The box looks for a ghost key once the vault is known.
HasIdentity ==
  /\ page # "closed" /\ GHOSTKEY_DELEGATE /\ GHOSTKEY_HAS_IDENTITY = None
  /\ ghostkey_request("identity")
  /\ UNCHANGED <<accountVars, GHOSTKEY_DELEGATE, GHOSTKEY_HAS_IDENTITY, GHOSTKEY_SIGN_RESULT,
                 listingVars, powVars, published>>

\* An unanswered earlier result is dropped before the new request.
request_verification ==
  /\ page = "open" /\ GHOSTKEY_HAS_IDENTITY # FALSE /\ own_feed # "attested"
  /\ GHOSTKEY_SIGN_RESULT' = None
  /\ IF GHOSTKEY_DELEGATE
     THEN page' = "busy" /\ ghostkey_request(ACCOUNT)
     ELSE UNCHANGED <<page, vault>>
  /\ UNCHANGED <<ACCOUNT, born, own, shown, GHOSTKEY_DELEGATE, GHOSTKEY_HAS_IDENTITY,
                 listingVars, powVars, published>>

\* An answer waits in its signal until the box is there.
dispatch_ghostkey(r) ==
  /\ vault' = vault \ {r}
  /\ IF r = "identity"
     THEN GHOSTKEY_HAS_IDENTITY' \in BOOLEAN /\ UNCHANGED GHOSTKEY_SIGN_RESULT
     ELSE /\ GHOSTKEY_SIGN_RESULT' \in {s \in Signed : s.names = r}
          /\ UNCHANGED GHOSTKEY_HAS_IDENTITY
  /\ UNCHANGED <<accountVars, GHOSTKEY_DELEGATE, listingVars, powVars, published>>

\* The box takes the answer.  What does not verify for the account that is
\* there now is not published; a listed account is listed anew.
complete_verification ==
  /\ page # "closed" /\ GHOSTKEY_SIGN_RESULT # None
  /\ GHOSTKEY_SIGN_RESULT' = None /\ page' = "open"
  /\ LET att == attestation_from_sign_result(GHOSTKEY_SIGN_RESULT, ACCOUNT)
         feed == IF own_feed = None THEN None ELSE "attested"
     IN IF verify(att, ACCOUNT)
        THEN /\ published' = published \cup {[feed |-> ACCOUNT, attestation |-> att]}
             /\ own' = [own EXCEPT ![ACCOUNT] = feed]
             /\ shown' = IF feed = "attested" THEN shown \cup {ACCOUNT} ELSE shown
             /\ IF PUBLIC_LISTING = TRUE THEN set_public_listing(TRUE, feed)
                ELSE UNCHANGED <<PUBLIC_LISTING, listing, DIRECTORY>>
        ELSE UNCHANGED <<published, own, shown, PUBLIC_LISTING, listing, DIRECTORY>>
  /\ UNCHANGED <<ACCOUNT, born, GHOSTKEY_DELEGATE, GHOSTKEY_HAS_IDENTITY, vault, setting,
                 listing_refreshed, POW_DIFFICULTY>>

-----------------------------------------------------------------------------
(* The listing.                                                            *)

\* The answer to the startup request, whatever the user did before it.
HearSetting ==
  /\ setting # None
  /\ PUBLIC_LISTING' = setting /\ setting' = None
  /\ UNCHANGED <<accountVars, vaultVars, listing_refreshed, listing, powVars, published>>

PublicListingToggle(on) ==
  /\ page # "closed" /\ on # (PUBLIC_LISTING = TRUE)
  /\ set_public_listing(on, own_feed)
  /\ UNCHANGED <<accountVars, vaultVars, setting, listing_refreshed, POW_DIFFICULTY, published>>

\* Once per page load, after the own feed: before it the tier is a guess.
RefreshListing ==
  /\ PUBLIC_LISTING = TRUE /\ own_feed # None /\ ~listing_refreshed
  /\ listing_refreshed' = TRUE
  /\ set_public_listing(TRUE, own_feed)
  /\ UNCHANGED <<accountVars, vaultVars, setting, POW_DIFFICULTY, published>>

-----------------------------------------------------------------------------
(* What arrives from the network.                                          *)

\* A state of a posting key's feed, of any age: replicas admit attestations
\* that verify.
HearOwnFeed(k) ==
  /\ k \in born
  /\ \E state \in {"bare"} \cup {"attested" : u \in {v \in published :
                                    v.feed = k /\ verify(v.attestation, k)}} :
       /\ own' = [own EXCEPT ![k] = merge_attestation(@, state)]
       /\ shown' = IF own'[k] = "attested" THEN shown \cup {k} ELSE shown
  /\ UNCHANGED <<ACCOUNT, born, page, vaultVars, listingVars, powVars, published>>

\* The publisher's cell.
HearPow(c) ==
  /\ POW_DIFFICULTY' = adopt_difficulty(POW_DIFFICULTY, c)
  /\ UNCHANGED <<accountVars, vaultVars, listingVars, DIRECTORY, published>>

\* The directory, with the record it has latched.
HearLatch(c) ==
  /\ DIRECTORY' = [pow |-> adopt_difficulty(latched, c)]
  /\ UNCHANGED <<accountVars, vaultVars, listingVars, POW_DIFFICULTY, published>>

VerificationNext ==
  \/ \E k \in PostingKey : create_account(k) \/ import_account(k) \/ HearOwnFeed(k)
  \/ nuke_account
  \/ OpenProfile
  \/ LeaveProfile
  \/ discover_vault_delegate
  \/ HasIdentity
  \/ request_verification
  \/ \E r \in vault : dispatch_ghostkey(r)
  \/ complete_verification
  \/ HearSetting
  \/ \E on \in BOOLEAN : PublicListingToggle(on)
  \/ RefreshListing
  \/ \E c \in Difficulty \cup Malformed : HearPow(c)
  \/ \E c \in Difficulty \cup Malformed \cup {None} : HearLatch(c)

VerificationSpec == VerificationInit /\ [][VerificationNext]_verificationVars

-----------------------------------------------------------------------------
(* Properties.                                                             *)

\* An author whose own copy has had the check mark is never listed in the
\* evictable tier, whatever older states of the feed arrive afterwards, until
\* the account is destroyed here.
TierIsKept ==
  [][listing' # listing /\ listing'.author \in shown => listing'.attested]_verificationVars

\* The stamp of a new anonymous listing clears the newest difficulty that has
\* reached the page, by the publisher's cell or in a directory that latched it.
ListingsClearBar ==
  [][listing' # listing /\ ~listing'.attested
       => \E c \in {POW_DIFFICULTY, latched} :
            /\ listing'.stamp >= difficulty_bits(c)
            /\ \A e \in {POW_DIFFICULTY, latched} :
                  difficulty_seq(e) <= difficulty_seq(c)]_verificationVars

=============================================================================

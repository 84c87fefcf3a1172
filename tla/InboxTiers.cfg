SPECIFICATION Spec
CONSTANTS
  Replica = {r1, r2}
  Pointer <- TierPointer
  Cred <- TierCred
  Foreign <- TierForeign
  Malformed <- TierMalformed
  Difficulty = {}
  MAX_POINTERS = 2
  ANON_POINTER_SLOTS = 2
  MAX_PER_FINGERPRINT = 1
  MAX_PER_ANON_KEY = 1
  POW_FLOOR_BITS = 1
  POW_CEILING_BITS = 2
  MAX_FUTURE_MS = 2
  MaxClock = 1
  MaxWire = 1
  None = None
SYMMETRY Peers
INVARIANTS InboxStatesValid InboxIsOnePass InboxPairAgreement InboxExchangeSettles
PROPERTIES VerifiedUncrowdable

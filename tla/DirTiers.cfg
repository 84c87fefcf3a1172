SPECIFICATION Spec
CONSTANTS
  Replica = {r1, r2}
  Listing <- TierListing
  Difficulty = {}
  Malformed = {}
  MAX_LISTINGS = 1
  ANON_LISTINGS = 1
  POW_FLOOR_BITS = 1
  POW_CEILING_BITS = 2
  MAX_FUTURE_MS = 3
  MaxClock = 0
  None = None
SYMMETRY Peers
INVARIANTS TiersAreNewest DirPairAgreement DirExchangeSettles
PROPERTIES AttestedUncrowdable

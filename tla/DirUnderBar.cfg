SPECIFICATION Spec
CONSTANTS
  Replica = {r1, r2}
  Listing <- UnderBarListing
  Difficulty <- RaiseDifficulty
  Malformed = {}
  MAX_LISTINGS = 2
  ANON_LISTINGS = 1
  POW_FLOOR_BITS = 1
  POW_CEILING_BITS = 2
  MAX_FUTURE_MS = 1
  MaxClock = 0
  None = None
INVARIANTS HonestOffersClearBar

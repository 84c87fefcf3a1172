SPECIFICATION FairSpec
CONSTANTS
  Replica = {r1, r2}
  Listing <- RaiseListing
  Difficulty <- RaiseDifficulty
  Malformed = {}
  MAX_LISTINGS = 2
  ANON_LISTINGS = 1
  POW_FLOOR_BITS = 1
  POW_CEILING_BITS = 2
  MAX_FUTURE_MS = 0
  MaxClock = 1
  None = None
PROPERTIES RaiseReachesAll

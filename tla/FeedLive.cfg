SPECIFICATION FairSpec
CONSTANTS
  Replica = {r1, r2}
  Post <- LivePost
  Profile <- OneKey
  Follows <- OneKey
  Attestation = {}
  Malformed = {}
  MAX_POSTS = 1
  MAX_FUTURE_MS = 0
  MaxClock = 1
  None = None
PROPERTIES EventuallyAgree

SPECIFICATION Spec
CONSTANTS
  Replica = {r1, r2}
  Post <- PostsPost
  Profile <- OneKey
  Follows <- OneKey
  Attestation = {}
  Malformed <- PostsMalformed
  MAX_POSTS = 2
  MAX_FUTURE_MS = 1
  MaxClock = 1
  None = None
SYMMETRY Peers
INVARIANTS TypeOK StoredStatesValid RetainedIsNewest OneExchangeSettles QuietNetworkIsComplete
PROPERTIES ImplementsPostLog

SPECIFICATION Spec
CONSTANTS
  Replica = {r1, r2}
  Post = {}
  Profile <- RegProfile
  Follows <- OneKey
  Attestation <- RegAttestation
  Malformed = {}
  MAX_POSTS = 1
  MAX_FUTURE_MS = 1
  MaxClock = 0
  None = None
SYMMETRY Peers
INVARIANTS PairAgreement
PROPERTIES NeverRegress

SPECIFICATION Spec
CONSTANTS
  Replica = {r1, r2}
  Pointer <- StalePointer
  Cred <- StaleCred
  Foreign = {}
  Malformed = {}
  Difficulty = {}
  MAX_POINTERS = 2
  ANON_POINTER_SLOTS = 2
  MAX_PER_FINGERPRINT = 1
  MAX_PER_ANON_KEY = 3
  POW_FLOOR_BITS = 1
  POW_CEILING_BITS = 2
  MAX_FUTURE_MS = 3
  MaxClock = 0
  MaxWire = 2
  None = None
SYMMETRY Peers
INVARIANTS StalePointersGone

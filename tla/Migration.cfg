SPECIFICATION MCSpec
CONSTANTS
  Device = {d1, d2}
  Name = {n1}
  Followee = {f1, f2}
  LegacyFollows = {f1}
  LegacyPost = {p1}
  ReplyTo <- MCReplyTo
  Hash <- MCHash
  CONFIRM_TRIES = 2
  Nobody = Nobody
  f1 = f1
  Blank = blank
  LegacyProfile = old
  blank = blank
  old = old
  MIGRATION_ANNOUNCE_MS = MIGRATION_ANNOUNCE_MS
  f2 = f2
  p1 = p1
  n1 = n1
  MaxEdits = 2
  MaxLost = 1
  MaxSessions = 1
  MaxEvents = 3
  PostingKey = {k1, k2}
  Difficulty <- MCDifficulty
  Malformed <- MCMalformed
  POW_FLOOR_BITS = 0
  POW_CEILING_BITS = 3
  None = None
SYMMETRY Symmetry
CHECK_DEADLOCK FALSE
INVARIANTS FollowsKept ConfirmedMeansHeld
PROPERTIES LegacyNeverReverts TierIsKept ListingsClearBar

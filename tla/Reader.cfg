SPECIFICATION MCSpec
CONSTANTS
  Author = {1, 2, 3}
  Me = 1
  None = None
  Host = {h1, h2}
  Shown = {1, 2}
  Upload <- MCUpload
  Record <- MCRecord
  Old <- MCOld
  Poison <- MCPoison
  elsewhere = elsewhere
  Rotated = {elsewhere}
  Generation <- MCGeneration
  MAX_FUTURE_MS = 1
  MaxClock = 1
  Listing <- MCListing
  DirectoryDelivery <- MCDirectoryDelivery
  InboxDelivery <- MCInboxDelivery
  LEGACY_MAX_LISTINGS = 2
  LEGACY_ANON_LISTINGS = 1
  LEGACY_MAX_POINTERS = 3
  LEGACY_ANON_POINTER_SLOTS = 2
  LEGACY_MAX_PER_FINGERPRINT = 2
  LEGACY_MAX_PER_ANON_KEY = 1
  Peep <- MCPeep
  Follows <- MCFollows
  LegacyFollows <- MCLegacyFollows
  Pointer <- MCPointer
  Listed <- MCListed
  LegacyListed <- MCLegacyListed
  Opened <- MCOpened
  FOLLOW_ANNOUNCE_TARGET = 0
  SAMPLE = 1
INVARIANTS CachesAreNewest FetchedGoHome SlotsSettle
PROPERTIES VerifiedStays ListedLoad
CHECK_DEADLOCK FALSE

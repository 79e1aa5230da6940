SPECIFICATION FairSpec
CONSTANTS
  shop = shop
  blog = blog
  Sites = {shop, blog}
  Due <- MCDue
  Stored = {shop}
  Shadows = {}
  Retention = 1
  MaxAttempts = 2
  MaxClock = 5
  MaxCrashes = 1
INVARIANTS TypeOK KeepsNewest
PROPERTIES OnceAMinute RunIsReported
CHECK_DEADLOCK FALSE

SPECIFICATION FairSpec
CONSTANTS
  fix = fix
  feature = feature
  t1 = t1
  t2 = t2
  Branches = {fix, feature}
  Slugs = {fix, feature}
  Slug <- MCSlug
  Ports = {1, 2}
  Tasks = {t1, t2}
  Removers = {"admin", "ttl"}
  None = None
  MaxPushes = 2
  MaxCrashes = 1
INVARIANTS TypeOK PortsDistinct RunningIsServed RemovedIsGone
PROPERTY PreviewsEnd
CHECK_DEADLOCK FALSE

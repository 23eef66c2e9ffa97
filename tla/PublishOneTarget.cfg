\* One target, two tasks for it, a spare post ID for duplicates, every fault.
SPECIFICATION Spec
CONSTANTS
  p1 = p1
  p2 = p2
  t1 = t1
  t2 = t2
  a1 = a1
  a2 = a2
  instagram = instagram
  unknown = unknown
  Posts = {p1, p2}
  Targets = {t1}
  Accounts = {a1}
  Clients = {c1}
  JobIds = {j1, j2}
  Platforms = {instagram}
  Registered = {instagram}
  PostOf <- OneTargetPost
  AccountOf <- OneTargetAccount
  PlatformOf <- OneTargetPlatform
  NullScan = TRUE
  Faults = TRUE
  MaxRetry = 1
  MaxRequeues = 0
  Null = Null
INVARIANTS PublishedMeansLive DoneMeansRecorded OnePostPerTask
  LiveIsAccountedFor OverwriteExplained
PROPERTIES ImplementsContract
CHECK_DEADLOCK FALSE
SYMMETRY TaskSymmetry

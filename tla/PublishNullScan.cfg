\* No fault at all, and the rows read as pgx reads them.
SPECIFICATION Spec
CONSTANTS
  p1 = p1
  p2 = p2
  t1 = t1
  t2 = t2
  a1 = a1
  a2 = a2
  instagram = instagram
  unknown = unknown
  Posts = {p1}
  Targets = {t1}
  Accounts = {a1}
  Clients = {c1}
  JobIds = {j1, j2}
  Platforms = {instagram}
  Registered = {instagram}
  PostOf <- OneTargetPost
  AccountOf <- OneTargetAccount
  PlatformOf <- OneTargetPlatform
  NullScan = FALSE
  Faults = FALSE
  MaxRetry = 1
  MaxRequeues = 0
  Null = Null
PROPERTY TargetsAreQueued
CHECK_DEADLOCK FALSE

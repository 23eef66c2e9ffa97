\* Two targets, one of them on a platform without an adapter, one task, every
\* fault and a worker shutdown.
SPECIFICATION Spec
CONSTANTS
  p1 = p1
  p2 = p2
  t1 = t1
  t2 = t2
  a1 = a1
  a2 = a2
  instagram = instagram
  unknown = unknown
  Posts = {p1}
  Targets = {t1, t2}
  Accounts = {a1, a2}
  Clients = {c1}
  JobIds = {j1}
  Platforms = {instagram, unknown}
  Registered = {instagram}
  PostOf <- TwoTargetsPost
  AccountOf <- TwoTargetsAccount
  PlatformOf <- TwoTargetsPlatform
  NullScan = TRUE
  Faults = TRUE
  MaxRetry = 1
  MaxRequeues = 1
  Null = Null
INVARIANTS PostsWithinRetries
PROPERTIES TasksAdvance TasksSettle
CHECK_DEADLOCK FALSE

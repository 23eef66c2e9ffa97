\* One medium, two presets, two overlapping Deletes, every fault, one
\* run handed back by a shutdown.
SPECIFICATION Spec
CONSTANTS
  m1 = m1
  Media = {m1}
  Clients = {c1, c2}
  Tasks = {t1, t2}
  MediaOf <- OneMedium
  NullScan = TRUE
  Faults = TRUE
  MaxRetry = 1
  MaxRequeues = 1
  Null = Null
INVARIANTS BucketAgrees ReadyIsWhole StatusIsEarned
PROPERTIES TranscodesSettle
CHECK_DEADLOCK FALSE
SYMMETRY ClientSymmetry

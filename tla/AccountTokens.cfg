\* One user whose account is connected, refreshed twice, polled, deleted and
\* connected again, and every fault.
SPECIFICATION Spec
CONSTANTS
  u1 = u1
  Users = {u1}
  Accounts = {a1, a2}
  UserOf <- OneUser
  Clients = {c1}
  Refreshes = {r1, r2}
  Polls = {q1}
  Revokes = TRUE
  Faults = TRUE
  MaxRetry = 1
  MaxRequeues = 1
  MaxIssue = 3
  Null = Null
INVARIANTS NewestAccounted SnapshotsExplained
PROPERTIES TokensAscend RefreshesSettle
CHECK_DEADLOCK FALSE

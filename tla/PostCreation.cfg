\* A builder with two sub-builders, a request it goes on from, one call of
\* Create with a retry.
SPECIFICATION Spec
CONSTANTS
  ig = ig
  yt = yt
  Subs = {ig, yt}
  PlatformOf <- MCPlatformOf
  Accounts = {a1}
  Empty = Empty
  Times = {later}
  Soon = Soon
  Calls = {c1}
  MaxRetries = 1
  MaxMedia = 1
  MaxTargets = 2
  MaxWrites = 1
  MaxEdits = 1
  MaxBuilds = 1
  None = None
INVARIANTS BuiltIsValid SentAsBuilt UnreadableExplained
PROPERTIES BuiltIsKept
CHECK_DEADLOCK FALSE

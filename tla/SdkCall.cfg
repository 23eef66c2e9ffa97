\* The SDK's three retries: the backoff starts at its minimum, is cut to its
\* maximum and then overflows.
SPECIFICATION Spec
CONSTANTS
  MaxRetries = 3
  WaitMin = 2
  WaitMax = 3
  Overflow = 8
  RetryAfters = {0, 5}
  Timeout = TRUE
  None = None
INVARIANTS OkMeansDone RepeatsOnlyDoubt PausesKept
PROPERTIES OnlyForward CallReturns
CHECK_DEADLOCK FALSE

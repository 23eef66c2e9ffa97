\* Two tasks of one endpoint, with a shutdown between them; the batch holds
\* every pending row.
SPECIFICATION Spec
CONSTANTS
  e1 = e1
  e2 = e2
  w1 = w1
  w2 = w2
  Events = {e1, e2}
  Endpoints = {w1}
  Kind <- MCKind
  RowOrder <- MCRowOrder
  Codes = {200, 500}
  Ok = {200}
  Faults = {"decrypt","enqueue"}
  MaxOutages = 0
  MaxRetry = 1
  MaxRequeues = 1
  Batch = 2
  None = None
INVARIANTS DeliveredWasAnswered ResentOnlyIfUnmarked
PROPERTIES EventuallySent
CHECK_DEADLOCK FALSE

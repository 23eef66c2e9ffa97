\* A delivery the endpoint did not accept is recorded as delivered.
SPECIFICATION Spec
CONSTANTS
  e1 = e1
  e2 = e2
  w1 = w1
  w2 = w2
  Events = {e1}
  Endpoints = {w1}
  Kind <- MCKind
  RowOrder <- MCRowOrder
  Codes = {200, 500}
  Ok = {200}
  Faults = {}
  MaxOutages = 0
  MaxRetry = 0
  MaxRequeues = 0
  Batch = 1
  None = None
INVARIANTS DeliveredMeansAccepted
CHECK_DEADLOCK FALSE

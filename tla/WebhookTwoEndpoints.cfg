\* One task, two endpoints, every fault.
SPECIFICATION Spec
CONSTANTS
  e1 = e1
  e2 = e2
  w1 = w1
  w2 = w2
  Events = {e1}
  Endpoints = {w1, w2}
  Kind <- MCKind
  RowOrder <- MCRowOrder
  Codes = {200, 500}
  Ok = {200}
  Faults = {"insert", "enqueue", "endpoints", "deliveries", "decrypt", "mark", "crash"}
  MaxOutages = 1
  MaxRetry = 1
  MaxRequeues = 1
  Batch = 2
  None = None
INVARIANTS SuccessMeansAccepted
PROPERTIES TasksAdvance ImplementsContract
SYMMETRY EndpointSymmetry
CHECK_DEADLOCK FALSE

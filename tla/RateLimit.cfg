\* Four requests on plans of one or two, over two lives within one minute.
SPECIFICATION Spec
CONSTANTS
  Requests = {r1, r2, r3, r4}
  Limits = {1, 2}
  Minute = 2
  MaxTime = 3
  Faults = TRUE
  Never = Never
INVARIANTS AtMostLimit AtMostTwiceAMinute CounterExpires
SYMMETRY RequestSymmetry
CHECK_DEADLOCK FALSE

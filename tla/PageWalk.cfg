\* Five posts in any order of IDs, pages of two: up to three pages, read by the
\* SDK's Page or by a program's own.
SPECIFICATION Spec
CONSTANTS
  Ids = {1, 2, 3, 4, 5}
  Limit = 2
  None = None
INVARIANTS RepeatsExplained MissesExplained
PROPERTIES WalkAdvances WalkEnds
CHECK_DEADLOCK FALSE

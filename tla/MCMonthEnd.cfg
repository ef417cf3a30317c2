CONSTANTS
  Template = {t1}
  Job = {j1, j2}
  Offered = {"weekly", "monthly"}
  Start <- EndOfMonth
  End <- MCEnd
  Instant <- MCInstant
  LoopBound = 8
  MaxAttempts = 2
  MaxNumber = 2
  None = None
SPECIFICATION Spec
INVARIANTS
  SearchEnds
CHECK_DEADLOCK FALSE

CONSTANTS
  Template = {t1}
  Job = {j1, j2}
  Offered = {"weekly"}
  Start <- MCStart
  End <- MCEnd
  Instant <- MCInstant
  LoopBound = 8
  MaxAttempts = 2
  MaxNumber = 2
  None = None
SPECIFICATION Spec
PROPERTIES
  SecondAttemptNoOps
CHECK_DEADLOCK FALSE

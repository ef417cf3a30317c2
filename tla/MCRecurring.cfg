CONSTANTS
  Template = {t1}
  Job = {j1, j2}
  Offered = {"weekly", "monthly"}
  Start <- MCStart
  End <- MCEnd
  Instant <- MCInstant
  LoopBound = 8
  MaxAttempts = 2
  MaxNumber = 2
  None = None
SPECIFICATION FairSpec
INVARIANTS
  RecurringTypeOK
  ScheduleIsKept
PROPERTIES
  CancelledGoesQuiet
  DueIsServed
CHECK_DEADLOCK FALSE

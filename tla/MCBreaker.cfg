\* Three concurrent calls, more than the thresholds.
CONSTANTS
  Call = {c1, c2, c3}
  FailureThreshold = 2
  SuccessThreshold = 2
  Cooldown = 2
SPECIFICATION FairSpec
INVARIANTS
  TypeOK
  CountersFitState
  OvershootIsBounded
PROPERTIES
  TransitionsAreEarned
  ImplementsContract
  RecoversWhenHealthy

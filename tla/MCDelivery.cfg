\* Two subscribers of one event, edited, paused and deleted at any time.
CONSTANTS
  Sub = {s1, s2}
  Occurrence = {o1}
  Url = {u1, u2}
  MaxAttempts = 2
  FailureThreshold = 2
  SuccessThreshold = 1
  Cooldown = 1
SPECIFICATION FairSpec
INVARIANTS
  DeliveryTypeOK
  OneEndpointPerEvent
  HeardWithinBudget
PROPERTIES
  UsesBreaker
  EveryJobSettles
CHECK_DEADLOCK FALSE

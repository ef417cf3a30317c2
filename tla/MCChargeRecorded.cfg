\* Stripe delivers the two events of a charge in either order.
CONSTANTS
  Invoice = {i1}
  Total = {1}
  Subscribed = {}
  Payment = {p1, p2}
  Key = {}
  NoKey = NoKey
  Worker = {w1, w2}
  Refund = {}
  Declined = {}
SPECIFICATION SentSpec
INVARIANT
  ChargeIsRecorded
CHECK_DEADLOCK FALSE

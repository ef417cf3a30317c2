\* Two payments of one invoice succeed at the same time.
CONSTANTS
  Invoice = {i1}
  Total = {1}
  Subscribed = {}
  Payment = {p1, p2}
  Key = {}
  NoKey = NoKey
  Worker = {w1, w2}
  Refund = {}
  Declined = {}
SPECIFICATION SentSpec
INVARIANT
  InvoicePaidAnnouncedOnce
CHECK_DEADLOCK FALSE

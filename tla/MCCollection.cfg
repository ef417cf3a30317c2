\* Two payments of one invoice, from an empty table and from a sent invoice.
CONSTANTS
  Invoice = {i1}
  Total = {0, 2}
  Subscribed = {}
  Payment = {p1, p2}
  Key = {k1}
  NoKey = NoKey
  Worker = {w1, w2}
  Refund = {r1, r2}
  Declined = {p1}
SYMMETRY Alike
SPECIFICATION CollectionSpec
INVARIANTS
  PaymentTypeOK
  PaidWasCollected
  AmountIsInvoiceTotal
  CachedReplyIsUsable
  NoticesAreBacked
  LedgerAgreesWithStripe
PROPERTIES
  NoSuccessAfterRefund
  StepsFollowLifecycle
CHECK_DEADLOCK FALSE

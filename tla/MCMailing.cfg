\* Two invoices of one client: the bulk overdue scan races with handlers and
\* e-mail jobs of both; two totals, so that an edit is visible.
CONSTANTS
  Invoice = {i1, i2}
  Total = {1, 2}
  Subscribed = {"invoice.sent", "invoice.overdue"}
  Client = {c1}
  Nobody = Nobody
  MaxAttempts = 2
SPECIFICATION FairMailingSpec
INVARIANTS
  MailTypeOK
  AnnouncedOnceAndTrue
  MailNamesFinalAmount
  NoMailSkipped
PROPERTIES
  TotalFrozenOnceSent
  FollowsLifecycle
  PastDueIsNoticed
CHECK_DEADLOCK FALSE

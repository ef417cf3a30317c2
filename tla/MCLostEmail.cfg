\* One invoice whose e-mail job may be lost, an overdue worker that keeps
\* ticking, and a user who keeps asking to send.
CONSTANTS
  Invoice = {i1}
  Total = {1}
  Subscribed = {"invoice.sent"}
  Client = {c1}
  Nobody = Nobody
  MaxAttempts = 2
SPECIFICATION HelpedMailingSpec
PROPERTY
  LostMailRecovers
CHECK_DEADLOCK FALSE

\* More requests than permits, two users, one organisation.
CONSTANTS
  Request = {r1, r2, r3}
  Permits = 2
  MaxOrphans = 1
  Address = {a1, a2}
  Org = {o1}
  Invitation = {v1}
  NoUser = NoUser
SYMMETRY Alike
SPECIFICATION AccountsSpec
INVARIANTS
  AccountsTypeOK
  HashThreadsBounded
  NoIdlePermit
  NoPermitLeaked
  OneWelcomePerAddress
  FounderKeepsSeat
CHECK_DEADLOCK FALSE

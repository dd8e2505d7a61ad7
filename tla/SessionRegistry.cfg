SPECIFICATION Spec
CONSTANTS
  Ids = {i1, i2}
  Clients = {c1, c2}
  Ttl = 1
  CleanEvery = 2
  MaxNow = 3
INVARIANTS
  TypeOK
  IdleSessionsCollected
PROPERTIES
  OnlyIdleSessionsLeave
  GoneStaysGone
  IdleSessionsLeave

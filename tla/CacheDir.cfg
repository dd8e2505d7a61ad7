SPECIFICATION Spec
CONSTANTS
  Requests = {r1, r2}
  Nobody = nobody
  DiskFails = TRUE
  Ttl = 0
  MaxNow = 1
  MaxRestarts = 1
INVARIANTS
  TypeOK
  FinalFilesWhole
  CleanUpMissesNone
PROPERTIES
  ReadsFailWhenRobbed
  OnlyOldFilesLeave
  ImplementsTraceStore
  OldFilesLeave
  RequestsAnswered
CHECK_DEADLOCK FALSE

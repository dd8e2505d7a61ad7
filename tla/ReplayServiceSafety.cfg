SPECIFICATION ServiceSafeSpec
CONSTANTS
  Sessions = {s1, s2, s3}
  Txs <- OneTx
  FullTrace <- OneTrace
  Outcome <- OneOutcome
  Faults = {"replay", "panic", "hang"}
  Permits = 2
  SavesFail = TRUE
SYMMETRY SessionSymmetry
INVARIANTS
  ServiceTypeOK
  PermitsConserved
  ReplaysBounded
  CacheIsGenuine
  TasksServeSessions

SPECIFICATION ServiceSafeSpec
CONSTANTS
  Sessions = {s1}
  Txs <- OneTx
  FullTrace <- OneTrace
  Outcome <- OneOutcome
  Faults = {"replay"}
  Permits = 1
  SavesFail = FALSE
INVARIANTS
  CachedTracesAreComplete

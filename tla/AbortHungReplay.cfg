SPECIFICATION Spec
CONSTANTS
  Sessions = {s1}
  Txs <- MCTxs
  FullTrace <- MCFullTrace
  Outcome <- MCOutcome
  Faults = {"hang"}
PROPERTIES
  AbortStopsEvm

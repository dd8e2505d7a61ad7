SPECIFICATION SafeSpec
CONSTANTS
  Sessions = {s1, s2}
  Txs <- MCTxs
  FullTrace <- MCFullTrace
  Outcome <- MCOutcome
  Faults = {"replay", "panic", "hang"}
SYMMETRY SessionSymmetry
INVARIANTS
  TypeOK
  ReplayIsGenuine
  AbortHolds
PROPERTIES
  ForwardOnly

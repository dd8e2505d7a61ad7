SPECIFICATION ServiceSpec
CONSTANTS
  Sessions = {s1, s2}
  Txs <- TwoTxs
  FullTrace <- TwoTraces
  Outcome <- TwoOutcomes
  Faults = {"replay", "panic"}
  Permits = 1
  SavesFail = TRUE
PROPERTIES
  LoadingResolves
  ImplementsLifecycle
  EverySessionServed
  ServesSessions

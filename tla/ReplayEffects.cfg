SPECIFICATION EffectsSpec
CONSTANTS
  Contracts = {c1, c2}
  Zero = zero
  MaxSteps = 6
  MaxDepth = 3
SYMMETRY ContractSymmetry
INVARIANTS
  TypeOK
  CallStackMirrorsFrames
  StepOverFollowsFrames
  CallWritesGrouped
  LogsAreOfReceipt
  ShownStorageIsLatest
  GasUsedOfOwnFrame
CHECK_DEADLOCK FALSE

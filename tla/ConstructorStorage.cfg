SPECIFICATION Spec
CONSTANTS
  Contracts = {c1, c2}
  Zero = zero
  MaxSteps = 2
  MaxDepth = 3
INVARIANTS
  StorageGroupedByContract
CHECK_DEADLOCK FALSE

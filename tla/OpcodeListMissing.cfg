SPECIFICATION Spec
CONSTANTS
  Sessions = {s1}
  Lengths = {2}
  NoSession = none
  NotAList = notalist
  Calls = {c1, c2}
PROPERTIES
  OpcodeListFetched
CHECK_DEADLOCK FALSE

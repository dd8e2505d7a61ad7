SPECIFICATION Spec
CONSTANTS
  Sessions = {s1, s2}
  Lengths = {0, 2}
  NoSession = none
  NotAList = notalist
  Calls = {c1, c2}
INVARIANTS
  TypeOK
  ListBelongs
  AnsweredPageIsCurrent
  DisplayNeverAhead
  ButtonsComeBack
PROPERTIES
  LoadsEnd

SPECIFICATION FairSpec
CONSTANTS
  a1 = a1
  a2 = a2
  b1 = b1
  b2 = b2
  s1 = s1
  Texts = {a1, b1, b2}
  Sealed = {s1}
  Author <- Authors
  MaxResets = 1
INVARIANTS
  TypeOK
  WinnerIsAnswered
  ItemInOneCopy
PROPERTIES
  OneWayIsRead
CHECK_DEADLOCK FALSE

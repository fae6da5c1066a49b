SPECIFICATION Spec
CONSTANTS
  a = a
  b = b
  c = c
  Nodes = {a, b}
  Admin = a
  MaxSkip = 2
  MaxVersion = 4
  MaxEvents = 0
INVARIANTS
  ReturnedCanTalk
CHECK_DEADLOCK FALSE

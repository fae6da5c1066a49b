SPECIFICATION Spec
CONSTANTS
  c1 = c1
  c2 = c2
  CallIds = {c1, c2}
  NoCall = NoCall
  MaxFaults = 1
INVARIANTS
  TypeOK
  CallerIsServed
  ActiveWasAccepted
PROPERTIES
  EndIsFinal
CHECK_DEADLOCK FALSE
SYMMETRY Symmetry

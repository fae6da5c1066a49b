SPECIFICATION Spec
CONSTANTS
  a1 = a1
  a2 = a2
  b1 = b1
  b2 = b2
  s1 = s1
  Texts = {a1, b1}
  Sealed = {}
  Author <- Authors
  MaxResets = 0
INVARIANTS
  CollisionEndsInOneSession
CHECK_DEADLOCK FALSE

SPECIFICATION Spec
CONSTANTS
  u1 = u1
  u2 = u2
  Users = {u1}
  MaxRestarts = 1
INVARIANTS
  BlockIsSilent

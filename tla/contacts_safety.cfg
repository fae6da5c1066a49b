SPECIFICATION Spec
CONSTANTS
  u1 = u1
  u2 = u2
  Users = {u1, u2}
  MaxRestarts = 1
INVARIANTS
  TypeOK
  SnapshotFollows
  UndisturbedBlockIsTotal
PROPERTIES
  OnlyUserLiftsBlock
SYMMETRY Symmetry

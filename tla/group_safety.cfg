SPECIFICATION Spec
CONSTANTS
  a = a
  b = b
  c = c
  Nodes = {a, b, c}
  Admin = a
  MaxSkip = 2
  MaxVersion = 4
  MaxEvents = 2
INVARIANTS
  TypeOK
  AudienceOnly
  EatenIsReplaced
  MembershipSettles
  MembersCanTalk
SYMMETRY Symmetry
CHECK_DEADLOCK FALSE

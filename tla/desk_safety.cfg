SPECIFICATION Spec
CONSTANTS
  k1 = k1
  k2 = k2
  c1 = c1
  c2 = c2
  p1 = p1
  Conns = {k1, k2}
  NoConn = NoConn
  CallIds = {c1, c2}
  NoCall = NoCall
  Ours = {c1}
  Peers = {p1}
  NoPeer = NoPeer
  EventQueue = 2
  CmdQueue = 1
  MaxInputs = 3
  MaxFaults = 1
INVARIANTS
  TypeOK
  CallBarFollows
  PresenceFollows
  MediaIsComing
  NoStraySession
CHECK_DEADLOCK FALSE
SYMMETRY Symmetry

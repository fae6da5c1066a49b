SPECIFICATION Spec
CONSTANTS
  p1 = p1
  m1 = m1
  m2 = m2
  Peers = {p1}
  Msgs = {m1, m2}
  Dest <- DestSame
  Quiet = {m2}
  MaxRowid = 2
  DueBatch = 2
  DedupCap = 1
  MaxFaults = 1
  MaxDamage = 0
INVARIANTS
  TypeOK
  DeliveredIsReal
  SentIsReal
  NothingLost
  ExactlyOnce
  NoStrandedRow
CHECK_DEADLOCK FALSE
VIEW SafeView

SPECIFICATION FairSpec
CONSTANTS
  p1 = p1
  m1 = m1
  m2 = m2
  Peers = {p1}
  Msgs = {m1, m2}
  Dest <- DestSame
  Quiet = {m2}
  MaxRowid = 2
  DueBatch = 1
  DedupCap = 1
  MaxFaults = 1
  MaxDamage = 1
PROPERTIES
  EventuallyDelivered
  ImplementsReliableDelivery
CONSTRAINT TroubleOrQuiet
VIEW LiveView
CHECK_DEADLOCK FALSE

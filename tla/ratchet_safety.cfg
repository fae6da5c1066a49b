SPECIFICATION Spec
CONSTANTS
  initiator = initiator
  responder = responder
  Initiator = initiator
  Responder = responder
  MaxSkip = 2
  MaxSent = 9
INVARIANTS
  TypeOK
  InWindowIsRead
  UsedIsForgotten
  KeyOnce
  SkippedFits
CHECK_DEADLOCK FALSE

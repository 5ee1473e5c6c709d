SPECIFICATION FairSpec
CONSTANTS
  Senders <- MCSenders
  Receivers <- MCReceivers
  Messages <- MCMessages
  Slots = 11
  SemMax = 1
  MaxSends = 2
  MaxKills = 1
INVARIANTS StreamInv
PROPERTIES Drained
CHECK_DEADLOCK FALSE

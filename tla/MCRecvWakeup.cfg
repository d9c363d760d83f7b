SPECIFICATION WakeFairSpec
CONSTANTS
  RecvTimeout = 2
  MaxLines = 4
INVARIANTS
  WakeTypeOK
  NoLostWakeup
PROPERTIES
  Delivered

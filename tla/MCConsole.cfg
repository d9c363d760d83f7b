SPECIFICATION Spec
CONSTANTS
  Threads = {"com_main", "eventThread"}
  Messages <- MCMessages
  MAX_CHAR = 12
  MAX_PAGE = 3
  Cut = 3
  Width = 4
INVARIANTS
  TypeOK
  ShowsLatestLines
  RingNeverOverrun

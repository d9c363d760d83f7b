SPECIFICATION FairSpec
CONSTANTS
  Rate = "230400"
  LossAt = {"RST", "UART_CUR", "CWMODE", "CIPMUX", "CWAUTOCONN", "CWQAP"}
  MaxLosses = 6
INVARIANTS
  TypeOK
  StartedIsConfigured
PROPERTIES
  StartsInTheEnd
CHECK_DEADLOCK FALSE

SPECIFICATION Spec
CONSTANTS
  SOCKET_COUNT = 3
  Slow = TRUE
  DnsServers = 2
  DnsAttempts = 2
INVARIANTS
  TrueOnlyIfOpened

SPECIFICATION DoorFairSpec
CONSTANTS
  Readings <- OnlyLight
  KeyEvents = {"none", "match", "mismatch"}
  Goals = {}
  InitialTarget = 2
  AlarmTicks = 2
  QueueCapacity = 3
  Prompt = TRUE
  Faulty = {}
INVARIANTS
  NeverHalts
  BoltAndMessageAgree
  BoltMeansShut
PROPERTIES
  AlarmStops
  BoltFollows
  OpenedGetsLocked

SPECIFICATION FairSpec
CONSTANTS
  FrameBits = 3
  Stable <- BeginsWith1
  QueueCapacity = 3
  MaxBits = 5
INVARIANTS
  ShownIsOneFrame
  NeverDeaf
  TimelyNeverHalts
PROPERTIES
  KeepsReading
CHECK_DEADLOCK FALSE

SPECIFICATION Spec
CONSTANTS
  Readings <- OnlyLight
  KeyEvents = {"none", "edit", "goal", "match", "mismatch"}
  Goals = {0, 5}
  InitialTarget = 2
  AlarmTicks = 1
  QueueCapacity = 2
  Prompt = FALSE
  Faulty = {"servo"}
INVARIANTS
  TypeOK
  AlarmHasStopper
  PoolAccounted
  LampHasReason
  StatusHonest
  GoalNotOutdated
PROPERTIES
  ImplementsLockBox
CHECK_DEADLOCK FALSE

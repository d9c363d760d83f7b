SPECIFICATION Spec
CONSTANTS
  osWaitForever = 15
  IntMax = 7
  UsPerSecond = 2
PROPERTY
  ThreadsKeepRunning

\* Does Stop always return?
SPECIFICATION MCSpec
CONSTANTS
  MaxThreads = 1
  SlowStart = FALSE
  Launchers = {l1}
  Embedder = embedder
PROPERTY StopHalts
CHECK_DEADLOCK FALSE

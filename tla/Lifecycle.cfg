\* Three starts, each of which may fail; two clients that are launched.
SPECIFICATION MCSpec
CONSTANTS
  MaxThreads = 3
  SlowStart = FALSE
  Launchers = {l1, l2}
  Embedder = embedder
INVARIANTS ContextOutlivesThreads RunningMeansServing ReportsTrue
PROPERTIES StopOfRunningReturns EndReturns
CHECK_DEADLOCK FALSE

\* Two connections: a second Start after a Stop, or after a Start that failed.
\* A Stop may wait for ever: NestedStopHalts.
SPECIFICATION Spec
CONSTANTS
  MaxConnections = 2
  Platforms <- MCPlatforms
INVARIANT FreedAfterThread
PROPERTIES QuietStopReturns EndReported
CHECK_DEADLOCK FALSE

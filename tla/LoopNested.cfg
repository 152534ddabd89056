\* A nested, embedded compositor: input comes from the connection to the parent compositor.
SPECIFICATION Spec
CONSTANTS
  z1 = z1
  z2 = z2
  s1 = s1
  Sizes <- TwoSizes
  Surfaces <- OneSurface
  QueueSize = 3
  IsNested = TRUE
  IsEmbedded = TRUE
  HasRenderer = TRUE
  MaxEvents = 4
  MaxCallbacks = 1
INVARIANTS InOrder NoGarbageDispatched
CHECK_DEADLOCK FALSE

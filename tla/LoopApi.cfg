\* A compositor that takes its input from the embedder.
SPECIFICATION Spec
CONSTANTS
  z1 = z1
  z2 = z2
  s1 = s1
  Sizes <- TwoSizes
  Surfaces <- OneSurface
  QueueSize = 3
  IsNested = FALSE
  IsEmbedded = FALSE
  HasRenderer = TRUE
  MaxEvents = 3
  MaxCallbacks = 1
INVARIANT FrameClockRuns
PROPERTIES ImplementsFifo RepaintHappens CallbacksAnswered SizeSettles
CHECK_DEADLOCK FALSE

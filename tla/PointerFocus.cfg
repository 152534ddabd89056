\* Two clients with three surfaces and two pointers, in each configuration.
SPECIFICATION Spec
CONSTANTS
  Clients = {c1, c2}
  Surfaces = {s1, s2, s3}
  Pointers = {k1, k2}
  Slots = {i1, i2}
  None = None
  Freed = Freed
SYMMETRY Symmetry
INVARIANTS PointersLive EventsFollowEnter LeaveBeforeEnter
PROPERTIES CursorLeavesWithFocus
CHECK_DEADLOCK FALSE

\* Two clients with three surfaces, one of them with video, on two levels.
SPECIFICATION Spec
CONSTANTS
  Shells = {o1, o2}
  Ids = {s1, s2, s3}
  VideoIds = {s1}
  Levels = {1, 2}
  DefaultLevel = 1
  CursorLevel = 3
SYMMETRY Symmetry
INVARIANTS Announced HitOrderIsPaintOrder PathHandshake
CHECK_DEADLOCK FALSE

\* Two pictures; one surface for what it holds, two for the order of the fast path's.
SPECIFICATION Spec
CONSTANTS
  Pictures = {p1, p2}
  None = None
  Blank = Blank
  Freed = Freed
  GlSurfaces = {s1}
  EmbSurfaces = {s1, s2}
  ZLevels = {1, 2, 3}
  ZDefault = 2
  ZCursor = 3
  DmxSurfaces = {s1}
  Images = {p1, p2}
  Nothing = None
INVARIANTS GlContentKept FastPathMirrors EmbContentKept DmxContentKept
CHECK_DEADLOCK FALSE

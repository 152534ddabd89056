\* Two clients that create and destroy surfaces and keyboards.
SPECIFICATION Spec
CONSTANTS
  Clients = {c1, c2}
  Surfaces = {s1, s2, s3}
  Keyboards = {k1, k2, k3}
  None = None
SYMMETRY Symmetry
INVARIANTS PointersLive FocusListMatchesFocus
PROPERTIES EnterIsTrue NoFocusStealing
CHECK_DEADLOCK FALSE

\* Two surfaces, three buffers, two clones with the parent, one shm pool.
SPECIFICATION Spec
CONSTANTS
  Surfaces = {s1, s2}
  Buffers = {b1, b2, b3}
  Pools = {p1}
  Clones = {c1, c2}
  Careful = TRUE
  AddressReuse = FALSE
  None = None
SYMMETRY Symmetry
INVARIANTS BuffersAndPoolsLive ReleasedPerAttach
CHECK_DEADLOCK FALSE

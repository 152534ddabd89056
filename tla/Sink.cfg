CONSTANTS
    Capacity = 2
    MaxTokens = 4
    Surface = {s1, s2}
SPECIFICATION Spec
SYMMETRY Surfaces
INVARIANTS
    BuffersAccounted
    EosNotLost
    FrameHasPath
    FramesCaptured
CHECK_DEADLOCK FALSE

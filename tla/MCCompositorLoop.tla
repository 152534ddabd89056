--------------------------- MODULE MCCompositorLoop ----------------------------
(* Small instances of CompositorLoop for TLC. *)
EXTENDS CompositorLoop

CONSTANTS z1, z2, s1   \* model values

TwoSizes == {z1, z2}
OneSurface == {s1}
================================================================================

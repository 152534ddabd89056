--------------------------- MODULE MCSurfaceBuffers ----------------------------
(* A small instance of SurfaceBuffers for TLC. *)
EXTENDS SurfaceBuffers, TLC

\* The objects of each kind are interchangeable.
Symmetry == Permutations(Surfaces) \cup Permutations(Buffers) \cup Permutations(Clones)
              \cup Permutations(Pools)
================================================================================

---------------------------- MODULE MCPointerFocus -----------------------------
(* A small instance of PointerFocus for TLC. *)
EXTENDS PointerFocus, TLC

\* Clients, surfaces, pointers and queue slots are interchangeable.
Symmetry == Permutations(Clients) \cup Permutations(Surfaces)
              \cup Permutations(Pointers) \cup Permutations(Slots)
================================================================================

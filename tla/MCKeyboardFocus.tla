---------------------------- MODULE MCKeyboardFocus ----------------------------
(* A small instance of KeyboardFocus for TLC. *)
EXTENDS KeyboardFocus, TLC

\* Clients, surfaces and keyboards are interchangeable.
Symmetry == Permutations(Clients) \cup Permutations(Surfaces) \cup Permutations(Keyboards)
================================================================================

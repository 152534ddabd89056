-------------------------------- MODULE MCScene --------------------------------
(* A small instance of Scene for TLC. *)
EXTENDS Scene, TLC

\* Clients are interchangeable, and so are the surfaces without video.
Symmetry == Permutations(Shells) \cup Permutations(Ids \ VideoIds)
================================================================================

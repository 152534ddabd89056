--------------------------- MODULE MCNestedConnection ---------------------------
(* A small instance of NestedConnection for TLC. *)
EXTENDS NestedConnection

MCPlatforms == {[canRepeat |-> b, display |-> b] : b \in BOOLEAN}
================================================================================

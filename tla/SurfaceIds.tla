------------------------------ MODULE SurfaceIds -------------------------------
(* The ids of surfaces: ctx->nextSurfaceId counts them, so none is used twice. *)

CONSTANT Ids
================================================================================

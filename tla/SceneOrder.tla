------------------------------ MODULE SceneOrder -------------------------------
(***************************************************************************)
(* The two lists that order the surfaces of a scene: ctx->surfaces of      *)
(* westeros-compositor.cpp, in which the pointer looks for a surface from  *)
(* the top, and the list of the renderer (westeros-render-gl.cpp; the      *)
(* other renderers keep theirs in the same way), which draws from the      *)
(* bottom.  A surface set as the cursor is on top in the second only.      *)
(***************************************************************************)
EXTENDS SurfaceIds, Naturals, Sequences, SequencesExt

CONSTANTS
  Levels,          \* z-orders a client may ask for, the default included
  DefaultLevel,
  CursorLevel      \* 1000000.0

ASSUME LevelAssumption ==
  /\ Levels \subseteq Nat /\ DefaultLevel \in Levels
  /\ CursorLevel \in Nat /\ \A z \in Levels : z < CursorLevel

VARIABLES
  surfaces,        \* ctx->surfaces
  zorder,          \* zorder of each WstSurface
  drawn,           \* surfaces of the renderer
  drawnAt,         \* zorder of each WstRenderSurface
  cursors          \* surfaces with the role of a cursor

orderVars == <<surfaces, zorder, drawn, drawnAt, cursors>>

--------------------------------------------------------------------------------
\* Variant: a surface goes below its equals.
InsertBelowEquals(list, s, z) ==
  LET rest == RemoveFirst(list, s)
      i    == SelectInSeq(rest, LAMBDA t : z[s] <= z[t])
  IN  IF i = 0 THEN Append(rest, s) ELSE InsertAt(rest, i, s)

\* wstSurfaceInsertSurface: take s out, and insert it before the first surface that is
\* higher.
InsertSurface(list, s, z) ==
  LET rest == RemoveFirst(list, s)
      i    == SelectInSeq(rest, LAMBDA t : z[s] < z[t])
  IN  IF i = 0 THEN Append(rest, s) ELSE InsertAt(rest, i, s)

\* wstRendererSurfaceSetZOrder and the end of wstRendererSurfaceCreate: the same.
RendererInsert(list, s, z) ==
  LET rest == RemoveFirst(list, s)
      i    == SelectInSeq(rest, LAMBDA t : z[s] < z[t])
  IN  IF i = 0 THEN Append(rest, s) ELSE InsertAt(rest, i, s)

\* Move s to level z in the renderer's list.
RendererSetZOrder(s, z) ==
  /\ drawnAt' = [drawnAt EXCEPT ![s] = z]
  /\ drawn' = RendererInsert(drawn, s, drawnAt')

\* wstSurfaceCreate takes the level from the renderer's new surface.
SceneCreate(s) ==
  /\ RendererSetZOrder(s, DefaultLevel)
  /\ zorder' = [zorder EXCEPT ![s] = DefaultLevel]
  /\ surfaces' = InsertSurface(surfaces, s, zorder')
  /\ UNCHANGED cursors

\* The part of wstSurfaceDestroy, with wstRendererSurfaceDestroy: what is freed is reset.
SceneRemove(s) ==
  /\ surfaces' = RemoveFirst(surfaces, s)
  /\ drawn' = RemoveFirst(drawn, s)
  /\ zorder' = [zorder EXCEPT ![s] = DefaultLevel]
  /\ drawnAt' = [drawnAt EXCEPT ![s] = DefaultLevel]
  /\ cursors' = cursors \ {s}

\* simpleShellSetZOrder
SetZOrder(s, z) ==
  /\ zorder' = [zorder EXCEPT ![s] = z]
  /\ RendererSetZOrder(s, z)
  /\ surfaces' = InsertSurface(surfaces, s, zorder')
  /\ UNCHANGED cursors

\* wstPointerSetPointer
SetCursorSurface(s) ==
  /\ RendererSetZOrder(s, CursorLevel)
  /\ cursors' = cursors \cup {s}
  /\ UNCHANGED <<surfaces, zorder>>

OrderInit ==
  /\ surfaces = << >> /\ drawn = << >>
  /\ zorder = [s \in Ids |-> DefaultLevel]
  /\ drawnAt = [s \in Ids |-> DefaultLevel]
  /\ cursors = {}

--------------------------------------------------------------------------------
OrderTypeOK ==
  /\ surfaces \in Seq(Ids) /\ drawn \in Seq(Ids)
  /\ zorder \in [Ids -> Levels]
  /\ drawnAt \in [Ids -> Levels \cup {CursorLevel}]
  /\ cursors \subseteq Ids

Below(list, s, t) == \E i, j \in DOMAIN list : i < j /\ list[i] = s /\ list[j] = t

\* The pointer finds what the viewer sees on top: apart from cursors the two lists hold
\* the same surfaces, each once, in the same order, whatever sequence of moves led there.
HitOrderIsPaintOrder ==
  \A s, t \in Ids \ cursors :
    /\ s \in ToSet(surfaces) <=> s \in ToSet(drawn)
    /\ Below(surfaces, s, t) <=> Below(drawn, s, t)
    /\ Below(surfaces, s, t) => s # t
================================================================================

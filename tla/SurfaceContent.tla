----------------------------- MODULE SurfaceContent -----------------------------
(***************************************************************************)
(* What a GL renderer keeps of the buffers committed to a surface, the     *)
(* content part of struct _WstRenderSurface: a copy of an shm buffer, the  *)
(* EGL images of a client's buffer, one per plane, and the textures that   *)
(* are drawn.  westeros-render-gl.cpp and westeros-render-embedded.cpp     *)
(* have the same code for it; the definitions here are operators on one    *)
(* surface's record, and the two renderers apply them in their handlers.   *)
(*                                                                         *)
(* A buffer's pixels are one of Pictures.  A texture holds the picture it  *)
(* was last given, or Blank when it was made and given none.  textures and *)
(* images count what exists on the surface's behalf: they go up and down   *)
(* with each call to GL and EGL, whatever the handles say.                 *)
(***************************************************************************)
EXTENDS Naturals, FiniteSets

CONSTANTS
  Pictures,
  None,
  Blank,       \* pixels of something that was made and not filled
  Freed        \* memory that was freed and not forgotten

ASSUME ContentAssumption ==
  /\ {None, Blank, Freed} \cap Pictures = {}
  /\ None # Blank /\ None # Freed /\ Blank # Freed

Planes == 1 .. 2                                                  \* MAX_TEXTURES
Formats == {"rgba", "y_uv", "other"}                              \* EGL_TEXTURE_*

\* wstRendererGLCreateSurface.  kind and last are history: the kind of buffer that was
\* committed, "mixed" after commits of several kinds or one that only half succeeded, and
\* the last picture.
NewContent ==
  [textureCount |-> 1, textureId |-> [i \in Planes |-> None],
   eglImage |-> [i \in Planes |-> None], fromPixmap |-> FALSE, nativePixmap |-> FALSE,
   mem |-> None, memDirty |-> FALSE, textures |-> 0, images |-> 0,
   kind |-> "none", last |-> None]

Had(x) == IF x = None THEN 0 ELSE 1

\* Forget the textures, or the images, of the given planes, and delete what there is.
DropTextures(c, planes) ==
  [c EXCEPT !.textureId = [i \in Planes |-> IF i \in planes THEN None ELSE @[i]],
            !.textures = @ - Cardinality({i \in planes : c.textureId[i] # None})]
DropImages(c, planes) ==
  [c EXCEPT !.eglImage = [i \in Planes |-> IF i \in planes THEN None ELSE @[i]],
            !.images = @ - Cardinality({i \in planes : c.eglImage[i] # None})]

\* Variant: the textures stay.
WithImagesKeeping(c, planes, p) ==
  [c EXCEPT !.eglImage = [i \in Planes |-> IF i \in planes THEN p ELSE @[i]],
            !.images = @ + Cardinality(planes)]

\* New images of picture p: their textures are deleted, to be made with the next frame.
WithImages(c, planes, p) ==
  [DropTextures(c, planes) EXCEPT
     !.eglImage = [i \in Planes |-> IF i \in planes THEN p ELSE @[i]],
     !.images = @ + Cardinality(planes)]

Committed(c, kind, p) ==
  LET k == IF c.kind \in {"none", kind} THEN kind ELSE "mixed" IN
    [c EXCEPT !.kind = k, !.last = IF k = "mixed" THEN None ELSE p]

\* The *CommitShm functions: the pixels are copied, to be uploaded with the next frame.
CommitShm(c, p) == Committed([c EXCEPT !.mem = p, !.memDirty = TRUE], "mem", p)

\* The *CommitDispmanx functions, where a build for the Raspberry Pi sends what is not shm.
\* A read that fails leaves memory that is not marked.
CommitDispmanx(c, p, read) ==
  IF read THEN CommitShm(c, p)
  ELSE Committed([c EXCEPT !.mem = Blank], "mixed", p)

\* The *CommitWaylandEGL functions.  made: the planes for which EGL made an image.
CommitWaylandEGL(c, format, p, made) ==
  LET bare   == DropImages(c, Planes)
      planes == CASE format = "rgba" -> made \cap {1} [] format = "y_uv" -> made [] OTHER -> {}
      wanted == CASE format = "rgba" -> {1} [] format = "y_uv" -> Planes [] OTHER -> {}
      count  == CASE format = "rgba" /\ planes # {} -> 1 [] format = "y_uv" -> 2
                  [] OTHER -> c.textureCount
      next   == [WithImages(bare, planes, p) EXCEPT !.textureCount = count, !.fromPixmap = FALSE]
  IN  IF wanted = {} THEN next ELSE Committed(next, IF planes = wanted THEN "egl" ELSE "mixed", p)

\* The *CommitSB functions.  got: there is a pixmap for the device buffer; same: it is the
\* one the surface had, whose image shows what is in it now; made: EGL made an image.
CommitSB(c, p, got, same, made) ==
  LET kept == c.nativePixmap /\ same
      bare == [(IF kept THEN c ELSE DropImages(c, {1})) EXCEPT !.nativePixmap = TRUE]
      seen == IF bare.fromPixmap
              THEN [bare EXCEPT !.eglImage[1] = p,
                                !.textureId[1] = IF @ = None THEN None ELSE p]
              ELSE bare
      next == IF bare.eglImage[1] # None THEN seen
              ELSE IF made THEN [WithImages(bare, {1}, p) EXCEPT !.fromPixmap = TRUE]
              ELSE bare
  IN  IF ~got THEN c ELSE Committed(next, IF next.eglImage[1] # None THEN "sb" ELSE "mixed", p)

\* UpdateScene draws a visible surface that has something to draw.
HasContent(c) == c.eglImage[1] # None \/ c.memDirty \/ c.textureId[1] # None

\* What plane i gets when the surface is drawn and its textures are due.
Source(c, i) ==
  IF c.eglImage[i] # None THEN c.eglImage[i]
  ELSE IF i = 1 /\ c.mem # None THEN c.mem
  ELSE IF c.textureId[i] = None THEN Blank
  ELSE c.textureId[i]

\* wstRendererGLRenderSurface: the textures of a surface that has none, or whose memory
\* was written, are made and filled; an image goes before the memory.
RenderSurface(c) ==
  IF c.textureId[1] # None /\ ~c.memDirty THEN c
  ELSE LET used == 1 .. c.textureCount IN
    [c EXCEPT !.textureId = [i \in Planes |-> IF i \in used THEN Source(c, i) ELSE @[i]],
              !.textures = @ + Cardinality({i \in used : c.textureId[i] = None}),
              !.memDirty = @ /\ (c.eglImage[1] # None \/ c.mem = None)]

\* Variant: only the planes in use are flushed.
FlushedInUse(c, left) ==
  [DropImages(DropTextures(c, 1 .. c.textureCount), 1 .. c.textureCount) EXCEPT
     !.nativePixmap = FALSE, !.mem = IF @ = None THEN None ELSE left, !.last = None]

\* The *FlushSurface functions; left: what becomes of surface->mem.
Flushed(c, left) ==
  [DropImages(DropTextures(c, Planes), Planes) EXCEPT
     !.nativePixmap = FALSE, !.mem = IF @ = None THEN None ELSE left, !.last = None]

\* The memory is freed again, written or read after it was freed.
Misuses(c) == c.mem = Freed

\* The textures and images that exist are those the handles name.
Accounted(c) ==
  /\ c.textures = Cardinality({i \in Planes : c.textureId[i] # None})
  /\ c.images = Cardinality({i \in Planes : c.eglImage[i] # None})

\* Every plane in use holds the last picture.
UpToDate(c) == \A i \in 1 .. c.textureCount : c.textureId[i] = c.last
=============================================================================

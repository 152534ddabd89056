------------------------------- MODULE GlRenderer -------------------------------
(***************************************************************************)
(* The renderer module westeros-render-gl.cpp.  Its calls come one at a    *)
(* time, on the compositor's thread: surfaces are made, filled by commits, *)
(* hidden, drawn and destroyed, and while the resolution changes there is  *)
(* neither a window nor a current GL context.  The order of the surfaces   *)
(* is that of module SceneOrder.                                           *)
(***************************************************************************)
EXTENDS SurfaceContent

CONSTANTS GlSurfaces

VARIABLES
  glBuild,      \* "rpi", or "images" where EGL makes images of buffers; never changes
  glUp,         \* wstRendererGLCreate has been called, and not wstRendererTerm
  eglSurface,   \* there is a surface to draw on
  glCurrent,    \* a GL context is current
  glSurfaces,   \* surfaces of the renderer, and their contents
  glVisible,    \* visible of each
  glLeft,       \* textures and images left behind by destroyed surfaces
  glBlind,      \* history: a texture was deleted with no context
  glBroken      \* freed memory was used

glVars == <<glBuild, glUp, eglSurface, glCurrent, glSurfaces, glVisible, glLeft, glBlind, glBroken>>

--------------------------------------------------------------------------------
GlLive == DOMAIN glSurfaces
GlRuns == glUp /\ ~glBroken

GlInit ==
  /\ glBuild \in {"rpi", "images"} /\ glUp = FALSE
  /\ eglSurface = FALSE /\ glCurrent = FALSE
  /\ glSurfaces = [s \in {} |-> NewContent] /\ glVisible = [s \in GlSurfaces |-> TRUE]
  /\ glLeft = 0 /\ glBlind = FALSE /\ glBroken = FALSE

\* wstRendererGLSetupEGL: a window with its surface and a context, a context only, or
\* neither.
SetupEGL(window, context) ==
  /\ eglSurface' = window
  /\ glCurrent' = context

\* wstRendererGLCreate, which does not look at what the set-up returned.
GlCreate ==
  /\ ~glUp /\ glSurfaces = <<>>
  /\ glUp' = TRUE
  /\ \E window, context \in BOOLEAN : (window => context) /\ SetupEGL(window, context)
  /\ UNCHANGED <<glBuild, glSurfaces, glVisible, glLeft, glBlind, glBroken>>

\* wstRendererTerm, after the compositor has destroyed the surfaces.  The context is not
\* destroyed and stays current.
GlTerm ==
  /\ GlRuns /\ GlLive = {}
  /\ glUp' = FALSE /\ eglSurface' = FALSE
  /\ UNCHANGED <<glBuild, glCurrent, glSurfaces, glVisible, glLeft, glBlind, glBroken>>

GlSurfaceCreate(s) ==
  /\ GlRuns /\ s \notin GlLive
  /\ glSurfaces' = [t \in GlLive \cup {s} |-> IF t = s THEN NewContent ELSE glSurfaces[t]]
  /\ glVisible' = [glVisible EXCEPT ![s] = TRUE]
  /\ UNCHANGED <<glBuild, glUp, eglSurface, glCurrent, glLeft, glBlind, glBroken>>

\* glDeleteTextures deletes nothing when no context is current.
DeletesBlindly(s, next) == ~glCurrent /\ next.textures < glSurfaces[s].textures

\* wstRendererGLFlushSurface: the memory is freed, and surface->mem keeps its address.
GlFlushSurface(s) == Flushed(glSurfaces[s], Freed)

GlSurfaceDestroy(s) ==
  /\ GlRuns /\ s \in GlLive
  /\ glLeft' = glLeft + GlFlushSurface(s).textures + GlFlushSurface(s).images
  /\ glBlind' = (glBlind \/ DeletesBlindly(s, GlFlushSurface(s)))
  /\ glBroken' = Misuses(glSurfaces[s])
  /\ glSurfaces' = [t \in GlLive \ {s} |-> glSurfaces[t]]
  /\ UNCHANGED <<glBuild, glUp, eglSurface, glCurrent, glVisible>>

\* What surface s may hold after a commit of picture p: by the kind of its buffer.
GlCommits(c, p) ==
  IF glBuild = "rpi"
  THEN {CommitShm(c, p)} \cup {CommitDispmanx(c, p, read) : read \in BOOLEAN}
  ELSE {CommitShm(c, p)}
       \cup {CommitWaylandEGL(c, f, p, made) : f \in Formats, made \in SUBSET Planes}
       \cup {CommitSB(c, p, got, same, made) : got, same, made \in BOOLEAN}

\* Only these two touch the memory of the surface.
GlMisuses(c, next) == Misuses(c) /\ next.mem # c.mem

\* wstRendererSurfaceCommit of a buffer; one of an unknown kind is ignored.
GlSurfaceCommit(s, p) ==
  /\ GlRuns /\ s \in GlLive
  /\ \E next \in GlCommits(glSurfaces[s], p) :
       /\ glSurfaces' = [glSurfaces EXCEPT ![s] = next]
       /\ glBlind' = (glBlind \/ DeletesBlindly(s, next))
       /\ glBroken' = GlMisuses(glSurfaces[s], next)
  /\ UNCHANGED <<glBuild, glUp, eglSurface, glCurrent, glVisible, glLeft>>

\* wstRendererSurfaceCommit of no buffer.
GlSurfaceCommitNull(s) ==
  /\ GlRuns /\ s \in GlLive
  /\ glSurfaces' = [glSurfaces EXCEPT ![s] = GlFlushSurface(s)]
  /\ glBlind' = (glBlind \/ DeletesBlindly(s, GlFlushSurface(s)))
  /\ glBroken' = Misuses(glSurfaces[s])
  /\ UNCHANGED <<glBuild, glUp, eglSurface, glCurrent, glVisible, glLeft>>

GlSetVisible(s, visible) ==
  /\ GlRuns /\ s \in GlLive
  /\ glVisible' = [glVisible EXCEPT ![s] = visible]
  /\ UNCHANGED <<glBuild, glUp, eglSurface, glCurrent, glSurfaces, glLeft, glBlind, glBroken>>

GlDrawn(s) == glVisible[s] /\ HasContent(glSurfaces[s])

\* Drawing s uploads from its memory.
Uploads(c) == (c.textureId[1] = None \/ c.memDirty) /\ c.eglImage[1] = None /\ c.mem # None

\* wstRendererUpdateScene
GlUpdateScene ==
  /\ GlRuns /\ eglSurface
  /\ glCurrent' = TRUE
  /\ glSurfaces' = [s \in GlLive |-> IF GlDrawn(s) THEN RenderSurface(glSurfaces[s]) ELSE glSurfaces[s]]
  /\ glBroken' = \E s \in GlLive : GlDrawn(s) /\ Misuses(glSurfaces[s]) /\ Uploads(glSurfaces[s])
  /\ UNCHANGED <<glBuild, glUp, eglSurface, glVisible, glLeft, glBlind>>

\* wstRendererResolutionChangeBegin
ResolutionChangeBegin ==
  /\ GlRuns
  /\ eglSurface' = FALSE /\ glCurrent' = FALSE
  /\ UNCHANGED <<glBuild, glUp, glSurfaces, glVisible, glLeft, glBlind, glBroken>>

\* wstRendererResolutionChangeEnd: the context becomes current with the next frame.
ResolutionChangeEnd ==
  /\ GlRuns
  /\ eglSurface' \in BOOLEAN
  /\ UNCHANGED <<glBuild, glUp, glCurrent, glSurfaces, glVisible, glLeft, glBlind, glBroken>>

GlNext ==
  \/ GlCreate \/ GlTerm \/ GlUpdateScene
  \/ ResolutionChangeBegin \/ ResolutionChangeEnd
  \/ \E s \in GlSurfaces :
       \/ GlSurfaceCreate(s)
       \/ GlSurfaceDestroy(s)
       \/ GlSurfaceCommitNull(s)
       \/ \E p \in Pictures : GlSurfaceCommit(s, p)
       \/ \E v \in BOOLEAN : GlSetVisible(s, v)

GlSpec == GlInit /\ [][GlNext]_glVars

--------------------------------------------------------------------------------
\* What is drawn is what was committed: as long as a client sends a surface buffers of one
\* kind and each commit succeeds, a surface whose textures are not due to be made again
\* holds its last picture in every plane, through null commits, changes of format
\* and of visibility, and changes of resolution.
GlShowsLatest ==
  GlRuns => \A s \in GlLive : LET c == glSurfaces[s] IN
    c.textureId[1] # None /\ ~c.memDirty /\ c.kind # "mixed" => UpToDate(c)

\* No texture and no image outlives its handle, nor a handle what it names: across
\* the changes from planes to pixmaps to memory, null commits and destruction.  A
\* renderer that used freed memory, or deleted textures without a context, is excused.
GlNothingLeft ==
  ~glBroken /\ ~glBlind => glLeft = 0 /\ \A s \in GlLive : Accounted(glSurfaces[s])

\* A surface of the GL renderer shows what it should and leaves nothing when it goes.
GlContentKept == GlShowsLatest /\ GlNothingLeft
=============================================================================

------------------------------ MODULE EmbRenderer -------------------------------
(***************************************************************************)
(* The renderer module westeros-render-embedded.cpp, which draws into the  *)
(* application's GL context: its frames come on the application's thread,  *)
(* everything else on the compositor's, one at a time under ctx->mutex.    *)
(* Textures are therefore not deleted where they are given up but with the *)
(* next frame.                                                             *)
(*                                                                         *)
(* A second renderer module may be loaded as the fast path.  While the     *)
(* application's hints allow it, the surfaces are handed to it: each gets  *)
(* a fast surface, and commits and frames go to that renderer.             *)
(***************************************************************************)
EXTENDS SurfaceContent, Sequences, SequencesExt

CONSTANTS
  EmbSurfaces,
  ZLevels, ZDefault, ZCursor       \* z-orders; ZCursor stands for 1000000.0

ASSUME ZAssumption ==
  /\ ZLevels \subseteq Nat /\ {ZDefault, ZCursor} \subseteq ZLevels
  /\ \A z \in ZLevels : z <= ZCursor

VARIABLES
  embFollows,       \* what of the renderer is followed: the contents of one surface, by
                    \* the buffers of the build, or the order of several; never changes
  embUp,            \* wstRendererEMBCreate has succeeded, and wstRendererTerm not been called
  rendererFast,     \* the module of the fast path is loaded
  embList,          \* surfaces, from the bottom
  embZ, embVisible, \* zorder and visible of each
  embSurface,       \* content of each
  deadTextures,     \* there are textures to delete
  fastHint,         \* the application's last hint
  fast,             \* the fast path: whether it is active, the surfaces that have a
                    \* surface of rendererFast, in its order, the visibility of those, and
                    \* as history whether rendererFast could not create one
  embLeft,          \* textures and images left behind by destroyed surfaces
  embBroken         \* a commit went to a fast surface that there is not

embVars == <<embFollows, embUp, rendererFast, embList, embZ, embVisible, embSurface,
             deadTextures, fastHint, fast, embLeft, embBroken>>

--------------------------------------------------------------------------------
EmbRuns == embUp /\ ~embBroken
Listed == Range(embList)
NoFastPath ==
  [active |-> FALSE, list |-> <<>>, visible |-> [s \in EmbSurfaces |-> TRUE], failed |-> FALSE]
SurfaceFast == Range(fast.list)                                   \* surfaces with surfaceFast

EmbInit ==
  /\ embFollows \in {"dispmanx", "images", "order"}
  /\ embUp = FALSE /\ rendererFast = FALSE /\ embList = <<>>
  /\ embZ = [s \in EmbSurfaces |-> ZDefault] /\ embVisible = [s \in EmbSurfaces |-> TRUE]
  /\ embSurface = [s \in EmbSurfaces |-> NewContent] /\ deadTextures = FALSE
  /\ fastHint = FALSE /\ fast = NoFastPath
  /\ embLeft = 0 /\ embBroken = FALSE

\* wstRendererInitFastPath: the module named by WESTEROS_FAST_RENDER, if it can be used.
InitFastPath == rendererFast' \in BOOLEAN

\* wstRendererEMBCreate
EmbCreate ==
  /\ ~embUp /\ embList = <<>>
  /\ embUp' = TRUE
  /\ InitFastPath
  /\ UNCHANGED <<embFollows, embList, embZ, embVisible, embSurface, deadTextures, fastHint,
                 fast, embLeft, embBroken>>

\* wstRendererEMBDestroy, after the compositor has destroyed the surfaces.
EmbTerm ==
  /\ EmbRuns /\ embList = <<>>
  /\ embUp' = FALSE /\ rendererFast' = FALSE
  /\ deadTextures' = FALSE /\ fastHint' = FALSE
  /\ fast' = [fast EXCEPT !.active = FALSE, !.failed = FALSE]
  /\ UNCHANGED <<embFollows, embList, embZ, embVisible, embSurface, embLeft, embBroken>>

\* Into a list, above those that are not higher.
Into(list, s, z) ==
  LET rest == RemoveFirst(list, s)
      i    == SelectInSeq(rest, LAMBDA t : z[s] < z[t])
  IN  IF i = 0 THEN Append(rest, s) ELSE InsertAt(rest, i, s)

\* Those of a list that are in kept.
Only(list, kept) ==
  LET upTo[n \in 0 .. Len(list)] ==
        IF n = 0 THEN << >>
        ELSE IF list[n] \in kept THEN Append(upTo[n - 1], list[n]) ELSE upTo[n - 1]
  IN  upTo[Len(list)]

--------------------------------------------------------------------------------
(* The fast path.  A switch takes the path, the contents of the surfaces and whether there
   are textures to delete from one value to another: a scene is the three together. *)

\* Variant: the planes that are not in use are not flushed.
EmbFlushInUse(c) == FlushedInUse(c, None)

\* wstRendererEMBFlushSurface
EmbFlush(c) == Flushed(c, None)

\* wstRendererDeleteTexture: what a change gives up waits for the next frame.
Dead(dead, old, new) == dead \/ new.textures < old.textures

\* Variant: the z-orders are not handed on.
FastCreatedUnordered(list, made) == list \o made

\* The fast surfaces of made, one after the other, each at its surface's level.
FastCreated(list, made) ==
  LET upTo[n \in 0 .. Len(made)] == IF n = 0 THEN list ELSE Into(upTo[n - 1], made[n], embZ)
  IN  upTo[Len(made)]

Lacking(path) == Only(embList, EmbSurfaces \ Range(path.list))

\* wstRendererActivateFastPath: a fast surface for each surface that has none, until the
\* one after the n-th cannot be created; when all have one, what they hold is discarded.
ActivateFastPath(scene, n) ==
  LET made == SubSeq(Lacking(scene.path), 1, n)
      all  == n = Len(Lacking(scene.path))
  IN  [path |-> [active  |-> all,
                 list    |-> FastCreated(scene.path.list, made),
                 visible |-> [s \in EmbSurfaces |-> s \in Range(made) \/ scene.path.visible[s]],
                 failed  |-> scene.path.failed \/ ~all],
       content |-> IF all THEN [s \in EmbSurfaces |-> EmbFlush(scene.content[s])] ELSE scene.content,
       dead |-> scene.dead \/ (all /\ \E s \in Listed : scene.content[s].textures > 0)]

\* wstRendererDeactivateFastPath: the fast surface of a cursor stays.
Deactivated(path) ==
  [path EXCEPT !.list = Only(@, {s \in EmbSurfaces : embZ[s] = ZCursor}),
               !.visible = [s \in EmbSurfaces |-> embZ[s] = ZCursor => @[s]]]

\* The switch at the start of a commit and of a frame.
Switched(scene, hint) ==
  IF hint /\ rendererFast /\ ~scene.path.active
  THEN {ActivateFastPath(scene, n) : n \in 0 .. Len(Lacking(scene.path))}
  ELSE IF ~hint /\ scene.path.active
  THEN {[scene EXCEPT !.path = [Deactivated(@) EXCEPT !.active = FALSE]]}
  ELSE {scene}

Scene(dead) == [path |-> fast, content |-> embSurface, dead |-> dead]

--------------------------------------------------------------------------------
(* The handlers. *)

\* wstRendererSurfaceCreate.  When the fast surface cannot be created the others are
\* discarded, and the path stays active.
EmbSurfaceCreate(s) ==
  /\ EmbRuns /\ s \notin Listed
  /\ embFollows # "order" => embList = <<>>
  /\ embZ' = [embZ EXCEPT ![s] = ZDefault] /\ embVisible' = [embVisible EXCEPT ![s] = TRUE]
  /\ embList' = Into(embList, s, embZ') /\ embSurface' = [embSurface EXCEPT ![s] = NewContent]
  /\ fast' \in IF fast.active
              THEN {[fast EXCEPT !.list = Into(@, s, embZ'), !.visible[s] = TRUE],
                    [Deactivated(fast) EXCEPT !.failed = TRUE]}
              ELSE {fast}
  /\ UNCHANGED <<embFollows, embUp, rendererFast, deadTextures, fastHint, embLeft, embBroken>>

\* wstRendererSurfaceDestroy
EmbSurfaceDestroy(s) ==
  /\ EmbRuns /\ s \in Listed
  /\ LET next == EmbFlush(embSurface[s]) IN
       /\ embLeft' = embLeft + next.textures + next.images
       /\ deadTextures' = Dead(deadTextures, embSurface[s], next)
  /\ embList' = RemoveFirst(embList, s)
  /\ fast' = [fast EXCEPT !.list = RemoveFirst(@, s), !.visible[s] = TRUE]
  /\ embSurface' = [embSurface EXCEPT ![s] = NewContent]
  /\ embZ' = [embZ EXCEPT ![s] = ZDefault] /\ embVisible' = [embVisible EXCEPT ![s] = TRUE]
  /\ UNCHANGED <<embFollows, embUp, rendererFast, fastHint, embBroken>>

\* The *Commit* functions of this renderer, by the kind of the buffer.
EmbCommitShm(c, p) == {CommitShm(c, p)}
EmbCommitDispmanx(c, p) == {CommitDispmanx(c, p, read) : read \in BOOLEAN}
EmbCommitWaylandEGL(c, p) ==
  {CommitWaylandEGL(c, f, p, made) : f \in Formats, made \in SUBSET Planes}
EmbCommitSB(c, p) == {CommitSB(c, p, got, same, made) : got, same, made \in BOOLEAN}

EmbCommits(c, p) ==
  CASE embFollows = "order" -> {c}
    [] embFollows = "dispmanx" -> EmbCommitShm(c, p) \cup EmbCommitDispmanx(c, p)
    [] embFollows = "images" -> EmbCommitShm(c, p) \cup EmbCommitWaylandEGL(c, p) \cup EmbCommitSB(c, p)

\* wstRendererSurfaceCommit of picture p, or of no buffer: while the path is active, after
\* the switch, the commit goes to the fast surface.
EmbSurfaceCommit(s, p) ==
  /\ EmbRuns /\ s \in Listed
  /\ \E scene \in Switched(Scene(deadTextures), fastHint) :
     \E next \in (IF scene.path.active THEN {scene.content[s]}
                   ELSE IF p = None THEN {EmbFlush(scene.content[s])}
                   ELSE EmbCommits(scene.content[s], p)) :
       /\ fast' = scene.path
       /\ embSurface' = [scene.content EXCEPT ![s] = next]
       /\ deadTextures' = Dead(scene.dead, scene.content[s], next)
       /\ embBroken' = (scene.path.active /\ s \notin Range(scene.path.list))
  /\ UNCHANGED <<embFollows, embUp, rendererFast, embList, embZ, embVisible, fastHint, embLeft>>

\* wstRendererEMBRenderSurface of all that is drawn.
Rendered(content) ==
  [s \in EmbSurfaces |->
     IF s \in Listed /\ embVisible[s] /\ HasContent(content[s])
     THEN RenderSurface(content[s]) ELSE content[s]]

\* wstRendererUpdateScene, on the application's thread and with its hint: what is dead is
\* deleted, and the frame is the fast renderer's while the path is active.
EmbUpdateScene(hint) ==
  /\ EmbRuns
  /\ fastHint' = hint
  /\ \E scene \in Switched(Scene(FALSE), hint) :
       /\ fast' = scene.path
       /\ deadTextures' = scene.dead
       /\ embSurface' = IF scene.path.active THEN scene.content ELSE Rendered(scene.content)
  /\ UNCHANGED <<embFollows, embUp, rendererFast, embList, embZ, embVisible, embLeft, embBroken>>

EmbSetVisible(s, visible) ==
  /\ EmbRuns /\ s \in Listed
  /\ embVisible' = [embVisible EXCEPT ![s] = visible]
  /\ fast' = [fast EXCEPT !.visible[s] = IF s \in SurfaceFast THEN visible ELSE @]
  /\ UNCHANGED <<embFollows, embUp, rendererFast, embList, embZ, embSurface, deadTextures,
                 fastHint, embLeft, embBroken>>

\* wstRendererSurfaceGetVisible asks the fast surface, and believes it.
EmbGetVisible(s) ==
  /\ EmbRuns /\ s \in SurfaceFast
  /\ embVisible' = [embVisible EXCEPT ![s] = fast.visible[s]]
  /\ UNCHANGED <<embFollows, embUp, rendererFast, embList, embZ, embSurface, deadTextures,
                 fastHint, fast, embLeft, embBroken>>

EmbSetZOrder(s, z) ==
  /\ EmbRuns /\ s \in Listed /\ embFollows = "order"
  /\ embZ' = [embZ EXCEPT ![s] = z]
  /\ embList' = Into(embList, s, embZ')
  /\ fast' = [fast EXCEPT !.list = IF s \in SurfaceFast THEN Into(@, s, embZ') ELSE @]
  /\ UNCHANGED <<embFollows, embUp, rendererFast, embVisible, embSurface, deadTextures,
                 fastHint, embLeft, embBroken>>

EmbNext ==
  \/ EmbCreate \/ EmbTerm
  \/ \E hint \in BOOLEAN : EmbUpdateScene(hint)
  \/ \E s \in EmbSurfaces :
       \/ EmbSurfaceCreate(s)
       \/ EmbSurfaceDestroy(s)
       \/ \E p \in Pictures \cup {None} : EmbSurfaceCommit(s, p)
       \/ \E v \in BOOLEAN : EmbSetVisible(s, v)
       \/ EmbGetVisible(s)
       \/ \E z \in ZLevels : EmbSetZOrder(s, z)

EmbSpec == EmbInit /\ [][EmbNext]_embVars

--------------------------------------------------------------------------------
\* The fast renderer's scene is the compositor's: through any number of switches, on
\* either thread, restackings and destructions, its surfaces are those of surfaces that
\* exist, each once, a higher surface above a lower one; and while the path is active no
\* surface lacks one, so that no commit goes to a surface that is not there, unless the
\* module has failed to create a surface.
FastPathMirrors ==
  /\ IsInjective(fast.list) /\ SurfaceFast \subseteq Listed
  /\ \A i, j \in DOMAIN fast.list : embZ[fast.list[i]] < embZ[fast.list[j]] => i < j
  /\ fast.active /\ ~fast.failed => Listed \subseteq SurfaceFast /\ ~embBroken

\* No texture and no image is left behind by the surfaces of the embedded renderer, also
\* when the path discards what they hold; and what is drawn is what was committed last,
\* where a surface gets buffers of one kind only.
EmbContentKept ==
  /\ embLeft = 0
  /\ \A s \in Listed : LET c == embSurface[s] IN
       /\ Accounted(c)
       /\ c.textureId[1] # None /\ ~c.memDirty /\ c.kind # "mixed" => UpToDate(c)
=============================================================================

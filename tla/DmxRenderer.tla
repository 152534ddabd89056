------------------------------ MODULE DmxRenderer -------------------------------
(***************************************************************************)
(* The renderer module westeros-render-dispmanx.cpp of the Raspberry Pi.   *)
(* Nothing is drawn: the display has an element for each surface, which    *)
(* shows a resource.  A surface has two resources, of which the front one  *)
(* is shown; a commit fills the back one, and the next frame flips them.   *)
(* The resource of an shm buffer is the renderer's own, that of another    *)
(* buffer is its client's.                                                 *)
(*                                                                         *)
(* A frame is an update of the display.  It completes later, on a thread   *)
(* of the display's, and until then there are no other frames.             *)
(***************************************************************************)
EXTENDS Naturals, FiniteSets

CONSTANTS
  DmxSurfaces, Images,
  Nothing           \* DISPMANX_NO_HANDLE, and the picture of a surface that has none

ASSUME NothingAssumption == Nothing \notin Images

VARIABLES
  dmxUp,            \* wstRendererDMXCreate has been called, and not wstRendererTerm
  dmxSurfaces,      \* surfaces, and what each keeps
  updateInProgress,
  dmxLeft           \* resources and elements left behind by destroyed surfaces

dmxVars == <<dmxUp, dmxSurfaces, updateInProgress, dmxLeft>>

--------------------------------------------------------------------------------
Buffers2 == 0 .. 1                                               \* NUM_BUFFERS
NoResource == [resource |-> Nothing, owned |-> FALSE]

\* wstRenderDMXCreateSurface.  resources and elements count those that exist on the
\* surface's behalf; as history last is the last picture, and dropped says that it was
\* not taken away as it should: a client's resource has survived a flush, or a commit has
\* failed, and none has succeeded since.
NewDmxSurface ==
  [buffer |-> [i \in Buffers2 |-> NoResource], front |-> 0, flip |-> FALSE, dirty |-> FALSE,
   visible |-> TRUE, element |-> FALSE, resources |-> 0, elements |-> 0,
   last |-> Nothing, dropped |-> FALSE]

Back(d) == (d.front + 1) % 2
DmxLive == DOMAIN dmxSurfaces

DmxInit ==
  /\ dmxUp = FALSE /\ dmxSurfaces = [s \in {} |-> NewDmxSurface]
  /\ updateInProgress = FALSE /\ dmxLeft = 0

DmxCreate ==
  /\ ~dmxUp
  /\ dmxUp' = TRUE /\ updateInProgress' = FALSE
  /\ UNCHANGED <<dmxSurfaces, dmxLeft>>

\* wstRendererTerm, after the surfaces are destroyed and the display is quiet.
DmxTerm ==
  /\ dmxUp /\ DmxLive = {} /\ ~updateInProgress
  /\ dmxUp' = FALSE
  /\ UNCHANGED <<dmxSurfaces, updateInProgress, dmxLeft>>

DmxSurfaceCreate(s) ==
  /\ dmxUp /\ s \notin DmxLive
  /\ dmxSurfaces' = [t \in DmxLive \cup {s} |-> IF t = s THEN NewDmxSurface ELSE dmxSurfaces[t]]
  /\ UNCHANGED <<dmxUp, updateInProgress, dmxLeft>>

Owned(d, i) == d.buffer[i].owned /\ d.buffer[i].resource # Nothing

\* Delete the resources of the given slots that are the renderer's, and forget them.
DropOwned(d, slots) ==
  LET mine == {i \in slots : Owned(d, i)} IN
    [d EXCEPT !.buffer = [i \in Buffers2 |-> IF i \in mine THEN [@[i] EXCEPT !.resource = Nothing] ELSE @[i]],
              !.resources = @ - Cardinality(mine)]

\* vc_dispmanx_element_remove
DropElement(d) == [d EXCEPT !.element = FALSE, !.elements = IF d.element THEN @ - 1 ELSE @]

\* wstRendererDMXFlushSurface: what belongs to a client stays in its slot.  An update of
\* the display can always be started.
DmxFlush(d) ==
  [DropElement(DropOwned(d, Buffers2)) EXCEPT
     !.last = Nothing, !.dropped = @ \/ \E i \in Buffers2 : ~Owned(d, i) /\ d.buffer[i].resource # Nothing]

DmxSurfaceDestroy(s) ==
  /\ dmxUp /\ s \in DmxLive
  /\ LET d == DmxFlush(dmxSurfaces[s]) IN dmxLeft' = dmxLeft + d.resources + d.elements
  /\ dmxSurfaces' = [t \in DmxLive \ {s} |-> dmxSurfaces[t]]
  /\ UNCHANGED <<dmxUp, updateInProgress>>

\* wstRendererDMXCommitShm: into the back resource, which is kept if it is the renderer's
\* and fits, and made anew otherwise.  resized: the surface's last buffer had another size.
DmxCommitShm(d, p, resized, fits, made) ==
  LET b    == Back(d)
      kept == Owned(d, b) /\ fits
      bare == IF kept THEN d ELSE DropOwned(d, {b})
      new  == [bare EXCEPT !.buffer[b] = [resource |-> IF kept \/ made THEN p ELSE Nothing, owned |-> TRUE],
                           !.resources = IF ~kept /\ made THEN @ + 1 ELSE @,
                           !.dirty = @ \/ resized]
  IN  IF kept \/ made THEN [new EXCEPT !.flip = TRUE, !.last = p, !.dropped = FALSE]
      ELSE [new EXCEPT !.dropped = TRUE]

\* wstRendererDMXCommitSB
DmxCommitClient(d, p, resized) ==
  [DropOwned(d, {Back(d)}) EXCEPT !.buffer[Back(d)] = [resource |-> p, owned |-> FALSE],
                                  !.dirty = @ \/ resized, !.flip = TRUE, !.last = p,
                                  !.dropped = FALSE]

\* wstRendererDMXCommitWaylandEGL: the buffer may have no resource.
DmxCommitWaylandEGL(d, p, resized) ==
  {DmxCommitClient(d, p, resized), DmxCommitClient(d, Nothing, resized)}

\* wstRendererSurfaceCommit of a buffer of picture p.
DmxSurfaceCommit(s, p) ==
  /\ dmxUp /\ s \in DmxLive
  /\ \E resized, fits, made \in BOOLEAN :
     \E next \in {DmxCommitShm(dmxSurfaces[s], p, resized, fits, made),
                  DmxCommitClient(dmxSurfaces[s], p, resized)}
                 \cup DmxCommitWaylandEGL(dmxSurfaces[s], p, resized) :
       dmxSurfaces' = [dmxSurfaces EXCEPT ![s] = next]
  /\ UNCHANGED <<dmxUp, updateInProgress, dmxLeft>>

\* wstRendererSurfaceCommit of no buffer.
DmxSurfaceCommitNull(s) ==
  /\ dmxUp /\ s \in DmxLive
  /\ dmxSurfaces' = [dmxSurfaces EXCEPT ![s] = DmxFlush(@)]
  /\ UNCHANGED <<dmxUp, updateInProgress, dmxLeft>>

DmxSetVisible(s, v) ==
  /\ dmxUp /\ s \in DmxLive
  /\ dmxSurfaces' = [dmxSurfaces EXCEPT ![s].visible = v]
  /\ UNCHANGED <<dmxUp, updateInProgress, dmxLeft>>

\* wstRendererSurfaceSetGeometry, SetOpacity and SetZOrder: the element is to be made anew.
DmxSetDirty(s) ==
  /\ dmxUp /\ s \in DmxLive
  /\ dmxSurfaces' = [dmxSurfaces EXCEPT ![s].dirty = TRUE]
  /\ UNCHANGED <<dmxUp, updateInProgress, dmxLeft>>

--------------------------------------------------------------------------------
\* Variant: the buffers are not exchanged.
FlippedInPlace(d) == [d EXCEPT !.flip = FALSE]

\* A commit since the last frame brings the back resource to the front.
Flipped(d) == IF d.flip THEN [d EXCEPT !.flip = FALSE, !.front = Back(d)] ELSE d

\* The front resource of a visible surface is shown, by the element there is or by a new
\* one; there is none for a surface outside of the output, and one may not be had.
Shown(d, added) ==
  LET clean == IF d.dirty THEN [DropElement(d) EXCEPT !.dirty = FALSE] ELSE d
  IN  IF d.buffer[d.front].resource = Nothing \/ ~d.visible THEN DropElement(d)
      ELSE IF clean.element \/ ~added THEN clean
      ELSE [clean EXCEPT !.element = TRUE, !.elements = @ + 1]

\* wstRendererUpdateSceneXform: nothing while an update is in progress.
DmxUpdateScene ==
  /\ dmxUp /\ ~updateInProgress
  /\ updateInProgress' = TRUE
  /\ \E added \in SUBSET DmxLive :
       dmxSurfaces' = [s \in DmxLive |-> Shown(Flipped(dmxSurfaces[s]), s \in added)]
  /\ UNCHANGED <<dmxUp, dmxLeft>>

\* wstRendererUpdateComplete
UpdateComplete ==
  /\ updateInProgress
  /\ updateInProgress' = FALSE
  /\ UNCHANGED <<dmxUp, dmxSurfaces, dmxLeft>>

DmxNext ==
  \/ DmxCreate \/ DmxTerm \/ DmxUpdateScene \/ UpdateComplete
  \/ \E s \in DmxSurfaces :
       \/ DmxSurfaceCreate(s)
       \/ DmxSurfaceDestroy(s)
       \/ DmxSurfaceCommitNull(s)
       \/ DmxSetDirty(s)
       \/ \E v \in BOOLEAN : DmxSetVisible(s, v)
       \/ \E p \in Images : DmxSurfaceCommit(s, p)

DmxSpec == DmxInit /\ [][DmxNext]_dmxVars

--------------------------------------------------------------------------------
\* Resources and elements are the display's and outlive whoever forgets them: those that
\* exist are those the surfaces name, over all changes between the renderer's and the
\* client's resources, of size, visibility and position, and none is left by a surface.
DmxNothingLeft ==
  /\ dmxLeft = 0
  /\ \A s \in DmxLive : LET d == dmxSurfaces[s] IN
       /\ d.resources = Cardinality({i \in Buffers2 : Owned(d, i)})
       /\ d.elements = IF d.element THEN 1 ELSE 0

\* A surface shows the last picture, and none after a null commit, at the latest with the
\* next frame: several commits in one frame, and frames that are skipped, leave neither an
\* older picture in front nor the new one behind.  A surface is excused from a null commit
\* that leaves a client's resource, or a commit that fails, until the next one.
DmxShowsLatest ==
  \A s \in DmxLive : LET d == dmxSurfaces[s] IN
    ~d.dropped => d.buffer[IF d.flip THEN Back(d) ELSE d.front].resource = d.last

\* A surface of the dispmanx renderer shows what it should and leaves nothing when it goes.
DmxContentKept == DmxShowsLatest /\ DmxNothingLeft
=============================================================================

------------------------------- MODULE VideoPath -------------------------------
(***************************************************************************)
(* Video path control (wl_vpc) of a compositor that renders itself         *)
(* (westeros-compositor.cpp).                                              *)
(*                                                                         *)
(* A surface with a wl_vpc_surface shows video on a hardware plane under   *)
(* the graphics, or, while the embedding application rotates or animates   *)
(* the scene, as graphics of its own.  Composing a frame asks the client   *)
(* to change path; the change is done by the client's next commit of the   *)
(* new kind: a buffer for graphics, none for hardware.  Until then the old *)
(* path stays, so that the picture is never lost.  Geometry is left out.   *)
(*                                                                         *)
(* Composing runs on the embedder's thread and the requests on the         *)
(* compositor's, each under the mutex.                                     *)
(***************************************************************************)

EXTENDS SurfaceIds

CONSTANT VideoIds   \* ids of the surfaces that may get a wl_vpc_surface

ASSUME VideoAssumption == VideoIds \subseteq Ids

VARIABLES
  vpc,         \* WstVpcSurface of each surface, and the last path its client was told
  visible,     \* visible of the renderer's surface
  overridden   \* the simple shell has changed visible since the path last changed

videoVars == <<vpc, visible, overridden>>

NoVpc == [there |-> FALSE, useHWPath |-> FALSE, useHWPathNext |-> FALSE,
          pathTransitionPending |-> FALSE, toldHW |-> FALSE]
NewVpc == [there |-> TRUE, useHWPath |-> TRUE, useHWPathNext |-> TRUE,
           pathTransitionPending |-> FALSE, toldHW |-> TRUE]

--------------------------------------------------------------------------------
\* wstIVpcGetVpcSurface: video starts on the hardware plane, the surface is hidden.
GetVpcSurface(s) ==
  /\ ~vpc[s].there
  /\ vpc' = [vpc EXCEPT ![s] = NewVpc]
  /\ visible' = [visible EXCEPT ![s] = FALSE]
  /\ overridden' = [overridden EXCEPT ![s] = FALSE]

\* wstVpcSurfaceDestroy: the surface keeps the visibility the path gave it.
DestroyVpcSurface(s) ==
  /\ vpc[s].there
  /\ vpc' = [vpc EXCEPT ![s] = NoVpc]
  /\ UNCHANGED <<visible, overridden>>

\* The part of wstSurfaceDestroy, and of the surface that gets the memory next.
VideoSurfaceGone(s) ==
  /\ vpc' = [vpc EXCEPT ![s] = NoVpc]
  /\ visible' = [visible EXCEPT ![s] = TRUE]
  /\ overridden' = [overridden EXCEPT ![s] = FALSE]

\* Variant: the client is asked only once per transition.
UpdateVideoPathOnce(useHWPath) ==
  /\ vpc' = [s \in VideoIds |->
       IF vpc[s].there /\ ~vpc[s].pathTransitionPending /\ vpc[s].useHWPath # useHWPath
       THEN [vpc[s] EXCEPT !.useHWPathNext = useHWPath, !.pathTransitionPending = TRUE]
       ELSE vpc[s]]
  /\ UNCHANGED <<visible, overridden>>

\* wstUpdateVPCSurfaces, with what the hints of this frame ask for: every surface on
\* the other path is asked to change, in every frame until it has.
UpdateVideoPath(useHWPath) ==
  /\ vpc' = [s \in VideoIds |->
       IF vpc[s].there /\ vpc[s].useHWPath # useHWPath
       THEN [vpc[s] EXCEPT !.useHWPathNext = useHWPath, !.pathTransitionPending = TRUE,
                           !.toldHW = useHWPath]
       ELSE vpc[s]]
  /\ UNCHANGED <<visible, overridden>>

\* The part of wstISurfaceCommit about the path; a buffer is committed, or none.
CommitVideo(s, hasBuffer) ==
  IF vpc[s].pathTransitionPending /\ hasBuffer # vpc[s].useHWPathNext
  THEN /\ vpc' = [vpc EXCEPT ![s].useHWPath = vpc[s].useHWPathNext,
                             ![s].pathTransitionPending = FALSE]
       /\ visible' = [visible EXCEPT ![s] = ~vpc[s].useHWPathNext]
       /\ overridden' = [overridden EXCEPT ![s] = FALSE]
  ELSE UNCHANGED videoVars

\* simpleShellSetVisible does not look for a wl_vpc_surface.
SetVideoVisible(s, v) ==
  /\ visible' = [visible EXCEPT ![s] = v]
  /\ overridden' = [overridden EXCEPT ![s] = TRUE]
  /\ UNCHANGED vpc

VideoInit ==
  /\ vpc = [s \in VideoIds |-> NoVpc]
  /\ visible = [s \in VideoIds |-> TRUE]
  /\ overridden = [s \in VideoIds |-> FALSE]

--------------------------------------------------------------------------------
VideoTypeOK ==
  /\ vpc \in [VideoIds -> [there : BOOLEAN, useHWPath : BOOLEAN, useHWPathNext : BOOLEAN,
                           pathTransitionPending : BOOLEAN, toldHW : BOOLEAN]]
  /\ visible \in [VideoIds -> BOOLEAN]
  /\ overridden \in [VideoIds -> BOOLEAN]

\* The client is never left on the wrong path: the last path it was told is the one it
\* is on, or the one its next commit of that kind completes, however often the
\* embedder changes its mind in between; and, unless the simple shell interfered, its
\* surface is drawn exactly when its video is not on the hardware plane.
PathHandshake ==
  \A s \in VideoIds :
    vpc[s].there =>
      /\ vpc[s].toldHW = (IF vpc[s].pathTransitionPending THEN vpc[s].useHWPathNext
                          ELSE vpc[s].useHWPath)
      /\ vpc[s].pathTransitionPending => vpc[s].useHWPathNext # vpc[s].useHWPath
      /\ ~overridden[s] => visible[s] = ~vpc[s].useHWPath
================================================================================

--------------------------------- MODULE Scene ---------------------------------
(***************************************************************************)
(* The scene of a compositor that renders itself: the surfaces of all      *)
(* clients with their announcements (SimpleShell), their order             *)
(* (SceneOrder) and the path of their video (VideoPath).                   *)
(*                                                                         *)
(* Requests run on the compositor thread.  With an embedder, composing a   *)
(* frame runs on its thread under the mutex; the requests of the simple    *)
(* shell do not take the mutex, but are modelled as if each were atomic.   *)
(*                                                                         *)
(* No handler reads both the order and the path of a surface: to keep the  *)
(* instances small, the clients of one run restack and set cursors, or     *)
(* show video, as clients says.                                            *)
(***************************************************************************)
EXTENDS SimpleShell, SceneOrder, VideoPath

VARIABLE clients   \* what the clients of this run do: "stack" surfaces or show "video"

vars == <<shellVars, orderVars, videoVars, clients>>

--------------------------------------------------------------------------------
\* wstICompositorCreateSurface by the client of shell o, bound or not.
CreateSurface(s, o) ==
  /\ SurfaceCreated(s, o)
  /\ SceneCreate(s)
  /\ UNCHANGED videoVars

\* wstDestroySurfaceCallback
DestroySurface(s) ==
  /\ SurfaceDestroyed(s)
  /\ SceneRemove(s)
  /\ IF s \in VideoIds THEN VideoSurfaceGone(s) ELSE UNCHANGED videoVars

\* Requests of the simple shell about a surface that may be gone.
SetNameRequest(s, o) == SetName(s, o) /\ UNCHANGED <<orderVars, videoVars>>

\* Place, size and opacity are left out.
SetGeometryRequest(s, o) == Changed(s, o) /\ UNCHANGED <<orderVars, videoVars>>
SetOpacityRequest(s, o) == Changed(s, o) /\ UNCHANGED <<orderVars, videoVars>>

SetVisibleRequest(s, o) ==
  /\ clients = "video"
  /\ Changed(s, o)
  /\ IF s \in ids \cap VideoIds THEN \E v \in BOOLEAN : SetVideoVisible(s, v)
     ELSE UNCHANGED videoVars
  /\ UNCHANGED orderVars

SetZOrderRequest(s, o) ==
  /\ Changed(s, o)
  /\ clients = "stack"
  /\ IF s \in ids THEN \E z \in Levels : SetZOrder(s, z) ELSE UNCHANGED orderVars
  /\ UNCHANGED videoVars

\* wl_pointer.set_cursor with a surface that shows no video.
SetCursor(s) ==
  /\ clients = "stack" /\ s \in ids \ VideoIds
  /\ SetCursorSurface(s)
  /\ UNCHANGED <<shellVars, videoVars>>

GetVpc(s) == clients = "video" /\ s \in ids /\ GetVpcSurface(s) /\ UNCHANGED <<shellVars, orderVars>>
DestroyVpc(s) == DestroyVpcSurface(s) /\ UNCHANGED <<shellVars, orderVars>>

Commit(s) ==
  /\ vpc[s].there
  /\ \E hasBuffer \in BOOLEAN : CommitVideo(s, hasBuffer)
  /\ UNCHANGED <<shellVars, orderVars>>

\* WstCompositorComposeEmbedded: hardware when the hints say that the scene is neither
\* rotated nor animated.
Compose ==
  /\ \E useHWPath \in BOOLEAN : UpdateVideoPath(useHWPath)
  /\ UNCHANGED <<shellVars, orderVars>>

ShellTimeOut == TimeOut /\ UNCHANGED <<orderVars, videoVars>>
BindShell(o) == Bind(o) /\ UNCHANGED <<orderVars, videoVars>>
UnbindShell(o) == Unbind(o) /\ UNCHANGED <<orderVars, videoVars>>

Init == ShellInit /\ OrderInit /\ VideoInit /\ clients \in {"stack", "video"}

Next ==
  /\ UNCHANGED clients
  /\ \/ \E s \in Ids :
          \/ DestroySurface(s)
          \/ SetCursor(s)
          \/ \E o \in Shells :
               \/ CreateSurface(s, o)
               \/ SetNameRequest(s, o)
               \/ SetGeometryRequest(s, o) \/ SetOpacityRequest(s, o)
               \/ SetVisibleRequest(s, o)
               \/ SetZOrderRequest(s, o)
     \/ \E s \in VideoIds : GetVpc(s) \/ DestroyVpc(s) \/ Commit(s)
     \/ \E o \in Shells : BindShell(o) \/ UnbindShell(o)
     \/ Compose \/ ShellTimeOut

Spec == Init /\ [][Next]_vars
================================================================================

----------------------------- MODULE PointerFocus ------------------------------
(***************************************************************************)
(* Pointer focus and cursor of the Westeros compositor                     *)
(* (westeros-compositor.cpp).                                              *)
(*                                                                         *)
(* Like a keyboard, a wl_pointer is in one of two lists of WstPointer:     *)
(* focusResourceList, whose members receive motion and buttons, and        *)
(* resourceList.  Unlike the keyboard's, the focus follows geometry: the   *)
(* top-most surface under the pointer gets it, whenever the pointer moves, *)
(* a pointer is created, or a surface is destroyed.  The cursor image is a *)
(* surface of some client.  A forked process, the default cursor client,   *)
(* may own the cursor for the whole compositor.                            *)
(*                                                                         *)
(* Geometry and z-order are left out: any set of surfaces may be under the *)
(* pointer when the code looks.  All actions run on the compositor thread, *)
(* except WstCompositorSetDefaultCursor, which destroys a client from the  *)
(* caller's thread and is modelled as if it ran there too.                 *)
(***************************************************************************)
EXTENDS FiniteSets

CONSTANTS
  Clients,     \* wl_client
  Surfaces,    \* WstSurface slots
  Pointers,    \* wl_pointer resource slots
  Slots,       \* entries of ctx->eventQueue
  None,
  Freed        \* a pointer to a client that is no more

ASSUME PointerAssumption ==
  /\ None \notin Clients \cup Surfaces \cup Pointers
  /\ Freed \notin Clients \cup {None}

VARIABLES
  mode,        \* how the compositor was configured; never changes
  owner,       \* client of each live surface
  role,        \* what decides whether a surface can have the pointer
  pntClient,   \* client of each live wl_pointer
  ptr,         \* WstPointer, with the clients' view of it (told)
  slotSurface, \* eventQueue[i].p1, kept when the slot is used again
  parentFocus, \* nested surface the parent compositor has sent an enter for
  dying,       \* client whose objects libwayland is destroying
  dc,          \* dcClient, dcPid and dcDefaultCursor
  dcCall,      \* position of WstCompositorSetDefaultCursor
  crashed      \* a null or freed pointer has been used

objects == <<owner, role, pntClient>>
env == <<slotSurface, parentFocus>>
cursorCall == <<dc, dcCall>>
vars == <<mode, objects, ptr, env, dying, cursorCall, crashed>>

--------------------------------------------------------------------------------
Modes == [nesting : {"local", "nested", "repeater"}, allowModifyCursor : BOOLEAN]

Roles == {"none", "shell", "cursor"}

\* focus, pointerSurface, focusResourceList and entered of WstPointer; told[k] is
\* the surface of the last enter the client of pointer k holds valid.
Pointer == [focus : Surfaces \cup {None}, cursor : Surfaces \cup {None},
            list : SUBSET Pointers, entered : BOOLEAN,
            told : [Pointers -> Surfaces \cup {None}]]

Live == {s \in Surfaces : owner[s] # None}
PointersOf(c) == {k \in Pointers : pntClient[k] = c}
IsRepeater == mode.nesting = "repeater"

\* The compositor thread is free to handle a request or an event.
Idle == dying = None /\ ~crashed

--------------------------------------------------------------------------------
(* wstPointerMoveFocusToClient, wstPointerSetPointer, wstPointerSetFocus and  *)
(* wstPointerCheckFocus, each from a WstPointer to a WstPointer.              *)

\* Variant: the old client's pointers stay in the list.
EnterClientOfKeepingList(p, s, pnt) ==
  LET mine == {k \in Pointers : pnt[k] = owner[s]}
  IN  [p EXCEPT !.focus = s, !.list = @ \cup mine,
                !.told = [k \in Pointers |-> IF k \in mine THEN s ELSE p.told[k]]]

\* Move the client's pointers, and no others, to focusResourceList; enter s.  (pnt[k] is
\* the client of pointer k, a new one included.)
EnterClientOf(p, s, pnt) ==
  LET mine == {k \in Pointers : pnt[k] = owner[s]}
  IN  [p EXCEPT !.focus = s, !.list = mine,
                !.told = [k \in Pointers |-> IF k \in mine THEN s ELSE p.told[k]]]

SetPointer(p, s) == [p EXCEPT !.cursor = s]

\* Variant: leave is sent to nobody.
LeaveSilently(p) == [p EXCEPT !.focus = None]

\* Variant: the old client's cursor stays.
LeaveKeepingCursor(p) ==
  [p EXCEPT !.focus = None,
            !.told = [k \in Pointers |-> IF k \in p.list THEN None ELSE p.told[k]]]

\* Send leave to the focused client and take its cursor away.
Leave(p) ==
  LET left == [p EXCEPT !.focus = None,
                        !.told = [k \in Pointers |-> IF k \in p.list THEN None
                                                     ELSE p.told[k]]]
  IN  IF p.cursor # None /\ owner[p.cursor] = owner[p.focus]
      THEN SetPointer(left, None) ELSE left

SetFocus(p, s, pnt) ==
  LET left == IF p.focus # None THEN Leave(p) ELSE p
  IN  CASE p.focus = s -> p
        [] p.focus # s /\ s # None -> EnterClientOf(left, s, pnt)
        [] OTHER -> IF dc.defaultCursor THEN left ELSE SetPointer(left, None)

\* What may be found under the pointer among the surfaces of alive: any surface with
\* a role, or nothing; one without a role only when no surface has one.  (A surface
\* without a role that has a wl_vpc_surface is passed over, as if it were elsewhere.)
UnderPointer(alive, roles) ==
  {None} \cup {s \in alive : roles[s] = "shell"}
         \cup {s \in alive : roles[s] = "none" /\ \A t \in alive : roles[t] # "shell"}

\* The possible results of wstPointerCheckFocus.
CheckFocus(p, alive, roles, pnt) ==
  IF IsRepeater THEN {p} ELSE {SetFocus(p, s, pnt) : s \in UnderPointer(alive, roles)}

--------------------------------------------------------------------------------
(* Objects of clients. *)

CreateSurface(c, s) ==
  /\ Idle
  /\ owner[s] = None
  /\ owner' = [owner EXCEPT ![s] = c]
  /\ role' = [role EXCEPT ![s] = "none"]
  /\ UNCHANGED <<mode, pntClient, ptr, env, dying, cursorCall, crashed>>

\* wl_shell and xdg_shell give a surface a role for good.
SetShellRole(s) ==
  /\ Idle
  /\ owner[s] # None
  /\ role[s] = "none"
  /\ role' = [role EXCEPT ![s] = "shell"]
  /\ UNCHANGED <<mode, owner, pntClient, ptr, env, dying, cursorCall, crashed>>

\* wstISeatGetPointer: the pointer joins resourceList, also when its client has the
\* focus; it gets an enter only if the focus moves to its client now.
GetPointer(c, k) ==
  /\ Idle
  /\ pntClient[k] = None
  /\ pntClient' = [pntClient EXCEPT ![k] = c]
  /\ IF ptr.entered THEN ptr' \in CheckFocus(ptr, Live, role, pntClient')
                      ELSE UNCHANGED ptr
  /\ UNCHANGED <<mode, owner, role, env, dying, cursorCall, crashed>>

\* wstIPointerRelease, or the end of the client; wstResourceUnBindCallback.
ReleasePointer(k) ==
  /\ ~crashed
  /\ pntClient[k] # None
  /\ dying \in {None, pntClient[k]}
  /\ pntClient' = [pntClient EXCEPT ![k] = None]
  /\ ptr' = [ptr EXCEPT !.list = @ \ {k}, !.told[k] = None]
  /\ UNCHANGED <<mode, owner, role, env, dying, cursorCall, crashed>>

\* What wstSurfaceDestroy does to the pointer before the surface is freed.
ForgetSurface(p, s) ==
  LET unfocused == IF p.focus # s THEN p
                   ELSE IF dc.defaultCursor THEN [p EXCEPT !.focus = None]
                   ELSE SetPointer([p EXCEPT !.focus = None], None)
      blank     == IF unfocused.cursor = s THEN SetPointer(unfocused, None) ELSE unfocused
  IN  [blank EXCEPT !.told = [k \in Pointers |-> IF p.told[k] = s THEN None ELSE p.told[k]]]

\* Variant: the surface is not looked for in pointerSurface.
SurfaceDestroyKeepsCursor(s) ==
  /\ ~crashed
  /\ owner[s] # None
  /\ dying \in {None, owner[s]}
  /\ owner' = [owner EXCEPT ![s] = None]
  /\ role' = [role EXCEPT ![s] = "none"]
  /\ ptr' \in CheckFocus([ForgetSurface(ptr, s) EXCEPT !.cursor = ptr.cursor],
                       Live \ {s}, role, pntClient)
  /\ UNCHANGED <<mode, pntClient, env, dying, cursorCall, crashed>>

\* wl_surface.destroy, or the end of the client: wstSurfaceDestroy forgets the surface,
\* then looks what is under the pointer, inside the compositor or not.
SurfaceDestroy(s) ==
  /\ ~crashed
  /\ owner[s] # None
  /\ dying \in {None, owner[s]}
  /\ owner' = [owner EXCEPT ![s] = None]
  /\ role' = [role EXCEPT ![s] = "none"]
  /\ ptr' \in CheckFocus(ForgetSurface(ptr, s), Live \ {s}, role, pntClient)
  /\ UNCHANGED <<mode, pntClient, env, dying, cursorCall, crashed>>

\* A client disconnects: its objects are destroyed one by one, with nothing in between.
Disconnect(c) ==
  /\ Idle
  /\ dying' = c
  /\ UNCHANGED <<mode, objects, ptr, env, cursorCall, crashed>>

\* The last object is gone.  After wl_client_destroy in WstCompositorSetDefaultCursor
\* the default cursor client is forgotten; when it ended by itself it is not.
ClientGone ==
  /\ dying # None
  /\ PointersOf(dying) = {} /\ \A s \in Live : owner[s] # dying
  /\ dying' = None
  /\ IF dcCall = "destroying"
     THEN /\ dc' = [client |-> None, pid |-> None, defaultCursor |-> FALSE]
          /\ dcCall' = "cleared"
     ELSE /\ dc' = [dc EXCEPT !.client = IF @ = dying THEN Freed ELSE @,
                              !.pid = IF @ = dying THEN None ELSE @]
          /\ UNCHANGED dcCall
  /\ UNCHANGED <<mode, objects, ptr, env, crashed>>

--------------------------------------------------------------------------------
(* wl_pointer.set_cursor and the default cursor. *)

\* Only a named surface is compared with the focus, and only when there is a focus.
SetCursorAllowed(c, s) ==
  (s # None /\ ptr.focus # None) => owner[ptr.focus] = c

\* wstIPointerSetCursor by client c, with surface s or none.
SetCursor(c, s) ==
  /\ Idle
  /\ PointersOf(c) # {}
  /\ s # None => owner[s] = c /\ role[s] \in {"none", "cursor"}
  /\ SetCursorAllowed(c, s)
  /\ role' = IF s = None THEN role ELSE [role EXCEPT ![s] = "cursor"]
  /\ IF ~IsRepeater /\ (mode.allowModifyCursor \/ c = dc.pid)
     THEN /\ ptr' = SetPointer(ptr, s)
          /\ dc' = IF c = dc.pid
                   THEN [dc EXCEPT !.client = c, !.defaultCursor = TRUE] ELSE dc
     ELSE UNCHANGED <<ptr, dc>>
  /\ UNCHANGED <<mode, owner, pntClient, env, dying, dcCall, crashed>>

\* WstCompositorSetDefaultCursor up to the fork.  Without a default cursor client
\* wstTerminateDefaultCursor has nothing to do in this process.
SetDefaultCursor ==
  /\ Idle
  /\ mode.nesting = "local"
  /\ dcCall = "idle"
  /\ CASE dc.client \in Clients -> dying' = dc.client /\ dcCall' = "destroying"
                                   /\ UNCHANGED crashed
       [] dc.client = Freed -> crashed' = TRUE /\ UNCHANGED <<dying, dcCall>>
       [] OTHER -> dcCall' = "cleared" /\ UNCHANGED <<dying, crashed>>
  /\ UNCHANGED <<mode, objects, ptr, env, dc>>

\* No image: the call ends here.
DefaultCursorCleared ==
  /\ dcCall = "cleared"
  /\ dcCall' = "idle"
  /\ UNCHANGED <<mode, objects, ptr, env, dying, dc, crashed>>

\* wstInitializeDefaultCursor: fork a client that will set the cursor.
ForkDefaultCursor(c) ==
  /\ Idle
  /\ dcCall = "cleared"
  /\ PointersOf(c) = {} /\ \A s \in Live : owner[s] # c
  /\ c # dc.pid
  /\ dc' = [dc EXCEPT !.pid = c]
  /\ dcCall' = "idle"
  /\ UNCHANGED <<mode, objects, ptr, env, dying, crashed>>

--------------------------------------------------------------------------------
(* Pointer events: from the API, or from the parent compositor when nested. *)

PointerEnter ==
  /\ Idle
  /\ ~IsRepeater
  /\ LET in == [ptr EXCEPT !.entered = TRUE]
     IN  IF mode.nesting = "nested" THEN ptr' \in CheckFocus(in, Live, role, pntClient)
                                     ELSE ptr' = in
  /\ UNCHANGED <<mode, objects, env, dying, cursorCall, crashed>>

\* The default cursor is not affected by leaving, and neither is the focus then.
PointerLeave ==
  /\ Idle
  /\ ~IsRepeater
  /\ ~dc.defaultCursor
  /\ ptr' = [SetPointer(SetFocus(ptr, None, pntClient), None) EXCEPT !.entered = FALSE]
  /\ UNCHANGED <<mode, objects, env, dying, cursorCall, crashed>>

PointerMove ==
  /\ Idle
  /\ ~IsRepeater
  /\ ptr' \in CheckFocus(ptr, Live, role, pntClient)
  /\ UNCHANGED <<mode, objects, env, dying, cursorCall, crashed>>

\* wstDefaultNestedPointerHandleEnter stores the surface in slot i; the dispatch
\* enters it when it is still there.
RepeaterEnter(s, i) ==
  /\ Idle
  /\ IsRepeater
  /\ parentFocus = None
  /\ parentFocus' = s
  /\ slotSurface' = [slotSurface EXCEPT ![i] = s]
  /\ ptr' = IF s \in Live THEN EnterClientOf(ptr, s, pntClient) ELSE ptr
  /\ UNCHANGED <<mode, objects, dying, cursorCall, crashed>>

\* wstDefaultNestedPointerHandleLeave does not store the surface: the dispatch reads
\* what an earlier event left in slot i.
RepeaterLeave(i) ==
  LET found == slotSurface[i] \in Live
  IN  /\ Idle
      /\ IsRepeater
      /\ parentFocus # None
      /\ parentFocus' = None
      /\ crashed' = (found /\ ptr.focus = None)
      /\ ptr' = IF found
                THEN [ptr EXCEPT !.focus = None,
                                 !.told = [k \in Pointers |-> IF k \in ptr.list THEN None
                                                              ELSE ptr.told[k]]]
                ELSE ptr
      /\ UNCHANGED <<mode, objects, slotSurface, dying, cursorCall>>

\* The parent learns that the surface it had sent an enter for is gone.
ParentForgets ==
  /\ ~crashed
  /\ parentFocus # None /\ parentFocus \notin Live
  /\ parentFocus' = None
  /\ UNCHANGED <<mode, objects, ptr, slotSurface, dying, cursorCall, crashed>>

--------------------------------------------------------------------------------
Init ==
  /\ mode \in Modes
  /\ owner = [s \in Surfaces |-> None]
  /\ role = [s \in Surfaces |-> "none"]
  /\ pntClient = [k \in Pointers |-> None]
  /\ ptr = [focus |-> None, cursor |-> None, list |-> {}, entered |-> FALSE,
            told |-> [k \in Pointers |-> None]]
  /\ slotSurface = [i \in Slots |-> None]
  /\ parentFocus = None
  /\ dying = None
  /\ dc = [client |-> None, pid |-> None, defaultCursor |-> FALSE]
  /\ dcCall = "idle"
  /\ crashed = FALSE

Next ==
  \/ \E c \in Clients :
       \/ \E s \in Surfaces : CreateSurface(c, s)
       \/ \E k \in Pointers : GetPointer(c, k)
       \/ \E s \in Surfaces \cup {None} : SetCursor(c, s)
       \/ Disconnect(c)
       \/ ForkDefaultCursor(c)
  \/ \E s \in Surfaces :
       \/ SetShellRole(s)
       \/ SurfaceDestroy(s)
       \/ \E i \in Slots : RepeaterEnter(s, i)
  \/ \E k \in Pointers : ReleasePointer(k)
  \/ \E i \in Slots : RepeaterLeave(i)
  \/ ClientGone \/ SetDefaultCursor \/ DefaultCursorCleared
  \/ PointerEnter \/ PointerLeave \/ PointerMove \/ ParentForgets

Spec == Init /\ [][Next]_vars

--------------------------------------------------------------------------------
(* Properties. *)

\* Types of the pointer state.
TypeOK ==
  /\ mode \in Modes
  /\ owner \in [Surfaces -> Clients \cup {None}]
  /\ role \in [Surfaces -> Roles]
  /\ pntClient \in [Pointers -> Clients \cup {None}]
  /\ ptr \in Pointer
  /\ slotSurface \in [Slots -> Surfaces \cup {None}]
  /\ parentFocus \in Surfaces \cup {None}
  /\ dying \in Clients \cup {None}
  /\ dc \in [client : Clients \cup {None, Freed}, pid : Clients \cup {None},
             defaultCursor : BOOLEAN]
  /\ dcCall \in {"idle", "destroying", "cleared"}
  /\ crashed \in BOOLEAN

\* pointer->focus and pointer->pointerSurface are raw pointers that wstSurfaceDestroy
\* must clear before it frees the surface, whatever order a client's objects go in.
PointersLive == {ptr.focus, ptr.cursor} \subseteq Live \cup {None}

\* Motion and buttons go to one client's pointers only, the client of the focused
\* surface while there is one, and each of these pointers has had its enter before.
EventsFollowEnter ==
  /\ \A j, k \in ptr.list : pntClient[j] = pntClient[k] /\ pntClient[k] # None
  /\ ptr.focus # None =>
       \A k \in ptr.list : pntClient[k] = owner[ptr.focus] /\ ptr.told[k] = ptr.focus

\* Every enter is answered by a leave before another surface is entered: no client
\* believes it has the pointer when the focus is elsewhere.  (A repeater breaks this:
\* its leave events name the surface of an older event.)
LeaveBeforeEnter ==
  ~IsRepeater => \A k \in Pointers : ptr.told[k] \in {None, ptr.focus}

\* The focused client's cursor goes when the focus leaves the surface, also when the
\* surface is destroyed under the pointer, unless the default cursor is in charge.
CursorLeavesWithFocus ==
  [][(/\ ptr.focus # None /\ ptr.cursor # None
      /\ owner[ptr.focus] = owner[ptr.cursor]
      /\ ptr'.focus # ptr.focus /\ ~dc.defaultCursor)
       => ptr'.cursor = None]_vars

\* A repeater's clients get a leave for every enter of the parent: when the parent has
\* the pointer elsewhere, no surface here has the focus.
RepeaterFollowsParent ==
  IsRepeater /\ parentFocus = None => ptr.focus = None

\* The default cursor can be replaced or removed at any time: the client
\* WstCompositorSetDefaultCursor is about to destroy is there.
DefaultCursorClientLive == dc.client # Freed
================================================================================

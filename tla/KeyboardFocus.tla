---------------------------- MODULE KeyboardFocus ------------------------------
(***************************************************************************)
(* Keyboard focus of the Westeros compositor (westeros-compositor.cpp).    *)
(*                                                                         *)
(* Every wl_keyboard is a member of one of two lists of WstKeyboard:       *)
(* focusResourceList, whose members receive the key events, and            *)
(* resourceList, the rest.  Focus moves when clients create surfaces and   *)
(* keyboards, when surfaces and clients go away, and on request (a pointer *)
(* button press, wl_simple_shell.set_focus, WstCompositorFocusClientById   *)
(* and WstCompositorFocusClientByName).  All of it runs on the compositor  *)
(* thread, one request at a time; the two Focus API calls run on the       *)
(* caller's thread and are modelled as if they took ctx->mutex.            *)
(*                                                                         *)
(* The lists are modelled as sets.  Their order matters in one place, the  *)
(* workaround at the end of wstISeatGetKeyboard, which takes the head of   *)
(* resourceList; the keyboard just created is always that head.            *)
(***************************************************************************)
EXTENDS FiniteSets

CONSTANTS
  Clients,     \* wl_client
  Surfaces,    \* WstSurface slots
  Keyboards,   \* wl_keyboard resource slots
  None

ASSUME FocusAssumption ==
  None \notin Clients \cup Surfaces \cup Keyboards

VARIABLES
  surfaceClient,   \* client of each live surface
  surfaceRole,     \* surface->roleName
  clientInfo,      \* ctx->clientInfoMap
  kbClient,        \* client of each live wl_keyboard
  focus,           \* keyboard->focus
  focusList,       \* keyboard->focusResourceList
  entered,         \* the surface of the last wl_keyboard.enter that the client
                   \* of a keyboard holds valid (no leave, surface still there)
  hung             \* the compositor thread is in an endless loop, with the mutex

registryVars == <<surfaceClient, surfaceRole, clientInfo, kbClient>>
vars == <<registryVars, focus, focusList, entered, hung>>

--------------------------------------------------------------------------------
Roles == {"none", "shell", "xdg", "cursor"}

ClientInfo == [surface : Surfaces \cup {None}, usesXdgShell : BOOLEAN]

NewClientInfo == [surface |-> None, usesXdgShell |-> FALSE]

\* wstUpdateClientInfo: the client's entry, created when it has none.
InfoOf(c) == IF clientInfo[c] = None THEN NewClientInfo ELSE clientInfo[c]

KeyboardsOf(c) == {k \in Keyboards : kbClient[k] = c}

FocusClient == IF focus = None THEN None ELSE surfaceClient[focus]

--------------------------------------------------------------------------------
(* wstKeyboardSetFocus( keyboard, s ), where mine is the set of keyboards of *)
(* s's client and list the present focusResourceList.                        *)

\* The early returns: focus is already there, or already on the client, or the
\* client has no listener and another client has.
SetFocusReturnsEarly(s, mine, list) ==
  \/ focus = s
  \/ mine \cap list # {}
  \/ mine = {} /\ list # {}

\* Variant: enter is sent before the lists are moved.
SetFocusEntersOldList(s, mine, list) ==
  IF SetFocusReturnsEarly(s, mine, list)
  THEN focusList' = list /\ UNCHANGED <<focus, entered>>
  ELSE /\ focus' = s
       /\ focusList' = mine
       /\ entered' = [k \in Keyboards |-> IF k \in list THEN s ELSE entered[k]]

\* Leave the old surface, move the lists, enter the new surface.
SetFocus(s, mine, list) ==
  IF SetFocusReturnsEarly(s, mine, list)
  THEN /\ focusList' = list
       /\ UNCHANGED <<focus, entered>>
  ELSE /\ focus' = s
       /\ focusList' = mine
       /\ entered' = [k \in Keyboards |->
                        CASE k \in mine -> s
                          [] k \in list \ mine /\ focus # None -> None
                          [] OTHER -> entered[k]]

\* Variant: the present focus is not looked at first.
CheckFocusAlways(c, s, info, role) ==
  LET mine == KeyboardsOf(c)
  IN  /\ IF (info.usesXdgShell /\ role # "xdg") \/ mine = {}
         THEN UNCHANGED <<focus, focusList, entered>>
         ELSE SetFocus(s, mine, IF mine \subseteq focusList THEN {} ELSE focusList)
      /\ UNCHANGED hung

\* wstKeyboardCheckFocus( keyboard, s ) for a surface s of client c.  A client whose
\* keyboards are all on focusResourceList is found by a loop over that list, which
\* moves the list's members to resourceList while it walks along them.  The loop
\* ends when the list has one member: the next one was taken before the move.  With
\* more it goes on along resourceList, a circle that does not contain its end mark.
CheckFocus(c, s, info, role) ==
  LET mine     == KeyboardsOf(c)
      eligible == focus = None /\ (~info.usesXdgShell \/ role = "xdg") /\ mine # {}
      several  == \E j, k \in mine : j # k
  IN  \/ /\ ~eligible
         /\ UNCHANGED <<focus, focusList, entered, hung>>
      \/ /\ eligible /\ ~(mine \subseteq focusList)
         /\ SetFocus(s, mine, focusList)
         /\ UNCHANGED hung
      \/ /\ eligible /\ mine \subseteq focusList /\ ~several
         /\ SetFocus(s, mine, {})
         /\ UNCHANGED hung
      \/ /\ eligible /\ mine \subseteq focusList /\ several
         /\ focusList' = {}
         /\ hung' = TRUE
         /\ UNCHANGED <<focus, entered>>

--------------------------------------------------------------------------------
(* Surfaces. *)

\* wl_compositor.create_surface
CreateSurface(c, s) ==
  LET info == [InfoOf(c) EXCEPT !.surface = s]
  IN  /\ ~hung
      /\ surfaceClient[s] = None
      /\ surfaceClient' = [surfaceClient EXCEPT ![s] = c]
      /\ surfaceRole' = [surfaceRole EXCEPT ![s] = "none"]
      /\ clientInfo' = [clientInfo EXCEPT ![c] = info]
      /\ CheckFocus(c, s, info, "none")
      /\ UNCHANGED kbClient

\* Variant: the client's entry keeps naming the destroyed surface.
SurfaceDestroyKeepsInfo(s) ==
  /\ ~hung
  /\ surfaceClient[s] # None
  /\ surfaceClient' = [surfaceClient EXCEPT ![s] = None]
  /\ surfaceRole' = [surfaceRole EXCEPT ![s] = "none"]
  /\ focus' = IF focus = s THEN None ELSE focus
  /\ entered' = [k \in Keyboards |-> IF entered[k] = s THEN None ELSE entered[k]]
  /\ UNCHANGED <<clientInfo, kbClient, focusList, hung>>

\* wl_surface.destroy: wstDestroySurfaceCallback and wstSurfaceDestroy, then
\* wstISurfaceDestroy forgets the client, whatever other surfaces it has.
\* focusResourceList stays as it is.
SurfaceDestroy(s) ==
  /\ ~hung
  /\ surfaceClient[s] # None
  /\ surfaceClient' = [surfaceClient EXCEPT ![s] = None]
  /\ surfaceRole' = [surfaceRole EXCEPT ![s] = "none"]
  /\ clientInfo' = [clientInfo EXCEPT ![surfaceClient[s]] = None]
  /\ focus' = IF focus = s THEN None ELSE focus
  /\ entered' = [k \in Keyboards |-> IF entered[k] = s THEN None ELSE entered[k]]
  /\ UNCHANGED <<kbClient, focusList, hung>>

\* wstXdgShellBind
BindXdgShell(c) ==
  /\ ~hung
  /\ clientInfo' = [clientInfo EXCEPT ![c] = [InfoOf(c) EXCEPT !.usesXdgShell = TRUE]]
  /\ UNCHANGED <<surfaceClient, surfaceRole, kbClient, focus, focusList, entered, hung>>

\* wstSurfaceSetRole: a role, once given, is final.
RoleAllowed(s, role) == surfaceRole[s] \in {"none", role}

\* wl_shell.get_shell_surface and wl_pointer.set_cursor
SetPlainRole(s, role) ==
  /\ ~hung
  /\ surfaceClient[s] # None
  /\ RoleAllowed(s, role)
  /\ surfaceRole' = [surfaceRole EXCEPT ![s] = role]
  /\ UNCHANGED <<surfaceClient, clientInfo, kbClient, focus, focusList, entered, hung>>

\* xdg_shell.get_xdg_surface
GetXdgSurface(s) ==
  LET c == surfaceClient[s]
  IN  /\ ~hung
      /\ c # None
      /\ RoleAllowed(s, "xdg")
      /\ surfaceRole' = [surfaceRole EXCEPT ![s] = "xdg"]
      /\ clientInfo' = IF focus = None
                       THEN [clientInfo EXCEPT ![c] = InfoOf(c)] ELSE clientInfo
      /\ CheckFocus(c, s, InfoOf(c), "xdg")
      /\ UNCHANGED <<surfaceClient, kbClient>>

--------------------------------------------------------------------------------
(* Keyboards. *)

\* Variant: a new keyboard of the focused client starts in resourceList.
GetKeyboardUnfocused(c, k) ==
  /\ ~hung
  /\ kbClient[k] = None
  /\ kbClient' = [kbClient EXCEPT ![k] = c]
  /\ IF focus = None /\ InfoOf(c).surface # None
     THEN SetFocus(InfoOf(c).surface, KeyboardsOf(c) \cup {k}, focusList)
     ELSE UNCHANGED <<focus, focusList, entered>>
  /\ UNCHANGED <<surfaceClient, surfaceRole, clientInfo, hung>>

\* wl_seat.get_keyboard, for a new keyboard k of client c.
GetKeyboard(c, k) ==
  LET mine   == KeyboardsOf(c) \cup {k}
      latest == InfoOf(c).surface
  IN  /\ ~hung
      /\ kbClient[k] = None
      /\ kbClient' = [kbClient EXCEPT ![k] = c]
      /\ CASE focus # None /\ FocusClient = c ->
                \* joins the focus list; entered with the client's latest surface
                /\ focusList' = focusList \cup {k}
                /\ entered' = [entered EXCEPT ![k] = latest]
                /\ UNCHANGED focus
           [] focus = None /\ latest # None ->
                SetFocus(latest, mine, focusList)
           [] focus = None /\ latest = None /\ focusList = {} ->
                \* the workaround: the client has keyboards and no surface
                /\ focusList' = mine
                /\ UNCHANGED <<focus, entered>>
           [] OTHER -> UNCHANGED <<focus, focusList, entered>>
      /\ UNCHANGED <<surfaceClient, surfaceRole, clientInfo, hung>>

\* wl_keyboard.release
ReleaseKeyboard(k) ==
  /\ ~hung
  /\ kbClient[k] # None
  /\ kbClient' = [kbClient EXCEPT ![k] = None]
  /\ focusList' = focusList \ {k}
  /\ entered' = [entered EXCEPT ![k] = None]
  /\ UNCHANGED <<surfaceClient, surfaceRole, clientInfo, focus, hung>>

--------------------------------------------------------------------------------
(* Requests to move the focus, and clients that go away. *)

\* A button press over s, wl_simple_shell.set_focus, WstCompositorFocusClientById
\* and WstCompositorFocusClientByName.
RequestFocus(s) ==
  /\ ~hung
  /\ surfaceClient[s] # None
  /\ SetFocus(s, KeyboardsOf(surfaceClient[s]), focusList)
  /\ UNCHANGED <<registryVars, hung>>

\* A client disconnects: libwayland destroys all its resources, one after the
\* other on the compositor thread.  Its surfaces, its keyboards and (with its
\* wl_compositor) its entry in clientInfoMap go, in any order.
Disconnect(c) ==
  LET gone == {s \in Surfaces : surfaceClient[s] = c}
      mine == KeyboardsOf(c)
  IN  /\ ~hung
      /\ surfaceClient' = [s \in Surfaces |-> IF s \in gone THEN None ELSE surfaceClient[s]]
      /\ surfaceRole' = [s \in Surfaces |-> IF s \in gone THEN "none" ELSE surfaceRole[s]]
      /\ kbClient' = [k \in Keyboards |-> IF k \in mine THEN None ELSE kbClient[k]]
      /\ clientInfo' = [clientInfo EXCEPT ![c] = None]
      /\ focus' = IF focus \in gone THEN None ELSE focus
      /\ focusList' = focusList \ mine
      /\ entered' = [k \in Keyboards |->
                       IF k \in mine \/ entered[k] \in gone THEN None ELSE entered[k]]
      /\ UNCHANGED hung

--------------------------------------------------------------------------------
Init ==
  /\ surfaceClient = [s \in Surfaces |-> None]
  /\ surfaceRole = [s \in Surfaces |-> "none"]
  /\ clientInfo = [c \in Clients |-> None]
  /\ kbClient = [k \in Keyboards |-> None]
  /\ focus = None
  /\ focusList = {}
  /\ entered = [k \in Keyboards |-> None]
  /\ hung = FALSE

Next ==
  \/ \E c \in Clients :
       \/ \E s \in Surfaces : CreateSurface(c, s)
       \/ \E k \in Keyboards : GetKeyboard(c, k)
       \/ BindXdgShell(c)
       \/ Disconnect(c)
  \/ \E s \in Surfaces :
       \/ SurfaceDestroy(s)
       \/ \E role \in {"shell", "cursor"} : SetPlainRole(s, role)
       \/ GetXdgSurface(s)
       \/ RequestFocus(s)
  \/ \E k \in Keyboards : ReleaseKeyboard(k)

Spec == Init /\ [][Next]_vars

--------------------------------------------------------------------------------
(* Properties. *)

\* Types of the focus state.
TypeOK ==
  /\ surfaceClient \in [Surfaces -> Clients \cup {None}]
  /\ surfaceRole \in [Surfaces -> Roles]
  /\ clientInfo \in [Clients -> ClientInfo \cup {None}]
  /\ kbClient \in [Keyboards -> Clients \cup {None}]
  /\ focus \in Surfaces \cup {None}
  /\ focusList \subseteq Keyboards
  /\ entered \in [Keyboards -> Surfaces \cup {None}]
  /\ hung \in BOOLEAN

\* No dangling pointer: keyboard->focus and every clientInfo->surface refer to
\* live surfaces, the latter of that client, after any sequence of destroys and
\* disconnects.
PointersLive ==
  /\ focus # None => surfaceClient[focus] # None
  /\ \A c \in Clients :
       clientInfo[c] # None /\ clientInfo[c].surface # None
         => surfaceClient[clientInfo[c].surface] = c

\* While a surface has the focus, key events go to all the keyboards of its
\* client and to no other, also those created or released since it got the focus.
FocusListMatchesFocus ==
  focus # None => focusList = KeyboardsOf(surfaceClient[focus])

\* Keys never reach two clients at once, with or without a focused surface; what
\* one types into one client is not seen by another.
OneRecipient ==
  /\ \A k \in focusList : kbClient[k] # None
  /\ \A j, k \in focusList : kbClient[j] = kbClient[k]

\* A client is told that one of its surfaces has the keyboard only when the keys
\* go to that keyboard, and only about a surface of its own.
EnterIsTrue ==
  [][\A k \in Keyboards :
       (entered'[k] # entered[k] /\ entered'[k] # None)
         => (k \in focusList' /\ surfaceClient'[entered'[k]] = kbClient'[k])]_vars

\* A client cannot take the focus from a live surface by creating surfaces,
\* keyboards or roles; only a request to move the focus does that.
NoFocusStealing ==
  [][(focus # None /\ focus' # focus)
       => (surfaceClient'[focus] = None \/ UNCHANGED registryVars)]_vars

\* Not so, when the client has created two keyboards before its first surface: what
\* wstKeyboardCheckFocus says of itself, that while nothing has the keyboard focus,
\* a new surface gets it when its client has listeners (and does not use xdg_shell).
ListenerGetsFocus ==
  [][\A c \in Clients, s \in Surfaces :
       (/\ surfaceClient[s] = None /\ surfaceClient'[s] = c
        /\ focus = None /\ KeyboardsOf(c) # {} /\ ~InfoOf(c).usesXdgShell)
         => focus' = s]_vars

\* Nor, when there are two of them, what it says of a client whose listeners are all on focusResourceList (a surface
\* of the client had the focus before, or the workaround has put them there): they
\* are moved away first, so that the new surface gets the focus all the same.
FocusComesBack ==
  [][\A c \in Clients, s \in Surfaces :
       (/\ surfaceClient[s] = None /\ surfaceClient'[s] = c
        /\ focus = None /\ KeyboardsOf(c) # {} /\ ~InfoOf(c).usesXdgShell
        /\ KeyboardsOf(c) \subseteq focusList)
         => focus' = s]_vars
================================================================================

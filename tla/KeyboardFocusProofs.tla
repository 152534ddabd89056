-------------------------- MODULE KeyboardFocusProofs --------------------------
(***************************************************************************)
(* The focus invariants of KeyboardFocus hold for any number of clients,   *)
(* surfaces and keyboards.  The inductive invariant is their conjunction:  *)
(* that key events go to the focused client alone needs the focus pointer  *)
(* to be live, and that focus survives a destroyed surface with the list   *)
(* unchanged needs the list to belong to one client also without focus.    *)
(***************************************************************************)
EXTENDS KeyboardFocus, TLAPS

IInv ==
  /\ TypeOK
  /\ PointersLive
  /\ FocusListMatchesFocus
  /\ OneRecipient

\* wstKeyboardSetFocus either leaves the focus and the list it was given alone, or
\* moves both.
LEMMA SetFocusResult ==
  ASSUME TypeOK,
         NEW s \in Surfaces, NEW mine \in SUBSET Keyboards, NEW list \in SUBSET Keyboards,
         SetFocus(s, mine, list)
  PROVE  /\ \/ focus' = focus /\ focusList' = list
            \/ focus' = s /\ focusList' = mine
         /\ entered' \in [Keyboards -> Surfaces \cup {None}]
BY DEF SetFocus, TypeOK

\* wstKeyboardCheckFocus changes the focus only when there is none, and then gives
\* the keys to the surface's client or leaves them as they are (or does not end).
LEMMA CheckFocusResult ==
  ASSUME TypeOK, OneRecipient,
         NEW c \in Clients, NEW s \in Surfaces, NEW info, NEW role,
         CheckFocus(c, s, info, role)
  PROVE  /\ \/ focus' = focus /\ focusList' = focusList
            \/ focus = None /\ focus' = None /\ focusList' = {}
            \/ focus = None /\ focus' = s /\ focusList' = KeyboardsOf(c)
         /\ entered' \in [Keyboards -> Surfaces \cup {None}]
         /\ hung' \in BOOLEAN
<1> DEFINE mine == KeyboardsOf(c)
<1>1. mine \in SUBSET Keyboards /\ focusList \in SUBSET Keyboards
  BY DEF KeyboardsOf, TypeOK
<1>2. ASSUME NEW list \in {focusList, {}},
             focus = None, SetFocus(s, mine, list), UNCHANGED hung
      PROVE  /\ \/ focus' = focus /\ focusList' = focusList
                \/ focus = None /\ focus' = None /\ focusList' = {}
                \/ focus = None /\ focus' = s /\ focusList' = mine
             /\ entered' \in [Keyboards -> Surfaces \cup {None}]
             /\ hung' \in BOOLEAN
  <2> HIDE DEF mine
  <2>1. list \in SUBSET Keyboards
    BY <1>1
  <2>2. /\ \/ focus' = focus /\ focusList' = list
           \/ focus' = s /\ focusList' = mine
        /\ entered' \in [Keyboards -> Surfaces \cup {None}]
    BY <1>1, <1>2, <2>1, SetFocusResult
  <2> QED BY <1>2, <2>2 DEF TypeOK
<1>3. CASE UNCHANGED <<focus, focusList, entered, hung>>
  BY <1>3 DEF TypeOK
<1>4. CASE focus = None /\ focusList' = {} /\ hung' = TRUE /\ UNCHANGED <<focus, entered>>
  BY <1>4 DEF TypeOK
<1> QED BY <1>2, <1>3, <1>4 DEF CheckFocus

LEMMA InfoType ==
  ASSUME TypeOK, NEW c \in Clients
  PROVE  InfoOf(c) \in ClientInfo
BY DEF TypeOK, InfoOf, NewClientInfo, ClientInfo

\* Initially nothing exists.
LEMMA InitInv == Init => IInv
BY FocusAssumption DEF Init, IInv, TypeOK, PointersLive, FocusListMatchesFocus, OneRecipient,
   KeyboardsOf, Roles

LEMMA CreateSurfaceInv ==
  ASSUME IInv, NEW c \in Clients, NEW s \in Surfaces, CreateSurface(c, s)
  PROVE  IInv'
<1> DEFINE info == [InfoOf(c) EXCEPT !.surface = s]
<1>1. info \in ClientInfo /\ info.surface = s
  BY InfoType DEF ClientInfo, IInv
<1>2. /\ surfaceClient[s] = None
      /\ surfaceClient' = [surfaceClient EXCEPT ![s] = c]
      /\ surfaceRole' = [surfaceRole EXCEPT ![s] = "none"]
      /\ clientInfo' = [clientInfo EXCEPT ![c] = info]
      /\ kbClient' = kbClient
      /\ CheckFocus(c, s, info, "none")
  BY DEF CreateSurface
<1> HIDE DEF info
<1>3. /\ \/ focus' = focus /\ focusList' = focusList
         \/ focus = None /\ focus' = None /\ focusList' = {}
         \/ focus = None /\ focus' = s /\ focusList' = KeyboardsOf(c)
      /\ entered' \in [Keyboards -> Surfaces \cup {None}]
      /\ hung' \in BOOLEAN
  BY <1>2, CheckFocusResult DEF IInv
<1>4. TypeOK'
  BY <1>1, <1>2, <1>3 DEF IInv, TypeOK, KeyboardsOf, Roles
<1>5. PointersLive'
  BY <1>1, <1>2, <1>3, FocusAssumption DEF IInv, TypeOK, PointersLive
<1>6. FocusListMatchesFocus'
  BY <1>2, <1>3, FocusAssumption DEF IInv, TypeOK, PointersLive, FocusListMatchesFocus, KeyboardsOf
<1>7. OneRecipient'
  BY <1>2, <1>3, FocusAssumption DEF IInv, TypeOK, OneRecipient, KeyboardsOf
<1> QED BY <1>4, <1>5, <1>6, <1>7 DEF IInv

LEMMA SurfaceDestroyInv ==
  ASSUME IInv, NEW s \in Surfaces, SurfaceDestroy(s)
  PROVE  IInv'
<1>1. TypeOK'
  BY DEF IInv, TypeOK, SurfaceDestroy, Roles
<1>2. PointersLive'
  BY FocusAssumption DEF IInv, TypeOK, PointersLive, SurfaceDestroy
<1>3. FocusListMatchesFocus'
  BY FocusAssumption DEF IInv, TypeOK, FocusListMatchesFocus, KeyboardsOf, SurfaceDestroy
<1>4. OneRecipient'
  BY DEF IInv, TypeOK, OneRecipient, SurfaceDestroy
<1> QED BY <1>1, <1>2, <1>3, <1>4 DEF IInv

LEMMA BindXdgShellInv ==
  ASSUME IInv, NEW c \in Clients, BindXdgShell(c)
  PROVE  IInv'
<1>1. /\ [InfoOf(c) EXCEPT !.usesXdgShell = TRUE] \in ClientInfo
      /\ [InfoOf(c) EXCEPT !.usesXdgShell = TRUE].surface = InfoOf(c).surface
  BY InfoType DEF ClientInfo, IInv
<1>2. TypeOK'
  BY <1>1 DEF IInv, TypeOK, BindXdgShell
<1>3. PointersLive'
  BY <1>1 DEF IInv, TypeOK, PointersLive, BindXdgShell, InfoOf, NewClientInfo
<1> QED BY <1>2, <1>3 DEF IInv, BindXdgShell, FocusListMatchesFocus, OneRecipient, KeyboardsOf

LEMMA SetPlainRoleInv ==
  ASSUME IInv, NEW s \in Surfaces, NEW role \in {"shell", "cursor"}, SetPlainRole(s, role)
  PROVE  IInv'
<1>1. TypeOK'
  BY DEF IInv, TypeOK, SetPlainRole, Roles
<1> QED BY <1>1 DEF IInv, PointersLive, FocusListMatchesFocus, OneRecipient, KeyboardsOf,
                   SetPlainRole

LEMMA GetXdgSurfaceInv ==
  ASSUME IInv, NEW s \in Surfaces, GetXdgSurface(s)
  PROVE  IInv'
<1> DEFINE c == surfaceClient[s]
<1>1. c \in Clients /\ InfoOf(c) \in ClientInfo
  BY InfoType DEF IInv, TypeOK, GetXdgSurface
<1>2. /\ surfaceClient' = surfaceClient
      /\ kbClient' = kbClient
      /\ surfaceRole' = [surfaceRole EXCEPT ![s] = "xdg"]
      /\ clientInfo' = IF focus = None
                       THEN [clientInfo EXCEPT ![c] = InfoOf(c)] ELSE clientInfo
      /\ CheckFocus(c, s, InfoOf(c), "xdg")
  BY DEF GetXdgSurface
<1>3. /\ \/ focus' = focus /\ focusList' = focusList
         \/ focus = None /\ focus' = None /\ focusList' = {}
         \/ focus = None /\ focus' = s /\ focusList' = KeyboardsOf(c)
      /\ entered' \in [Keyboards -> Surfaces \cup {None}]
      /\ hung' \in BOOLEAN
  <2> HIDE DEF c
  <2> QED BY <1>1, <1>2, CheckFocusResult DEF IInv
<1>4. TypeOK'
  BY <1>1, <1>2, <1>3 DEF IInv, TypeOK, KeyboardsOf, Roles
<1>5. PointersLive'
  BY <1>1, <1>2, <1>3, FocusAssumption DEF IInv, TypeOK, PointersLive, InfoOf, NewClientInfo
<1>6. FocusListMatchesFocus'
  BY <1>2, <1>3 DEF IInv, FocusListMatchesFocus, KeyboardsOf
<1>7. OneRecipient'
  BY <1>1, <1>2, <1>3, FocusAssumption DEF IInv, OneRecipient, KeyboardsOf
<1> QED BY <1>4, <1>5, <1>6, <1>7 DEF IInv

LEMMA GetKeyboardInv ==
  ASSUME IInv, NEW c \in Clients, NEW k \in Keyboards, GetKeyboard(c, k)
  PROVE  IInv'
<1> DEFINE mine == KeyboardsOf(c) \cup {k}
           latest == InfoOf(c).surface
<1>1. /\ kbClient[k] = None
      /\ kbClient' = [kbClient EXCEPT ![k] = c]
      /\ UNCHANGED <<surfaceClient, surfaceRole, clientInfo, hung>>
  BY DEF GetKeyboard
<1>2. /\ latest \in Surfaces \cup {None}
      /\ latest # None => surfaceClient[latest] = c
      /\ mine \in SUBSET Keyboards
      /\ mine = KeyboardsOf(c)'
  BY <1>1, InfoType DEF IInv, TypeOK, PointersLive, InfoOf, NewClientInfo, ClientInfo, KeyboardsOf
<1>3. /\ \/ /\ focus # None /\ surfaceClient[focus] = c
            /\ focus' = focus /\ focusList' = focusList \cup {k}
         \/ focus # None /\ surfaceClient[focus] # c /\ focus' = focus /\ focusList' = focusList
         \/ focus = None /\ focus' = None /\ focusList' \in {focusList, mine}
         \/ focus = None /\ latest # None /\ focus' = latest /\ focusList' = mine
      /\ entered' \in [Keyboards -> Surfaces \cup {None}]
      /\ hung' \in BOOLEAN
  <2>1. CASE focus # None
    BY <1>2, <2>1 DEF IInv, TypeOK, GetKeyboard, FocusClient
  <2>2. CASE focus = None /\ latest # None
    <3>1. SetFocus(latest, mine, focusList)
      BY <2>2 DEF GetKeyboard
    <3>2. latest \in Surfaces /\ focusList \in SUBSET Keyboards
      BY <1>2, <2>2 DEF IInv, TypeOK
    <3> HIDE DEF latest, mine
    <3> QED BY <1>1, <1>2, <2>2, <3>1, <3>2, SetFocusResult DEF IInv, TypeOK
  <2>3. CASE focus = None /\ latest = None
    BY <2>3 DEF IInv, TypeOK, GetKeyboard
  <2> QED BY <2>1, <2>2, <2>3
<1> HIDE DEF mine, latest
<1>4. TypeOK'
  BY <1>1, <1>2, <1>3 DEF IInv, TypeOK
<1>5. PointersLive'
  BY <1>1, <1>2, <1>3, FocusAssumption DEF IInv, TypeOK, PointersLive
<1>6. FocusListMatchesFocus'
  <2>1. \A d \in Clients \ {c} : KeyboardsOf(d)' = KeyboardsOf(d)
    BY <1>1, FocusAssumption DEF IInv, TypeOK, KeyboardsOf
  <2>2. mine = KeyboardsOf(c) \cup {k}
    BY DEF mine
  <2> QED BY <1>1, <1>2, <1>3, <2>1, <2>2 DEF IInv, TypeOK, PointersLive, FocusListMatchesFocus
<1>7. OneRecipient'
  <2>1. \A j \in mine : kbClient'[j] = c
    BY <1>1, <1>2 DEF IInv, TypeOK, KeyboardsOf
  <2>2. k \notin focusList
    BY <1>1 DEF IInv, OneRecipient
  <2>3. \A j \in focusList : kbClient'[j] = kbClient[j]
    BY <1>1, <2>2 DEF IInv, TypeOK
  <2>4. CASE focusList' = focusList
    BY <2>3, <2>4 DEF IInv, OneRecipient
  <2>5. CASE focusList' = mine
    BY <2>1, <2>5, FocusAssumption DEF OneRecipient
  <2>6. CASE focus # None /\ surfaceClient[focus] = c /\ focusList' = focusList \cup {k}
    <3>1. focusList' = mine
      BY <2>6 DEF IInv, FocusListMatchesFocus, mine
    <3> QED BY <2>5, <3>1
  <2> QED BY <1>3, <2>4, <2>5, <2>6
<1> QED BY <1>4, <1>5, <1>6, <1>7 DEF IInv

LEMMA ReleaseKeyboardInv ==
  ASSUME IInv, NEW k \in Keyboards, ReleaseKeyboard(k)
  PROVE  IInv'
<1>1. TypeOK'
  BY DEF IInv, TypeOK, ReleaseKeyboard
<1>2. PointersLive'
  BY DEF IInv, PointersLive, ReleaseKeyboard
<1>3. FocusListMatchesFocus'
  BY FocusAssumption DEF IInv, TypeOK, PointersLive, FocusListMatchesFocus, KeyboardsOf,
                         ReleaseKeyboard
<1>4. OneRecipient'
  BY DEF IInv, TypeOK, OneRecipient, ReleaseKeyboard
<1> QED BY <1>1, <1>2, <1>3, <1>4 DEF IInv

LEMMA RequestFocusInv ==
  ASSUME IInv, NEW s \in Surfaces, RequestFocus(s)
  PROVE  IInv'
<1> DEFINE mine == KeyboardsOf(surfaceClient[s])
<1>1. /\ surfaceClient[s] \in Clients /\ SetFocus(s, mine, focusList)
      /\ UNCHANGED <<registryVars, hung>>
  BY DEF IInv, TypeOK, RequestFocus
<1>2. mine \in SUBSET Keyboards /\ focusList \in SUBSET Keyboards
  BY DEF IInv, TypeOK, KeyboardsOf
<1>3. /\ \/ focus' = focus /\ focusList' = focusList
         \/ focus' = s /\ focusList' = mine
      /\ entered' \in [Keyboards -> Surfaces \cup {None}]
      /\ hung' \in BOOLEAN
  <2> HIDE DEF mine
  <2> QED BY <1>1, <1>2, SetFocusResult DEF IInv, TypeOK
<1>4. TypeOK'
  BY <1>1, <1>2, <1>3 DEF IInv, TypeOK, registryVars
<1>5. PointersLive'
  BY <1>1, <1>3, FocusAssumption DEF IInv, PointersLive, registryVars
<1>6. FocusListMatchesFocus'
  BY <1>1, <1>3 DEF IInv, FocusListMatchesFocus, KeyboardsOf, registryVars
<1>7. OneRecipient'
  BY <1>1, <1>3, FocusAssumption DEF IInv, OneRecipient, KeyboardsOf, registryVars
<1> QED BY <1>4, <1>5, <1>6, <1>7 DEF IInv

LEMMA DisconnectInv ==
  ASSUME IInv, NEW c \in Clients, Disconnect(c)
  PROVE  IInv'
<1>1. TypeOK'
  BY DEF IInv, TypeOK, Disconnect, Roles
<1>2. PointersLive'
  <2>1. focus' # None => surfaceClient'[focus'] # None
    BY FocusAssumption DEF IInv, TypeOK, PointersLive, Disconnect
  <2>2. ASSUME NEW d \in Clients, clientInfo'[d] # None, clientInfo'[d].surface # None
        PROVE  surfaceClient'[clientInfo'[d].surface] = d
    <3>1. d # c /\ clientInfo'[d] = clientInfo[d]
      BY <2>2 DEF IInv, TypeOK, Disconnect
    <3>2. clientInfo[d].surface \in Surfaces /\ surfaceClient[clientInfo[d].surface] = d
      BY <2>2, <3>1 DEF IInv, TypeOK, PointersLive, ClientInfo
    <3> QED BY <3>1, <3>2 DEF Disconnect
  <2> QED BY <2>1, <2>2 DEF PointersLive
<1>3. FocusListMatchesFocus'
  BY FocusAssumption DEF IInv, TypeOK, PointersLive, FocusListMatchesFocus, KeyboardsOf, Disconnect
<1>4. OneRecipient'
  BY DEF IInv, TypeOK, OneRecipient, KeyboardsOf, Disconnect
<1> QED BY <1>1, <1>2, <1>3, <1>4 DEF IInv

\* Every step keeps the invariant.
LEMMA StepInv == IInv /\ [Next]_vars => IInv'
<1> SUFFICES ASSUME IInv, [Next]_vars
             PROVE  IInv'
  OBVIOUS
<1>1. CASE UNCHANGED vars
  BY <1>1 DEF IInv, TypeOK, PointersLive, FocusListMatchesFocus, OneRecipient, KeyboardsOf,
     vars, registryVars
<1>2. CASE Next
  BY <1>2, CreateSurfaceInv, SurfaceDestroyInv, BindXdgShellInv, SetPlainRoleInv,
     GetXdgSurfaceInv, GetKeyboardInv, ReleaseKeyboardInv, RequestFocusInv, DisconnectInv
     DEF Next
<1> QED BY <1>1, <1>2

\* The inductive invariant holds in every reachable state.
THEOREM InvariantHolds == Spec => []IInv
BY InitInv, StepInv, PTL DEF Spec

\* The focus state is well-typed: TypeOK holds in every reachable state.
THEOREM TypeCorrect == Spec => []TypeOK
<1>1. IInv => TypeOK BY DEF IInv
<1> QED BY <1>1, InvariantHolds, PTL

\* keyboard->focus and clientInfo->surface never dangle.
THEOREM FocusNeverDangles == Spec => []PointersLive
<1>1. IInv => PointersLive BY DEF IInv
<1> QED BY <1>1, InvariantHolds, PTL

\* The keyboards that receive the keys are those of the focused surface's client.
THEOREM KeysFollowFocus == Spec => []FocusListMatchesFocus
<1>1. IInv => FocusListMatchesFocus BY DEF IInv
<1> QED BY <1>1, InvariantHolds, PTL

\* Key events never reach two clients at once.
THEOREM KeysReachOneClient == Spec => []OneRecipient
<1>1. IInv => OneRecipient BY DEF IInv
<1> QED BY <1>1, InvariantHolds, PTL
\* The enter events of wstKeyboardSetFocus go to the keyboards it puts on the list.
LEMMA SetFocusEnters ==
  ASSUME TypeOK,
         NEW s \in Surfaces, NEW mine \in SUBSET Keyboards, NEW list \in SUBSET Keyboards,
         SetFocus(s, mine, list),
         NEW k \in Keyboards, entered'[k] # entered[k], entered'[k] # None
  PROVE  k \in mine /\ k \in focusList' /\ entered'[k] = s
BY DEF SetFocus, TypeOK

\* ... also when the request comes from wstKeyboardCheckFocus.
LEMMA CheckFocusEnters ==
  ASSUME TypeOK,
         NEW c \in Clients, NEW s \in Surfaces, NEW info, NEW role,
         CheckFocus(c, s, info, role),
         NEW k \in Keyboards, entered'[k] # entered[k], entered'[k] # None
  PROVE  kbClient[k] = c /\ k \in focusList' /\ entered'[k] = s
<1> DEFINE mine == KeyboardsOf(c)
<1>1. mine \in SUBSET Keyboards /\ focusList \in SUBSET Keyboards
  BY DEF KeyboardsOf, TypeOK
<1>2. PICK list \in {focusList, {}} : SetFocus(s, mine, list)
  BY DEF CheckFocus
<1>3. k \in mine /\ k \in focusList' /\ entered'[k] = s
  <2> HIDE DEF mine
  <2>1. list \in SUBSET Keyboards
    BY <1>1
  <2> QED BY <1>1, <1>2, <2>1, SetFocusEnters
<1> QED BY <1>3 DEF KeyboardsOf

\* Enter events are true: they name a surface of the client that gets them, and keys
\* go to the keyboard they are about.
THEOREM EntersAreTrue == Spec => EnterIsTrue
<1> DEFINE Told(k) == (entered'[k] # entered[k] /\ entered'[k] # None)
                        => (k \in focusList' /\ surfaceClient'[entered'[k]] = kbClient'[k])
<1>1. IInv /\ [Next]_vars => [\A k \in Keyboards : Told(k)]_vars
  <2> SUFFICES ASSUME IInv, Next, NEW k \in Keyboards,
                      entered'[k] # entered[k], entered'[k] # None
               PROVE  k \in focusList' /\ surfaceClient'[entered'[k]] = kbClient'[k]
    OBVIOUS
  <2>1. ASSUME NEW c \in Clients, NEW s \in Surfaces, CreateSurface(c, s)
        PROVE  k \in focusList' /\ surfaceClient'[entered'[k]] = kbClient'[k]
    <3> DEFINE info == [InfoOf(c) EXCEPT !.surface = s]
    <3>1. CheckFocus(c, s, info, "none") /\ surfaceClient'[s] = c /\ kbClient' = kbClient
      BY <2>1 DEF CreateSurface, IInv, TypeOK
    <3> HIDE DEF info
    <3> QED BY <3>1, CheckFocusEnters DEF IInv
  <2>2. ASSUME NEW s \in Surfaces, GetXdgSurface(s)
        PROVE  k \in focusList' /\ surfaceClient'[entered'[k]] = kbClient'[k]
    <3> DEFINE c == surfaceClient[s]
    <3>1. /\ c \in Clients /\ CheckFocus(c, s, InfoOf(c), "xdg")
          /\ surfaceClient'[s] = c /\ kbClient' = kbClient
      BY <2>2 DEF GetXdgSurface, IInv, TypeOK
    <3> HIDE DEF c
    <3> QED BY <3>1, CheckFocusEnters DEF IInv
  <2>3. ASSUME NEW s \in Surfaces, RequestFocus(s)
        PROVE  k \in focusList' /\ surfaceClient'[entered'[k]] = kbClient'[k]
    <3> DEFINE mine == KeyboardsOf(surfaceClient[s])
    <3>1. SetFocus(s, mine, focusList) /\ surfaceClient' = surfaceClient /\ kbClient' = kbClient
      BY <2>3 DEF RequestFocus, registryVars
    <3>2. mine \in SUBSET Keyboards /\ focusList \in SUBSET Keyboards
      BY DEF IInv, TypeOK, KeyboardsOf
    <3>3. k \in mine /\ k \in focusList' /\ entered'[k] = s
      <4> HIDE DEF mine
      <4> QED BY <3>1, <3>2, SetFocusEnters DEF IInv
    <3> QED BY <3>1, <3>3 DEF KeyboardsOf
  <2>4. ASSUME NEW c \in Clients, NEW j \in Keyboards, GetKeyboard(c, j)
        PROVE  k \in focusList' /\ surfaceClient'[entered'[k]] = kbClient'[k]
    <3> DEFINE mine == KeyboardsOf(c) \cup {j}
               latest == InfoOf(c).surface
    <3>1. /\ latest \in Surfaces \cup {None}
          /\ latest # None => surfaceClient[latest] = c
          /\ mine \in SUBSET Keyboards /\ focusList \in SUBSET Keyboards
      BY InfoType DEF IInv, TypeOK, PointersLive, InfoOf, NewClientInfo, ClientInfo, KeyboardsOf
    <3>2. /\ surfaceClient' = surfaceClient
          /\ kbClient' = [kbClient EXCEPT ![j] = c]
          /\ \A i \in mine : kbClient'[i] = c
      BY <2>4 DEF GetKeyboard, IInv, TypeOK, KeyboardsOf
    <3>3. CASE focus # None
      <4>1. k = j /\ k \in focusList' /\ entered'[k] = latest
        BY <2>4, <3>3 DEF GetKeyboard, IInv, TypeOK
      <4> QED BY <3>1, <3>2, <4>1
    <3>4. CASE focus = None
      <4>1. SetFocus(latest, mine, focusList) /\ latest \in Surfaces
        BY <2>4, <3>1, <3>4 DEF GetKeyboard
      <4>2. k \in mine /\ k \in focusList' /\ entered'[k] = latest
        <5> HIDE DEF mine, latest
        <5> QED BY <3>1, <4>1, SetFocusEnters DEF IInv
      <4> QED BY <3>1, <3>2, <4>1, <4>2, FocusAssumption
    <3> QED BY <3>3, <3>4
  <2>5. CASE \/ \E c \in Clients : BindXdgShell(c) \/ Disconnect(c)
             \/ \E s \in Surfaces : SurfaceDestroy(s)
             \/ \E s \in Surfaces, role \in {"shell", "cursor"} : SetPlainRole(s, role)
             \/ \E j \in Keyboards : ReleaseKeyboard(j)
    BY <2>5 DEF BindXdgShell, Disconnect, SurfaceDestroy, SetPlainRole, ReleaseKeyboard,
                IInv, TypeOK
  <2> QED BY <2>1, <2>2, <2>3, <2>4, <2>5 DEF Next
<1> QED BY <1>1, InvariantHolds, PTL DEF Spec, EnterIsTrue

\* Focus leaves a live surface only by a request to move it: whatever creates
\* surfaces, roles or keyboards looks at the present focus first.
THEOREM FocusIsNotStolen == Spec => NoFocusStealing
<1>1. IInv /\ [Next]_vars
        => [(focus # None /\ focus' # focus)
              => (surfaceClient'[focus] = None \/ UNCHANGED registryVars)]_vars
  <2> SUFFICES ASSUME IInv, Next, focus # None, focus' # focus
               PROVE  surfaceClient'[focus] = None \/ UNCHANGED registryVars
    OBVIOUS
  <2>1. focus \in Surfaces
    BY DEF IInv, TypeOK
  <2>2. ASSUME NEW c \in Clients,
               \/ \E s \in Surfaces : CreateSurface(c, s)
               \/ \E k \in Keyboards : GetKeyboard(c, k)
               \/ BindXdgShell(c)
        PROVE  FALSE
    BY <2>2 DEF CreateSurface, GetKeyboard, BindXdgShell, CheckFocus
  <2>3. ASSUME NEW s \in Surfaces,
               GetXdgSurface(s) \/ \E role \in {"shell", "cursor"} : SetPlainRole(s, role)
        PROVE  FALSE
    BY <2>3 DEF GetXdgSurface, SetPlainRole, CheckFocus
  <2>4. ASSUME NEW k \in Keyboards, ReleaseKeyboard(k)
        PROVE  FALSE
    BY <2>4 DEF ReleaseKeyboard
  <2>5. ASSUME NEW s \in Surfaces, RequestFocus(s)
        PROVE  UNCHANGED registryVars
    BY <2>5 DEF RequestFocus
  <2>6. ASSUME NEW s \in Surfaces, SurfaceDestroy(s)
        PROVE  surfaceClient'[focus] = None
    BY <2>1, <2>6 DEF SurfaceDestroy, IInv, TypeOK
  <2>7. ASSUME NEW c \in Clients, Disconnect(c)
        PROVE  surfaceClient'[focus] = None
    BY <2>1, <2>7 DEF Disconnect, IInv, TypeOK
  <2> QED BY <2>2, <2>3, <2>4, <2>5, <2>6, <2>7 DEF Next
<1> QED BY <1>1, InvariantHolds, PTL DEF Spec, NoFocusStealing
================================================================================

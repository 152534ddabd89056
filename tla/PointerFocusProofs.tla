--------------------------- MODULE PointerFocusProofs ---------------------------
(***************************************************************************)
(* The invariants of PointerFocus hold for any number of clients, surfaces *)
(* and pointers, in each configuration, and so does the action property    *)
(* about the cursor.  Two strengthenings make them inductive: a pointer    *)
(* that holds an enter is in focusResourceList, so that the leave reaches  *)
(* it, and a repeater, whose leave spares the cursor, never has one.       *)
(***************************************************************************)
EXTENDS PointerFocus, TLAPS

\* Whoever holds an enter gets the leave.
ListTold == ~IsRepeater => \A k \in Pointers : ptr.told[k] # None => k \in ptr.list

\* The parent compositor draws the cursor of a repeater.
RepeaterHasNoCursor == IsRepeater => ptr.cursor = None

IInv ==
  /\ TypeOK
  /\ PointersLive
  /\ EventsFollowEnter
  /\ LeaveBeforeEnter
  /\ ListTold
  /\ RepeaterHasNoCursor

--------------------------------------------------------------------------------
(* What the invariants say of a WstPointer p that an action has not yet stored in  *)
(* ptr, with the clients of the surfaces and of the pointers it is about.          *)

Consistent(p, own, pnt) ==
  /\ p \in Pointer
  /\ p.focus # None => own[p.focus] # None
  /\ p.cursor # None => own[p.cursor] # None
  /\ \A j, k \in p.list : pnt[j] = pnt[k] /\ pnt[k] # None
  /\ p.focus # None => \A k \in p.list : pnt[k] = own[p.focus] /\ p.told[k] = p.focus

Answered(p) ==
  \A k \in Pointers : p.told[k] \in {None, p.focus} /\ (p.told[k] # None => k \in p.list)

\* The invariant in these terms.
LEMMA InvConsistent ==
  ASSUME IInv
  PROVE  Consistent(ptr, owner, pntClient) /\ (~IsRepeater => Answered(ptr))
BY PointerAssumption
   DEF IInv, TypeOK, PointersLive, Live, EventsFollowEnter, LeaveBeforeEnter, ListTold,
       Consistent, Answered, Pointer

LEMMA ConsistentInv ==
  ASSUME TypeOK', Consistent(ptr', owner', pntClient'), ~IsRepeater' => Answered(ptr'),
         IsRepeater' => ptr'.cursor = None
  PROVE  IInv'
BY PointerAssumption
   DEF IInv, TypeOK, PointersLive, Live, EventsFollowEnter, LeaveBeforeEnter, ListTold,
       RepeaterHasNoCursor, Consistent, Answered, Pointer

\* wstPointerMoveFocusToClient and the enters: everything is consistent afterwards; the
\* enters are all answered if those of before had been.
LEMMA EnterResult ==
  ASSUME NEW p \in Pointer, NEW s \in Surfaces, owner \in [Surfaces -> Clients \cup {None}],
         NEW pnt \in [Pointers -> Clients \cup {None}],
         owner[s] # None, p.cursor # None => owner[p.cursor] # None
  PROVE  LET q == EnterClientOf(p, s, pnt)
         IN  /\ Consistent(q, owner, pnt)
             /\ q.focus = s /\ q.cursor = p.cursor /\ q.entered = p.entered
             /\ (\A k \in Pointers : p.told[k] = None) => Answered(q)
<1> DEFINE mine == {k \in Pointers : pnt[k] = owner[s]}
           q == EnterClientOf(p, s, pnt)
<1>1. /\ q \in Pointer
      /\ q.focus = s /\ q.cursor = p.cursor /\ q.entered = p.entered /\ q.list = mine
      /\ \A k \in Pointers : q.told[k] = IF k \in mine THEN s ELSE p.told[k]
  BY DEF EnterClientOf, Pointer
<1> QED BY <1>1 DEF Consistent, Answered

\* The leave of wstPointerSetFocus reaches everybody who holds an enter, and takes the
\* cursor of the client that loses the focus.
LEMMA LeaveResult ==
  ASSUME NEW p \in Pointer, p.focus # None
  PROVE  LET q == Leave(p)
         IN  /\ q \in Pointer
             /\ q.focus = None /\ q.list = p.list /\ q.entered = p.entered
             /\ q.cursor \in {None, p.cursor}
             /\ (p.cursor # None /\ owner[p.cursor] = owner[p.focus]) => q.cursor = None
             /\ Answered(p) => \A k \in Pointers : q.told[k] = None
<1> DEFINE left == [p EXCEPT !.focus = None,
                             !.told = [k \in Pointers |-> IF k \in p.list THEN None
                                                          ELSE p.told[k]]]
           q == Leave(p)
<1>1. /\ left \in Pointer /\ left.focus = None /\ left.list = p.list
      /\ left.entered = p.entered /\ left.cursor = p.cursor
      /\ \A k \in Pointers : left.told[k] = IF k \in p.list THEN None ELSE p.told[k]
  BY DEF Pointer
<1>2. \/ q = left /\ ~(p.cursor # None /\ owner[p.cursor] = owner[p.focus])
      \/ q = SetPointer(left, None)
  BY DEF Leave
<1> HIDE DEF left, q
<1>3. /\ SetPointer(left, None) \in Pointer
      /\ SetPointer(left, None).focus = left.focus
      /\ SetPointer(left, None).list = left.list
      /\ SetPointer(left, None).entered = left.entered
      /\ SetPointer(left, None).cursor = None
      /\ SetPointer(left, None).told = left.told
  BY <1>1 DEF SetPointer, Pointer
<1> QED BY <1>1, <1>2, <1>3 DEF Answered, q

\* wstPointerSetFocus keeps a consistent pointer consistent and answers its enters.
LEMMA SetFocusResult ==
  ASSUME TypeOK, NEW p \in Pointer, NEW s \in Live \cup {None},
         NEW pnt \in [Pointers -> Clients \cup {None}],
         Consistent(p, owner, pnt), Answered(p)
  PROVE  LET q == SetFocus(p, s, pnt)
         IN  /\ Consistent(q, owner, pnt) /\ Answered(q)
             /\ q.focus = s /\ q.cursor \in {p.cursor, None} /\ q.entered = p.entered
             /\ (/\ p.focus # None /\ p.focus # s /\ p.cursor # None
                 /\ owner[p.focus] = owner[p.cursor])
                  => q.cursor = None
<1> DEFINE left == IF p.focus # None THEN Leave(p) ELSE p
           q == SetFocus(p, s, pnt)
<1>1. /\ owner \in [Surfaces -> Clients \cup {None}]
      /\ s # None => s \in Surfaces /\ owner[s] # None
      /\ None \notin Surfaces
  BY PointerAssumption DEF TypeOK, Live
<1>2. CASE p.focus = s
  BY <1>2 DEF SetFocus
<1>3. CASE p.focus # s
  <2>1. /\ left \in Pointer
        /\ left.focus = None /\ left.list = p.list /\ left.entered = p.entered
        /\ left.cursor \in {None, p.cursor}
        /\ (p.focus # None /\ p.cursor # None /\ owner[p.cursor] = owner[p.focus])
             => left.cursor = None
        /\ \A k \in Pointers : left.told[k] = None
    <3>1. CASE p.focus = None
      BY <3>1 DEF Answered
    <3>2. CASE p.focus # None
      BY <3>2, LeaveResult
    <3> QED BY <3>1, <3>2
  <2>2. /\ s # None => q = EnterClientOf(left, s, pnt)
        /\ s = None => q = left \/ q = SetPointer(left, None)
    BY <1>3 DEF SetFocus
  <2> HIDE DEF left, q
  <2>3. CASE s # None
    <3>1. left.cursor # None => owner[left.cursor] # None
      BY <2>1 DEF Consistent
    <3> QED BY <1>1, <2>1, <2>2, <2>3, <3>1, EnterResult DEF q
  <2>4. CASE s = None
    <3>1. /\ SetPointer(left, None) \in Pointer
          /\ SetPointer(left, None).focus = left.focus
          /\ SetPointer(left, None).list = left.list
          /\ SetPointer(left, None).entered = left.entered
          /\ SetPointer(left, None).cursor = None
          /\ SetPointer(left, None).told = left.told
      BY <2>1 DEF SetPointer, Pointer
    <3> QED BY <2>1, <2>2, <2>4, <3>1 DEF Consistent, Answered, q
  <2> QED BY <2>3, <2>4
<1> QED BY <1>2, <1>3

\* So does wstPointerCheckFocus, which leaves a repeater alone and gives the focus to a
\* surface among those it looks at.
LEMMA CheckFocusResult ==
  ASSUME TypeOK, NEW p \in Pointer, NEW alive \in SUBSET Live, NEW roles,
         NEW pnt \in [Pointers -> Clients \cup {None}],
         Consistent(p, owner, pnt), ~IsRepeater => Answered(p),
         NEW q \in CheckFocus(p, alive, roles, pnt)
  PROVE  /\ Consistent(q, owner, pnt)
         /\ ~IsRepeater => Answered(q)
         /\ IsRepeater => q = p
         /\ q.focus \in alive \cup {None, p.focus}
         /\ q.cursor \in {p.cursor, None} /\ q.entered = p.entered
         /\ (/\ p.focus # None /\ q.focus # p.focus /\ p.cursor # None
             /\ owner[p.focus] = owner[p.cursor])
              => q.cursor = None
<1>1. CASE IsRepeater
  BY <1>1 DEF CheckFocus
<1>2. CASE ~IsRepeater
  <2>1. PICK s \in alive \cup {None} : q = SetFocus(p, s, pnt)
    BY <1>2 DEF CheckFocus, UnderPointer
  <2>2. s \in Live \cup {None}
    BY <2>1
  <2> QED BY <1>2, <2>1, <2>2, SetFocusResult
<1> QED BY <1>1, <1>2

\* What wstSurfaceDestroy does first removes the surface from the pointer and from the
\* clients' view of it.
LEMMA ForgetSurfaceResult ==
  ASSUME TypeOK, Consistent(ptr, owner, pntClient), NEW s \in Surfaces
  PROVE  LET p == ForgetSurface(ptr, s)
         IN  /\ Consistent(p, owner, pntClient)
             /\ p.focus # s /\ p.cursor # s
             /\ p.focus \in {ptr.focus, None} /\ p.cursor \in {ptr.cursor, None}
             /\ Answered(ptr) => Answered(p)
             /\ (ptr.focus = s /\ ~dc.defaultCursor) => p.cursor = None
<1> DEFINE unfocused == IF ptr.focus # s THEN ptr
                        ELSE IF dc.defaultCursor THEN [ptr EXCEPT !.focus = None]
                        ELSE SetPointer([ptr EXCEPT !.focus = None], None)
           blank == IF unfocused.cursor = s THEN SetPointer(unfocused, None) ELSE unfocused
           p == ForgetSurface(ptr, s)
<1>1. None \notin Surfaces /\ ptr \in Pointer
  BY PointerAssumption DEF TypeOK
<1>2. /\ unfocused \in Pointer /\ unfocused.list = ptr.list /\ unfocused.told = ptr.told
      /\ unfocused.focus = IF ptr.focus = s THEN None ELSE ptr.focus
      /\ unfocused.cursor \in {ptr.cursor, None}
      /\ (ptr.focus = s /\ ~dc.defaultCursor) => unfocused.cursor = None
  BY <1>1 DEF Pointer, SetPointer
<1>3. /\ blank \in Pointer /\ blank.list = ptr.list /\ blank.told = ptr.told
      /\ blank.focus = unfocused.focus
      /\ blank.cursor = IF unfocused.cursor = s THEN None ELSE unfocused.cursor
  <2> HIDE DEF unfocused
  <2> QED BY <1>2 DEF Pointer, SetPointer
<1>4. p = [blank EXCEPT !.told = [k \in Pointers |-> IF ptr.told[k] = s THEN None
                                                     ELSE ptr.told[k]]]
  BY DEF ForgetSurface
<1> HIDE DEF blank, p, unfocused
<1>5. /\ p \in Pointer /\ p.list = ptr.list
      /\ p.focus = blank.focus /\ p.cursor = blank.cursor
      /\ \A k \in Pointers : p.told[k] = IF ptr.told[k] = s THEN None ELSE ptr.told[k]
  BY <1>1, <1>3, <1>4 DEF Pointer
<1> QED BY <1>1, <1>2, <1>3, <1>5 DEF Consistent, Answered, Pointer, p

--------------------------------------------------------------------------------
(* The actions. *)

\* Initially nobody has the pointer.
LEMMA InitInv == Init => IInv
<1> SUFFICES ASSUME Init PROVE IInv
  OBVIOUS
<1>1. ptr \in Pointer
  BY DEF Init, Pointer
<1>2. TypeOK
  BY <1>1, PointerAssumption DEF Init, TypeOK, Roles
<1> QED BY <1>2 DEF Init, IInv, PointersLive, EventsFollowEnter, LeaveBeforeEnter, ListTold,
                    RepeaterHasNoCursor

\* An action that leaves the pointer alone, and only adds surfaces and pointers.
LEMMA PointerUntouched ==
  ASSUME IInv, TypeOK', UNCHANGED <<mode, ptr>>,
         \A s \in Surfaces : owner[s] # None => owner'[s] = owner[s],
         \A k \in Pointers : pntClient[k] # None => pntClient'[k] = pntClient[k]
  PROVE  IInv'
<1>1. ptr \in Pointer /\ ptr.list \subseteq Pointers
  BY DEF IInv, TypeOK, Pointer
<1> QED BY <1>1, PointerAssumption
  DEF IInv, TypeOK, PointersLive, Live, EventsFollowEnter, LeaveBeforeEnter, ListTold,
      RepeaterHasNoCursor, IsRepeater, Pointer

\* Requests and calls that do not touch the pointer.
LEMMA OtherActionInv ==
  ASSUME IInv,
         \/ UNCHANGED vars
         \/ \E c \in Clients : \/ \E s \in Surfaces : CreateSurface(c, s)
                               \/ Disconnect(c)
                               \/ ForkDefaultCursor(c)
         \/ \E s \in Surfaces : SetShellRole(s)
         \/ ClientGone \/ SetDefaultCursor \/ DefaultCursorCleared \/ ParentForgets
  PROVE  IInv'
<1>1. /\ TypeOK'
      /\ UNCHANGED <<mode, ptr, pntClient>>
      /\ \A s \in Surfaces : owner[s] # None => owner'[s] = owner[s]
  <2> USE DEF IInv, TypeOK, objects, env, cursorCall
  <2>1. CASE UNCHANGED vars
    BY <2>1 DEF vars
  <2>2. ASSUME NEW c \in Clients, NEW s \in Surfaces, CreateSurface(c, s) PROVE <1>1!:
    BY <2>2 DEF CreateSurface, Roles
  <2>3. ASSUME NEW c \in Clients, Disconnect(c) PROVE <1>1!:
    BY <2>3 DEF Disconnect
  <2>4. ASSUME NEW c \in Clients, ForkDefaultCursor(c) PROVE <1>1!:
    BY <2>4 DEF ForkDefaultCursor
  <2>5. ASSUME NEW s \in Surfaces, SetShellRole(s) PROVE <1>1!:
    BY <2>5 DEF SetShellRole, Roles
  <2>6. CASE ClientGone
    <3>1. dc' \in [client : Clients \cup {None, Freed}, pid : Clients \cup {None},
                   defaultCursor : BOOLEAN]
      <4>1. CASE dcCall = "destroying"
        <5>1. dc' = [client |-> None, pid |-> None, defaultCursor |-> FALSE]
          BY <2>6, <4>1 DEF ClientGone
        <5> QED BY <5>1
      <4>2. CASE dcCall # "destroying"
        BY <2>6, <4>2 DEF ClientGone
      <4> QED BY <4>1, <4>2
    <3>2. dcCall' \in {"idle", "destroying", "cleared"}
      BY <2>6 DEF ClientGone
    <3>3. /\ dying' = None
          /\ UNCHANGED <<mode, owner, role, pntClient, ptr, slotSurface, parentFocus, crashed>>
      BY <2>6 DEF ClientGone
    <3> QED BY <3>1, <3>2, <3>3
  <2>7. CASE SetDefaultCursor
    BY <2>7 DEF SetDefaultCursor
  <2>8. CASE DefaultCursorCleared \/ ParentForgets
    BY <2>8 DEF DefaultCursorCleared, ParentForgets
  <2> QED BY <2>1, <2>2, <2>3, <2>4, <2>5, <2>6, <2>7, <2>8
<1> QED BY <1>1, PointerUntouched

LEMMA GetPointerInv ==
  ASSUME IInv, NEW c \in Clients, NEW k \in Pointers, GetPointer(c, k)
  PROVE  IInv'
<1>1. /\ pntClient[k] = None /\ pntClient' = [pntClient EXCEPT ![k] = c]
      /\ pntClient' \in [Pointers -> Clients \cup {None}]
      /\ UNCHANGED <<mode, owner, role, slotSurface, parentFocus, dying, dc, dcCall, crashed>>
      /\ ptr' = ptr \/ ptr' \in CheckFocus(ptr, Live, role, pntClient')
  BY DEF GetPointer, IInv, TypeOK, env, cursorCall
<1>2. Consistent(ptr, owner, pntClient') /\ (~IsRepeater => Answered(ptr))
  <2>1. k \notin ptr.list /\ ptr.list \subseteq Pointers
    BY <1>1, InvConsistent DEF IInv, TypeOK, EventsFollowEnter, Pointer
  <2>2. \A j \in ptr.list : pntClient'[j] = pntClient[j]
    BY <1>1, <2>1 DEF IInv, TypeOK
  <2> QED BY <2>2, InvConsistent DEF Consistent
<1>3. /\ Consistent(ptr', owner, pntClient') /\ (~IsRepeater => Answered(ptr'))
      /\ IsRepeater => ptr' = ptr
  <2>1. CASE ptr' = ptr
    BY <1>2, <2>1
  <2>2. CASE ptr' \in CheckFocus(ptr, Live, role, pntClient')
    <3>1. TypeOK /\ ptr \in Pointer /\ Live \in SUBSET Live
      BY DEF IInv, TypeOK
    <3> QED BY <1>1, <1>2, <2>2, <3>1, CheckFocusResult
  <2> QED BY <1>1, <2>1, <2>2
<1>4. TypeOK'
  BY <1>1, <1>3 DEF IInv, TypeOK, Consistent
<1>5. IsRepeater' = IsRepeater
  BY <1>1 DEF IsRepeater
<1> QED BY <1>1, <1>3, <1>4, <1>5, ConsistentInv DEF IInv, RepeaterHasNoCursor

LEMMA ReleasePointerInv ==
  ASSUME IInv, NEW k \in Pointers, ReleasePointer(k)
  PROVE  IInv'
<1>1. /\ pntClient' = [pntClient EXCEPT ![k] = None]
      /\ ptr' = [ptr EXCEPT !.list = @ \ {k}, !.told[k] = None]
      /\ UNCHANGED <<mode, owner, role, slotSurface, parentFocus, dying, dc, dcCall, crashed>>
  BY DEF ReleasePointer, env, cursorCall
<1>2. /\ ptr' \in Pointer
      /\ ptr'.focus = ptr.focus /\ ptr'.cursor = ptr.cursor /\ ptr'.list = ptr.list \ {k}
      /\ \A j \in Pointers : ptr'.told[j] = IF j = k THEN None ELSE ptr.told[j]
  BY <1>1 DEF IInv, TypeOK, Pointer
<1>3. TypeOK'
  BY <1>1, <1>2 DEF IInv, TypeOK
<1>4. \A j \in ptr'.list : j \in ptr.list /\ j \in Pointers /\ pntClient'[j] = pntClient[j]
  BY <1>1, <1>2 DEF IInv, TypeOK, Pointer
<1>5. Consistent(ptr', owner', pntClient') /\ (~IsRepeater => Answered(ptr'))
  BY <1>1, <1>2, <1>4, InvConsistent DEF Consistent, Answered
<1>6. IsRepeater' = IsRepeater
  BY <1>1 DEF IsRepeater
<1> QED BY <1>2, <1>3, <1>5, <1>6, ConsistentInv DEF IInv, RepeaterHasNoCursor

\* The surface is forgotten before the focus is looked for among the others.
LEMMA SurfaceDestroyInv ==
  ASSUME IInv, NEW s \in Surfaces, SurfaceDestroy(s)
  PROVE  IInv'
<1> DEFINE p == ForgetSurface(ptr, s)
<1>1. /\ owner' = [owner EXCEPT ![s] = None] /\ role' = [role EXCEPT ![s] = "none"]
      /\ ptr' \in CheckFocus(p, Live \ {s}, role, pntClient)
      /\ UNCHANGED <<mode, pntClient, slotSurface, parentFocus, dying, dc, dcCall, crashed>>
  BY DEF SurfaceDestroy, env, cursorCall
<1>2. /\ Consistent(p, owner, pntClient) /\ (~IsRepeater => Answered(p))
      /\ p.focus # s /\ p.cursor # s /\ p.cursor \in {ptr.cursor, None}
  BY InvConsistent, ForgetSurfaceResult DEF IInv
<1> HIDE DEF p
<1>3. /\ Consistent(ptr', owner, pntClient) /\ (~IsRepeater => Answered(ptr'))
      /\ IsRepeater => ptr' = p
      /\ ptr'.focus # s /\ ptr'.cursor # s
  <2>1. p \in Pointer /\ TypeOK /\ Live \ {s} \in SUBSET Live
        /\ pntClient \in [Pointers -> Clients \cup {None}]
    BY <1>2 DEF Consistent, IInv, TypeOK
  <2>2. /\ Consistent(ptr', owner, pntClient) /\ (~IsRepeater => Answered(ptr'))
        /\ IsRepeater => ptr' = p
        /\ ptr'.focus \in (Live \ {s}) \cup {None, p.focus}
        /\ ptr'.cursor \in {p.cursor, None}
    BY <1>1, <1>2, <2>1, CheckFocusResult
  <2> QED BY <1>2, <2>2, PointerAssumption
<1>4. Consistent(ptr', owner', pntClient')
  <2>1. ptr' \in Pointer
    BY <1>3 DEF Consistent
  <2>2. /\ ptr'.focus # None => owner'[ptr'.focus] = owner[ptr'.focus]
        /\ ptr'.cursor # None => owner'[ptr'.cursor] = owner[ptr'.cursor]
    BY <1>1, <1>3, <2>1 DEF Pointer, IInv, TypeOK
  <2> QED BY <1>1, <1>3, <2>2 DEF Consistent
<1>5. TypeOK'
  BY <1>1, <1>3 DEF IInv, TypeOK, Consistent, Roles
<1>6. IsRepeater' = IsRepeater
  BY <1>1 DEF IsRepeater
<1> QED BY <1>2, <1>3, <1>4, <1>5, <1>6, ConsistentInv DEF IInv, RepeaterHasNoCursor

\* wl_pointer.set_cursor: only the cursor changes, to a live surface of the caller.
LEMMA SetCursorInv ==
  ASSUME IInv, NEW c \in Clients, NEW s \in Surfaces \cup {None}, SetCursor(c, s)
  PROVE  IInv'
<1>1. /\ UNCHANGED <<mode, owner, pntClient, slotSurface, parentFocus, dying, dcCall, crashed>>
      /\ role' \in [Surfaces -> Roles]
      /\ s # None => owner[s] # None
  BY PointerAssumption DEF SetCursor, IInv, TypeOK, env, Roles
<1>2. ptr' = ptr \/ (~IsRepeater /\ ptr' = [ptr EXCEPT !.cursor = s])
  BY DEF SetCursor, SetPointer
<1>3. dc' \in [client : Clients \cup {None, Freed}, pid : Clients \cup {None},
               defaultCursor : BOOLEAN]
  <2>1. \/ dc' = dc
        \/ dc' = [dc EXCEPT !.client = c, !.defaultCursor = TRUE]
    BY DEF SetCursor
  <2> QED BY <2>1 DEF IInv, TypeOK
<1>4. /\ ptr' \in Pointer /\ ptr'.focus = ptr.focus /\ ptr'.list = ptr.list
      /\ ptr'.told = ptr.told
      /\ ptr'.cursor = ptr.cursor \/ (~IsRepeater /\ ptr'.cursor = s)
  BY <1>2 DEF IInv, TypeOK, Pointer
<1>5. TypeOK'
  BY <1>1, <1>3, <1>4 DEF IInv, TypeOK
<1>6. Consistent(ptr', owner', pntClient') /\ (~IsRepeater => Answered(ptr'))
  BY <1>1, <1>4, InvConsistent DEF Consistent, Answered
<1>7. IsRepeater' = IsRepeater
  BY <1>1 DEF IsRepeater
<1> QED BY <1>4, <1>5, <1>6, <1>7, ConsistentInv DEF IInv, RepeaterHasNoCursor

\* Enter, motion and leave inside the compositor.
LEMMA PointerEventInv ==
  ASSUME IInv, PointerEnter \/ PointerLeave \/ PointerMove
  PROVE  IInv'
<1>1. /\ UNCHANGED <<mode, owner, role, pntClient, slotSurface, parentFocus, dying, dc,
                    dcCall, crashed>>
      /\ ~IsRepeater
  BY DEF PointerEnter, PointerLeave, PointerMove, objects, env, cursorCall
<1>2. Consistent(ptr, owner, pntClient) /\ Answered(ptr) /\ ptr \in Pointer
  BY <1>1, InvConsistent DEF Consistent
<1>3. Consistent(ptr', owner, pntClient) /\ Answered(ptr')
  <2>1. CASE PointerEnter
    <3> DEFINE in == [ptr EXCEPT !.entered = TRUE]
    <3>1. /\ in \in Pointer /\ in.focus = ptr.focus /\ in.cursor = ptr.cursor
          /\ in.list = ptr.list /\ in.told = ptr.told
      BY <1>2 DEF Pointer
    <3>2. ptr' = in \/ ptr' \in CheckFocus(in, Live, role, pntClient)
      BY <2>1 DEF PointerEnter
    <3> HIDE DEF in
    <3>3. Consistent(in, owner, pntClient) /\ Answered(in)
      BY <1>2, <3>1 DEF Consistent, Answered
    <3> QED BY <3>1, <3>2, <3>3, CheckFocusResult, <1>1 DEF IInv, TypeOK
  <2>2. CASE PointerLeave
    <3> DEFINE q == SetFocus(ptr, None, pntClient)
    <3>1. Consistent(q, owner, pntClient) /\ Answered(q) /\ q.focus = None
      BY <1>2, SetFocusResult DEF IInv, TypeOK
    <3>2. ptr' = [SetPointer(q, None) EXCEPT !.entered = FALSE]
      BY <2>2 DEF PointerLeave
    <3> HIDE DEF q
    <3>3. /\ ptr' \in Pointer /\ ptr'.focus = None /\ ptr'.cursor = None
          /\ ptr'.list = q.list /\ ptr'.told = q.told
      BY <3>1, <3>2 DEF Consistent, SetPointer, Pointer
    <3> QED BY <3>1, <3>3 DEF Consistent, Answered
  <2>3. CASE PointerMove
    <3>1. ptr' \in CheckFocus(ptr, Live, role, pntClient)
      BY <2>3 DEF PointerMove
    <3> QED BY <1>1, <1>2, <3>1, CheckFocusResult DEF IInv, TypeOK
  <2> QED BY <2>1, <2>2, <2>3
<1>4. TypeOK'
  BY <1>1, <1>3 DEF IInv, TypeOK, Consistent
<1>5. IsRepeater' = IsRepeater
  BY <1>1 DEF IsRepeater
<1> QED BY <1>1, <1>3, <1>4, <1>5, ConsistentInv

\* Enter and leave that a repeater passes on.
LEMMA RepeaterEventInv ==
  ASSUME IInv,
         \/ \E s \in Surfaces, i \in Slots : RepeaterEnter(s, i)
         \/ \E i \in Slots : RepeaterLeave(i)
  PROVE  IInv'
<1>1. /\ UNCHANGED <<mode, owner, role, pntClient, dying, dc, dcCall>>
      /\ IsRepeater
  BY DEF RepeaterEnter, RepeaterLeave, objects, cursorCall
<1>2. /\ slotSurface' \in [Slots -> Surfaces \cup {None}]
      /\ parentFocus' \in Surfaces \cup {None}
      /\ crashed' \in BOOLEAN
  BY DEF RepeaterEnter, RepeaterLeave, IInv, TypeOK
<1>3. Consistent(ptr, owner, pntClient) /\ ptr \in Pointer
  BY InvConsistent DEF Consistent
<1>4. Consistent(ptr', owner, pntClient) /\ ptr'.cursor = ptr.cursor
  <2>1. CASE ptr' = ptr
    BY <1>3, <2>1
  <2>2. ASSUME NEW s \in Live, ptr' = EnterClientOf(ptr, s, pntClient)
        PROVE  <1>4!:
    BY <1>3, <2>2, EnterResult DEF IInv, TypeOK, Live, Consistent
  <2>3. CASE ptr' = [ptr EXCEPT !.focus = None,
                                !.told = [k \in Pointers |-> IF k \in ptr.list THEN None
                                                             ELSE ptr.told[k]]]
    <3>1. /\ ptr' \in Pointer /\ ptr'.focus = None /\ ptr'.cursor = ptr.cursor
          /\ ptr'.list = ptr.list
      BY <1>3, <2>3 DEF Pointer
    <3> QED BY <1>3, <3>1 DEF Consistent
  <2> QED BY <2>1, <2>2, <2>3 DEF RepeaterEnter, RepeaterLeave
<1>5. TypeOK'
  BY <1>1, <1>2, <1>4 DEF IInv, TypeOK, Consistent
<1>6. IsRepeater' = IsRepeater
  BY <1>1 DEF IsRepeater
<1> QED BY <1>1, <1>4, <1>5, <1>6, ConsistentInv DEF IInv, RepeaterHasNoCursor

\* Every step keeps the invariant.
LEMMA StepInv == IInv /\ [Next]_vars => IInv'
<1> SUFFICES ASSUME IInv, [Next]_vars
             PROVE  IInv'
  OBVIOUS
<1> QED BY OtherActionInv, GetPointerInv, ReleasePointerInv, SurfaceDestroyInv, SetCursorInv,
           PointerEventInv, RepeaterEventInv DEF Next

\* The inductive invariant holds in every reachable state.
THEOREM InvariantHolds == Spec => []IInv
BY InitInv, StepInv, PTL DEF Spec

\* The pointer state is well-typed in every reachable state.
THEOREM TypeCorrect == Spec => []TypeOK
<1>1. IInv => TypeOK BY DEF IInv
<1> QED BY <1>1, InvariantHolds, PTL

\* pointer->focus and pointer->pointerSurface never dangle.
THEOREM PointersNeverDangle == Spec => []PointersLive
<1>1. IInv => PointersLive BY DEF IInv
<1> QED BY <1>1, InvariantHolds, PTL

\* Motion and buttons go to pointers of the focused client that were told so.
THEOREM EventsReachWhoEntered == Spec => []EventsFollowEnter
<1>1. IInv => EventsFollowEnter BY DEF IInv
<1> QED BY <1>1, InvariantHolds, PTL

\* Nobody but the client with the focus believes it has the pointer.
THEOREM EntersAreAnswered == Spec => []LeaveBeforeEnter
<1>1. IInv => LeaveBeforeEnter BY DEF IInv
<1> QED BY <1>1, InvariantHolds, PTL

\* The focused client's cursor goes when the focus leaves its surface, whatever takes
\* the focus away.
THEOREM CursorGoesWithFocus == Spec => CursorLeavesWithFocus
<1> DEFINE Goes == (/\ ptr.focus # None /\ ptr.cursor # None
                    /\ owner[ptr.focus] = owner[ptr.cursor]
                    /\ ptr'.focus # ptr.focus /\ ~dc.defaultCursor)
                     => ptr'.cursor = None
<1>1. IInv /\ [Next]_vars => [Goes]_vars
  <2> SUFFICES ASSUME IInv, Next,
                      ptr.focus # None, ptr.cursor # None,
                      owner[ptr.focus] = owner[ptr.cursor],
                      ptr'.focus # ptr.focus, ~dc.defaultCursor
               PROVE  ptr'.cursor = None
    OBVIOUS
  <2>1. /\ Consistent(ptr, owner, pntClient) /\ ptr \in Pointer /\ TypeOK
        /\ ~IsRepeater /\ Answered(ptr)
        /\ pntClient \in [Pointers -> Clients \cup {None}]
    BY InvConsistent DEF Consistent, IInv, TypeOK, RepeaterHasNoCursor
  <2>2. ASSUME NEW pnt \in [Pointers -> Clients \cup {None}], NEW in \in Pointer,
               Consistent(in, owner, pnt), Answered(in),
               in.focus = ptr.focus, in.cursor = ptr.cursor,
               ptr' \in CheckFocus(in, Live, role, pnt)
        PROVE  ptr'.cursor = None
    BY <2>1, <2>2, CheckFocusResult
  <2>3. ASSUME NEW c \in Clients, NEW k \in Pointers, GetPointer(c, k)
        PROVE  ptr'.cursor = None
    <3>1. /\ pntClient' \in [Pointers -> Clients \cup {None}]
          /\ ptr' \in CheckFocus(ptr, Live, role, pntClient')
      BY <2>3 DEF GetPointer, IInv, TypeOK
    <3>2. Consistent(ptr, owner, pntClient')
      <4>1. \A j \in ptr.list : pntClient'[j] = pntClient[j]
        BY <2>1, <2>3 DEF GetPointer, Consistent, Pointer, TypeOK
      <4> QED BY <2>1, <4>1 DEF Consistent
    <3> QED BY <2>1, <2>2, <3>1, <3>2
  <2>4. ASSUME NEW s \in Surfaces, SurfaceDestroy(s)
        PROVE  ptr'.cursor = None
    <3> DEFINE p == ForgetSurface(ptr, s)
    <3>1. /\ Consistent(p, owner, pntClient) /\ Answered(p)
          /\ p.focus \in {ptr.focus, None} /\ p.cursor \in {ptr.cursor, None}
          /\ ptr.focus = s => p.cursor = None
          /\ ptr.focus # s => p.focus = ptr.focus
      <4>1. /\ Consistent(p, owner, pntClient) /\ Answered(p)
            /\ p.focus \in {ptr.focus, None} /\ p.cursor \in {ptr.cursor, None}
            /\ ptr.focus = s => p.cursor = None
        BY <2>1, ForgetSurfaceResult
      <4>2. ptr.focus # s => p.focus = ptr.focus
        BY <2>1 DEF ForgetSurface, SetPointer, Pointer
      <4> QED BY <4>1, <4>2
    <3>2. ptr' \in CheckFocus(p, Live \ {s}, role, pntClient)
      BY <2>4 DEF SurfaceDestroy
    <3> HIDE DEF p
    <3>3. p \in Pointer /\ Live \ {s} \in SUBSET Live
      BY <3>1 DEF Consistent
    <3> QED BY <2>1, <3>1, <3>2, <3>3, CheckFocusResult
  <2>5. CASE PointerEnter
    <3> DEFINE in == [ptr EXCEPT !.entered = TRUE]
    <3>1. /\ in \in Pointer /\ in.focus = ptr.focus /\ in.cursor = ptr.cursor
          /\ in.list = ptr.list /\ in.told = ptr.told
      BY <2>1 DEF Pointer
    <3>2. ptr' = in \/ ptr' \in CheckFocus(in, Live, role, pntClient)
      BY <2>5 DEF PointerEnter
    <3> HIDE DEF in
    <3>3. Consistent(in, owner, pntClient) /\ Answered(in)
      BY <2>1, <3>1 DEF Consistent, Answered
    <3> QED BY <2>1, <2>2, <3>1, <3>2, <3>3
  <2>6. CASE PointerLeave
    <3> DEFINE q == SetFocus(ptr, None, pntClient)
    <3>1. q \in Pointer
      BY <2>1, SetFocusResult DEF Consistent
    <3>2. ptr' = [SetPointer(q, None) EXCEPT !.entered = FALSE]
      BY <2>6 DEF PointerLeave
    <3> HIDE DEF q
    <3> QED BY <3>1, <3>2 DEF SetPointer, Pointer
  <2>7. CASE PointerMove
    BY <2>1, <2>2, <2>7 DEF PointerMove
  <2>8. CASE \/ \E k \in Pointers : ReleasePointer(k)
             \/ \E c \in Clients, s \in Surfaces \cup {None} : SetCursor(c, s)
    BY <2>1, <2>8 DEF ReleasePointer, SetCursor, SetPointer, Pointer
  <2>9. CASE \/ \E s \in Surfaces, i \in Slots : RepeaterEnter(s, i)
             \/ \E i \in Slots : RepeaterLeave(i)
    BY <2>1, <2>9 DEF RepeaterEnter, RepeaterLeave
  <2>10. CASE \/ \E c \in Clients : \/ \E s \in Surfaces : CreateSurface(c, s)
                                    \/ Disconnect(c)
                                    \/ ForkDefaultCursor(c)
              \/ \E s \in Surfaces : SetShellRole(s)
              \/ ClientGone \/ SetDefaultCursor \/ DefaultCursorCleared \/ ParentForgets
    BY <2>10 DEF CreateSurface, Disconnect, ForkDefaultCursor, SetShellRole, ClientGone,
                 SetDefaultCursor, DefaultCursorCleared, ParentForgets
  <2> QED BY <2>3, <2>4, <2>5, <2>6, <2>7, <2>8, <2>9, <2>10 DEF Next
<1> QED BY <1>1, InvariantHolds, PTL DEF Spec, CursorLeavesWithFocus
================================================================================

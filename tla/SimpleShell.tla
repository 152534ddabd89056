------------------------------ MODULE SimpleShell ------------------------------
(***************************************************************************)
(* The announcements of the simple shell (westeros-simpleshell.cpp): every *)
(* client that has bound wl_simple_shell is told when any client's surface *)
(* is created, named, changed or destroyed.                                *)
(*                                                                         *)
(* When the creator has bound the shell itself, the announcement of a new  *)
(* surface waits for 2 seconds, or until the creator has named it, in a    *)
(* list that one timer serves.  Time is left out: at least the first of    *)
(* the list is due when the timer fires.                                   *)
(***************************************************************************)
EXTENDS SurfaceIds, Naturals, Sequences, FiniteSets, SequencesExt

CONSTANT Shells  \* wl_simple_shell resources, each of a client of its own

VARIABLES
  bound,       \* shell->shells
  ids,         \* shell->surfaces
  past,        \* ids of destroyed surfaces
  pending,     \* shell->pendingCreateBroadcast
  timer,       \* delayTimer is armed
  told         \* what each client knows of each surface

shellVars == <<bound, ids, past, pending, timer, told>>

\* unknown: nothing yet.  listed: the surface is older than the client's shell.
\* created: surface_created came, once.  destroyed: surface_destroyed came last.
\* confused: created came twice, or something came after destroyed.
News == {"unknown", "listed", "created", "destroyed", "confused"}

New(s) == s \notin ids \cup past

--------------------------------------------------------------------------------
\* wstSimpleShellBroadcastCreation, for each of some surfaces.
BroadcastCreation(known, created) ==
  [o \in Shells |->
     IF o \in bound
     THEN [s \in Ids |->
             IF s \notin created THEN known[o][s]
             ELSE IF known[o][s] \in {"unknown", "listed"} THEN "created" ELSE "confused"]
     ELSE known[o]]

\* wstSimpleShellBroadcastSurfaceUpdate: everyone but the client that asked.
BroadcastStatus(known, s, asker) ==
  [o \in Shells |->
     IF o \in bound /\ o # asker /\ s \in past
     THEN [known[o] EXCEPT ![s] = "confused"] ELSE known[o]]

\* wstSimpleShellBind
Bind(o) ==
  /\ o \notin bound
  /\ bound' = bound \cup {o}
  /\ told' = [told EXCEPT ![o] = [s \in Ids |-> IF New(s) THEN "unknown"
                                                ELSE IF s \in ids THEN "listed"
                                                ELSE "destroyed"]]
  /\ UNCHANGED <<ids, past, pending, timer>>

\* destroy_shell
Unbind(o) ==
  /\ o \in bound
  /\ bound' = bound \ {o}
  /\ told' = [told EXCEPT ![o] = [s \in Ids |-> "unknown"]]
  /\ UNCHANGED <<ids, past, pending, timer>>

\* Variant: the timer is left to the caller of the previous surface.
SurfaceCreatedUntimed(s, creator) ==
  /\ New(s)
  /\ ids' = ids \cup {s}
  /\ IF creator \in bound
     THEN pending' = Append(pending, s) /\ UNCHANGED <<told, timer>>
     ELSE told' = BroadcastCreation(told, {s}) /\ UNCHANGED <<pending, timer>>
  /\ UNCHANGED <<bound, past>>

\* WstSimpleShellNotifySurfaceCreated; creator is the shell of the client that made the
\* surface, bound or not.
SurfaceCreated(s, creator) ==
  /\ New(s)
  /\ ids' = ids \cup {s}
  /\ IF creator \in bound
     THEN /\ pending' = Append(pending, s)
          /\ timer' = (timer \/ pending = << >>)
          /\ UNCHANGED told
     ELSE told' = BroadcastCreation(told, {s}) /\ UNCHANGED <<pending, timer>>
  /\ UNCHANGED <<bound, past>>

\* WstSimpleShellNotifySurfaceDestroyed: an announcement that is still pending stays.
SurfaceDestroyed(s) ==
  /\ s \in ids
  /\ ids' = ids \ {s}
  /\ past' = past \cup {s}
  /\ told' = [o \in Shells |-> IF o \in bound THEN [told[o] EXCEPT ![s] = "destroyed"]
                               ELSE told[o]]
  /\ UNCHANGED <<bound, pending, timer>>

\* wstISimpleShellSetName, by any client that has heard of s: a pending announcement is
\* made at once.
SetName(s, asker) ==
  /\ asker \in bound
  /\ s \in ids \cup past
  /\ pending' = RemoveFirst(pending, s)
  /\ told' = BroadcastStatus(BroadcastCreation(told, {s} \cap ToSet(pending)), s, asker)
  /\ UNCHANGED <<bound, ids, past, timer>>

\* wstISimpleShellSetVisible, SetGeometry, SetOpacity, SetZOrder: what they change is
\* in the surface.
Changed(s, asker) ==
  /\ asker \in bound
  /\ s \in ids \cup past
  /\ told' = BroadcastStatus(told, s, asker)
  /\ UNCHANGED <<bound, ids, past, pending, timer>>

\* Variant: the timer is not armed for what remains.
TimeOutOnce ==
  /\ timer
  /\ \E n \in 0..Len(pending) :
       /\ n = 0 <=> pending = << >>
       /\ told' = BroadcastCreation(told, ToSet(SubSeq(pending, 1, n)))
       /\ pending' = SubSeq(pending, n + 1, Len(pending))
       /\ timer' = FALSE
  /\ UNCHANGED <<bound, ids, past>>

\* wstSimpleShellTimeOut: announce the first, and all that are due; then wait for the
\* next.
TimeOut ==
  /\ timer
  /\ \E n \in 0..Len(pending) :
       /\ n = 0 <=> pending = << >>
       /\ told' = BroadcastCreation(told, ToSet(SubSeq(pending, 1, n)))
       /\ pending' = SubSeq(pending, n + 1, Len(pending))
       /\ timer' = (n < Len(pending))
  /\ UNCHANGED <<bound, ids, past>>

--------------------------------------------------------------------------------
ShellInit ==
  /\ bound = {} /\ ids = {} /\ past = {}
  /\ pending = << >>
  /\ timer = FALSE
  /\ told = [o \in Shells |-> [s \in Ids |-> "unknown"]]

ShellTypeOK ==
  /\ bound \subseteq Shells
  /\ ids \subseteq Ids /\ past \subseteq Ids /\ ids \cap past = {}
  /\ pending \in Seq(Ids)
  /\ timer \in BOOLEAN
  /\ told \in [Shells -> [Ids -> News]]

\* Every client with a shell is told of every surface, once: of one that lives, it has
\* been told, or the announcement is pending and the timer runs.
Announced ==
  /\ pending # << >> => timer
  /\ \A o \in bound, s \in ids :
       /\ told[o][s] \notin {"confused", "destroyed"}
       /\ told[o][s] = "unknown" => s \in ToSet(pending)

\* After surface_destroyed nothing more is said of a surface.
NoNewsOfTheDead == \A o \in bound, s \in past : told[o][s] # "confused"
================================================================================

---------------------------- MODULE NestedConnection ----------------------------
(***************************************************************************)
(* A compositor that its embedder configures (Settings), starts and stops, *)
(* and the connection a nested one has to its parent compositor            *)
(* (westeros-nested.cpp).                                                  *)
(*                                                                         *)
(* Threads: the embedder's, which makes the API calls; the compositor      *)
(* thread, whose own stages are those of Lifecycle, abridged; and one      *)
(* thread per connection, which dispatches what the parent sends and       *)
(* reports the end of the connection, from where the embedder may call     *)
(* WstCompositorStop.  Two API calls at the same time are left out.        *)
(***************************************************************************)
EXTENDS Settings, Naturals

CONSTANT MaxConnections   \* bound on the connections made

ASSUME ConnectionAssumption == MaxConnections \in Nat \ {0}

VARIABLES
  call,           \* position of the API call under way
  caller,         \* its thread: 0 for the embedder's, or a connection's
  host,           \* stage of the compositor thread
  displayRun,     \* display->run, inside libwayland
  foundRun,       \* the last Stop found the thread in wl_display_run (history)
  nc,             \* ctx->nc, 0 for none
  memory,         \* each connection: "none", "alive" or "freed"
  started,        \* nc->started
  stopRequested,  \* nc->stopRequested
  thread,         \* stage of each connection's thread
  link,           \* the socket: "open", "gone" when closed by either side
  reported,       \* terminatedCB has been called for it (history)
  unbegun,        \* connections whose thread had not begun when Stop looked (history)
  parent          \* what the parent does in this run: see Init

callVars == <<call, caller, foundRun>>
hostVars == <<host, displayRun>>
connVars == <<nc, memory, started, stopRequested, thread, link, reported,
              unbegun>>
vars == <<running, mutex, settingVars, callVars, hostVars, connVars, parent>>

Connections == 1..MaxConnections

ThreadStages == {"none", "created", "loop", "handler", "left", "cleared", "reporting",
                 "callback", "ended", "crashed"}

--------------------------------------------------------------------------------
(* The connection's thread, wstNestedThread. *)

\* Touch nc: undefined once it has been freed; a crash stands for all outcomes.
Touch(c, stage) ==
  thread' = [thread EXCEPT ![c] = IF memory[c] = "freed" THEN "crashed" ELSE stage]

ThreadBegins(c) ==
  /\ thread[c] = "created"
  /\ Touch(c, "loop")
  /\ started' = [started EXCEPT ![c] = TRUE]
  /\ UNCHANGED <<nc, memory, stopRequested, link, reported, unbegun, displayRun, mutex>>

\* An event from the parent is dispatched, or the loop is left.
Dispatch(c) ==
  /\ thread[c] = "loop"
  /\ \/ parent = "talks" /\ ~stopRequested[c] /\ link[c] = "open" /\ Touch(c, "handler")
     \/ (stopRequested[c] \/ link[c] = "gone") /\ Touch(c, "left")
  /\ UNCHANGED <<nc, memory, started, stopRequested, link, reported, unbegun, displayRun, mutex>>

\* wstDefaultNestedOutputHandleGeometry, Mode, Scale: the embedder's listener, or under
\* the mutex.
OutputHandler(c) ==
  /\ thread[c] = "handler"
  /\ listeners \/ mutex = "free"
  /\ Touch(c, "loop")
  /\ UNCHANGED <<nc, memory, started, stopRequested, link, reported, unbegun, displayRun, mutex>>

\* wstDefaultNestedKeyboardHandle*
KeyboardHandler(c) ==
  /\ thread[c] = "handler"
  /\ listeners \/ mutex = "free"
  /\ Touch(c, "loop")
  /\ UNCHANGED <<nc, memory, started, stopRequested, link, reported, unbegun, displayRun, mutex>>

\* wstDefaultNestedPointerHandle*
PointerHandler(c) ==
  /\ thread[c] = "handler"
  /\ listeners \/ mutex = "free"
  /\ Touch(c, "loop")
  /\ UNCHANGED <<nc, memory, started, stopRequested, link, reported, unbegun, displayRun, mutex>>

\* Variant: nc->started stays set until the end has been reported.
ThreadLeavesStarted(c) ==
  /\ thread[c] = "left"
  /\ Touch(c, "cleared")
  /\ UNCHANGED <<nc, memory, started, stopRequested, link, reported, unbegun, displayRun, mutex>>

ThreadLeaves(c) ==
  /\ thread[c] = "left"
  /\ Touch(c, "cleared")
  /\ started' = [started EXCEPT ![c] = FALSE]
  /\ UNCHANGED <<nc, memory, stopRequested, link, reported, unbegun, displayRun, mutex>>

\* Variant: the end is reported only while the thread runs.
ThreadLooksAtStarted(c) ==
  /\ thread[c] = "cleared"
  /\ Touch(c, IF stopRequested[c] \/ ~started[c] THEN "ended" ELSE "reporting")
  /\ UNCHANGED <<nc, memory, started, stopRequested, link, reported, unbegun, displayRun, mutex>>

ThreadLooks(c) ==
  /\ thread[c] = "cleared"
  /\ Touch(c, IF stopRequested[c] THEN "ended" ELSE "reporting")
  /\ UNCHANGED <<nc, memory, started, stopRequested, link, reported, unbegun, displayRun, mutex>>

\* wstDefaultNestedConnectionEnded, to the call of terminatedCB; it reads nc once more.
ConnectionEnded(c) ==
  /\ thread[c] = "reporting"
  /\ Touch(c, "callback")
  /\ displayRun' = IF memory[c] = "freed" THEN displayRun ELSE FALSE
  /\ reported' = [reported EXCEPT ![c] = memory[c] # "freed"]
  /\ UNCHANGED <<nc, memory, started, stopRequested, link, unbegun, mutex>>

\* The callback returns; a Stop it has called has returned.
CallbackReturns(c) ==
  /\ thread[c] = "callback"
  /\ call = "idle" \/ caller # c
  /\ thread' = [thread EXCEPT ![c] = "ended"]
  /\ UNCHANGED <<nc, memory, started, stopRequested, link, reported, unbegun, displayRun, mutex>>

ConnectionStep(c) ==
  /\ \/ ThreadBegins(c) \/ Dispatch(c)
     \/ OutputHandler(c) \/ KeyboardHandler(c) \/ PointerHandler(c)
     \/ ThreadLeaves(c) \/ ThreadLooks(c) \/ ConnectionEnded(c) \/ CallbackReturns(c)
  /\ UNCHANGED <<running, settingVars, callVars, host, parent>>

\* The parent closes the connection, or crashes, while somebody may notice.
ParentCloses(c) ==
  /\ parent # "stays"
  /\ thread[c] \in {"created", "loop", "handler"} /\ link[c] = "open"
  /\ link' = [link EXCEPT ![c] = "gone"]
  /\ UNCHANGED <<running, mutex, settingVars, callVars, hostVars, nc, memory, started,
                 stopRequested, thread, reported, unbegun, parent>>

--------------------------------------------------------------------------------
(* The compositor thread. *)

\* WstNestedConnectionCreate in wstCompositorThread, which may fail.
CreateConnection ==
  /\ host = "setup"
  /\ IF isNested
     THEN \/ \E c \in Connections :
               /\ memory[c] = "none" /\ \A d \in 1..(c - 1) : memory[d] # "none"
               /\ nc' = c
               /\ memory' = [memory EXCEPT ![c] = "alive"]
               /\ thread' = [thread EXCEPT ![c] = "created"]
               /\ link' = [link EXCEPT ![c] = "open"]
               /\ host' = "connected"
          \/ nc' = 0 /\ host' = "done" /\ UNCHANGED <<memory, thread, link>>
     ELSE host' = "connected" /\ UNCHANGED <<nc, memory, thread, link>>
  /\ UNCHANGED <<running, mutex, settingVars, callVars, displayRun, started, stopRequested,
                 reported, unbegun, parent>>

\* The rest of the set-up; a failure leaves the connection as it is.
SetUpEnds ==
  /\ host = "connected"
  /\ host' \in {"ready", "done"}
  /\ UNCHANGED <<running, mutex, settingVars, callVars, displayRun, connVars, parent>>

DisplayRuns ==
  /\ host = "ready"
  /\ host' = "run" /\ displayRun' = TRUE
  /\ UNCHANGED <<running, mutex, settingVars, callVars, connVars, parent>>

DisplayStops ==
  /\ host = "run" /\ ~displayRun
  /\ host' = "done"
  /\ UNCHANGED <<running, mutex, settingVars, callVars, displayRun, connVars, parent>>

HostStep == CreateConnection \/ SetUpEnds \/ DisplayRuns \/ DisplayStops

--------------------------------------------------------------------------------
(* API calls. *)

Configure ==
  /\ call = "idle"
  /\ \/ parent = "stays" /\ SetRendererModule
     \/ /\ parent = "stays"
        /\ \E b \in BOOLEAN : \/ SetIsNested(b) \/ SetIsRepeater(b) \/ SetIsEmbedded(b)
                              \/ SetNestedDisplayName(b)
     \/ SetNestedListeners
     \/ StartRefused
  /\ UNCHANGED <<callVars, hostVars, connVars, parent>>

StartCall ==
  /\ call = "idle"
  /\ isNested => \E c \in Connections : memory[c] = "none"
  /\ StartChecked
  /\ call' = "starting" /\ caller' = 0
  /\ host' = "setup"
  /\ UNCHANGED <<foundRun, displayRun, connVars, parent>>

StartReturns ==
  /\ call = "starting" /\ host \in {"ready", "run", "done"}
  /\ running' = (host # "done")
  /\ call' = "idle"
  /\ UNCHANGED <<mutex, settingVars, caller, foundRun, hostVars, connVars, parent>>

\* By the embedder, or by the terminatedCB of connection w.
StopCall(w) ==
  /\ call = "idle"
  /\ w # 0 => thread[w] = "callback"
  /\ StopSettings
  /\ displayRun' = FALSE
  /\ foundRun' = (host # "ready")
  /\ call' = "join" /\ caller' = w
  /\ UNCHANGED <<host, connVars, parent>>

\* The compositor thread has ended: take the mutex again, and release.
StopJoined ==
  /\ call = "join" /\ host = "done" /\ mutex = "free"
  /\ mutex' = "stop"
  /\ call' = "disconnect"
  /\ UNCHANGED <<running, settingVars, caller, foundRun, hostVars, connVars, parent>>

\* WstNestedConnectionDisconnect, and the start of WstNestedConnectionDestroy, which
\* does the same again: a thread that has begun is told to stop and waited for.
RequestStop(next) ==
  /\ IF nc # 0 /\ started[nc]
     THEN /\ stopRequested' = [stopRequested EXCEPT ![nc] = TRUE]
          /\ link' = [link EXCEPT ![nc] = "gone"]
          /\ call' = IF next = "destroy" THEN "joinFirst" ELSE "joinAgain"
     ELSE call' = next /\ UNCHANGED <<stopRequested, link>>
  /\ unbegun' = unbegun \cup {c \in Connections : c = nc /\ thread[c] = "created"}
  /\ UNCHANGED <<running, mutex, settingVars, caller, foundRun, hostVars, nc, memory,
                 started, thread, reported, parent>>

Disconnect == call = "disconnect" /\ RequestStop("destroy")
Destroy    == call = "destroy" /\ RequestStop("free")

\* Variant: the thread is not waited for.
ConnectionJoinedEarly ==
  /\ call \in {"joinFirst", "joinAgain"}
  /\ call' = IF call = "joinFirst" THEN "destroy" ELSE "free"
  /\ UNCHANGED <<running, mutex, settingVars, caller, foundRun, hostVars, connVars, parent>>

\* pthread_join of the connection's thread.
ConnectionJoined ==
  /\ call \in {"joinFirst", "joinAgain"} /\ thread[nc] = "ended"
  /\ call' = IF call = "joinFirst" THEN "destroy" ELSE "free"
  /\ UNCHANGED <<running, mutex, settingVars, caller, foundRun, hostVars, connVars, parent>>

\* The rest of WstNestedConnectionDestroy, and of Stop.
StopReturns ==
  /\ call = "free"
  /\ memory' = [c \in Connections |-> IF c = nc THEN "freed" ELSE memory[c]]
  /\ nc' = 0
  /\ StopDone
  /\ call' = "idle"
  /\ UNCHANGED <<caller, foundRun, hostVars, started, stopRequested, thread, link, reported,
                 unbegun, parent>>

Returns == \/ StartReturns \/ StopJoined \/ Disconnect \/ Destroy \/ ConnectionJoined
           \/ StopReturns

--------------------------------------------------------------------------------
\* To keep the instances small either the embedder changes its configuration in every
\* way, and the parent stays silent and alive, or a nested compositor has been
\* configured and the parent may close the connection, and may talk.
Init ==
  /\ parent \in {"stays", "closes", "talks"}
  /\ IF parent = "stays" THEN SettingsInit ELSE NestedConfigured
  /\ call = "idle" /\ caller = 0 /\ foundRun = FALSE
  /\ host = "done" /\ displayRun = FALSE
  /\ nc = 0
  /\ memory = [c \in Connections |-> "none"]
  /\ started = [c \in Connections |-> FALSE]
  /\ stopRequested = [c \in Connections |-> FALSE]
  /\ thread = [c \in Connections |-> "none"]
  /\ link = [c \in Connections |-> "gone"]
  /\ reported = [c \in Connections |-> FALSE]
  /\ unbegun = {}

Next == \/ Configure \/ StartCall \/ Returns \/ HostStep
        \/ \E w \in 0..MaxConnections : StopCall(w)
        \/ \E c \in Connections : ConnectionStep(c) \/ ParentCloses(c)

\* Threads that can go on do; the embedder and the parent need not.
Spec == /\ Init /\ [][Next]_vars
        /\ WF_vars(Returns) /\ WF_vars(HostStep)
        /\ \A c \in Connections : WF_vars(ConnectionStep(c))

--------------------------------------------------------------------------------
(* Properties. *)

ConnectionTypeOK ==
  /\ SettingsTypeOK
  /\ call \in {"idle", "starting", "join", "disconnect", "joinFirst", "destroy",
               "joinAgain", "free"}
  /\ caller \in 0..MaxConnections /\ nc \in 0..MaxConnections
  /\ parent \in {"stays", "closes", "talks"}
  /\ host \in {"setup", "connected", "ready", "run", "done"}
  /\ {displayRun, foundRun} \subseteq BOOLEAN
  /\ memory \in [Connections -> {"none", "alive", "freed"}]
  /\ started \in [Connections -> BOOLEAN] /\ stopRequested \in [Connections -> BOOLEAN]
  /\ thread \in [Connections -> ThreadStages]
  /\ link \in [Connections -> {"open", "gone"}]
  /\ reported \in [Connections -> BOOLEAN] /\ unbegun \subseteq Connections

\* A connection is never freed under a thread that has begun and still dispatches,
\* whoever stops the compositor and whenever the parent goes away.  (A thread that has
\* not begun when Stop looks, or is past the loop, is not waited for.)
FreedAfterThread ==
  \A c \in Connections :
    memory[c] = "freed" /\ c \notin unbegun => thread[c] \notin {"loop", "handler", "left"}

\* Stop returns when the parent is silent, from whichever thread it is called, and even
\* from the callback that reports the end of the very connection it releases.
QuietStopReturns ==
  (call = "join" /\ foundRun /\ parent # "talks") ~> (call = "idle" \/ mutex = "leaked")

\* When the parent goes away, the embedder is told, unless it is stopping itself; also
\* while the compositor is still starting, or has failed to start.
EndReported ==
  \A c \in Connections :
    (link[c] = "gone" /\ thread[c] = "loop")
      ~> (reported[c] \/ stopRequested[c] \/ memory[c] = "freed" \/ mutex = "leaked")

\* Not so, when the parent sends while Stop waits for the thread with the mutex:
\* "The compositor will halt all operation and release all resources".
NestedStopHalts == (call = "join" /\ foundRun) ~> (call = "idle" \/ mutex = "leaked")
================================================================================

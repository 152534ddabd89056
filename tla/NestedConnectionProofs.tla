------------------------- MODULE NestedConnectionProofs -------------------------
(***************************************************************************)
(* Safety of NestedConnection, for every number of connections and every   *)
(* set of platforms: a connection is never freed under a thread that has   *)
(* begun and still dispatches.                                             *)
(***************************************************************************)
EXTENDS NestedConnection, TLAPS

\* The stages at which a thread dispatches, and those before it has left the loop.
Dispatching == {"loop", "handler", "left"}
Unfinished  == {"created"} \cup Dispatching

\* What WstNestedConnectionDestroy reads to see whether a thread runs: nc->started is
\* set whenever the thread dispatches.
DispatchingIsStarted ==
  \A c \in Connections : thread[c] \in Dispatching => started[c]

\* The compositor thread has ended while Stop releases the connection, so that nobody
\* makes a new one at that time.
ReleaseAfterHost ==
  call \in {"disconnect", "joinFirst", "destroy", "joinAgain", "free"} => host = "done"

\* Only the thread of a connection is waited for.
JoinHasConnection == call \in {"joinFirst", "joinAgain"} => nc \in Connections

\* What Stop has seen to when it frees: the thread is past the loop, or it had not begun
\* when Stop looked.
AboutToFree ==
  call = "free" /\ nc \in Connections /\ nc \notin unbegun => thread[nc] \notin Unfinished

\* FreedAfterThread, and about the threads that have not begun yet.
FreedIsPast ==
  \A c \in Connections : memory[c] = "freed" /\ c \notin unbegun => thread[c] \notin Unfinished

IInv == /\ ConnectionTypeOK
        /\ DispatchingIsStarted
        /\ ReleaseAfterHost
        /\ JoinHasConnection
        /\ AboutToFree
        /\ FreedIsPast

--------------------------------------------------------------------------------
\* The settings keep their types through each call.
LEMMA SettingsInitType ==
  ASSUME SettingsInit \/ NestedConfigured
  PROVE  SettingsTypeOK
  BY DEF SettingsInit, NestedConfigured, SettingsTypeOK

LEMMA ConfigureType ==
  ASSUME SettingsTypeOK, Configure
  PROVE  SettingsTypeOK'
<1>1. CASE SetRendererModule
  BY <1>1 DEF SetRendererModule, Settable, SettingsTypeOK, Modes
<1>2. ASSUME NEW b \in BOOLEAN, SetIsNested(b)  PROVE SettingsTypeOK'
  BY <1>2 DEF SetIsNested, Settable, SettingsTypeOK, Names
<1>3. ASSUME NEW b \in BOOLEAN, SetIsRepeater(b)  PROVE SettingsTypeOK'
  <2>1. /\ UNCHANGED <<running, mutex, keymap, platform, isEmbedded, nestedDisplayName,
                       listeners>>
        /\ {isRepeater', isNested', rendererModule'} \subseteq BOOLEAN
    BY <1>3 DEF SetIsRepeater, Settable
  <2> QED BY <2>1 DEF SettingsTypeOK
<1>4. ASSUME NEW b \in BOOLEAN, SetIsEmbedded(b)  PROVE SettingsTypeOK'
  BY <1>4 DEF SetIsEmbedded, Settable, SettingsTypeOK, Names
<1>5. ASSUME NEW b \in BOOLEAN, SetNestedDisplayName(b)  PROVE SettingsTypeOK'
  BY <1>5 DEF SetNestedDisplayName, Settable, SettingsTypeOK, Modes
<1>6. CASE SetNestedListeners
  <2>1. /\ UNCHANGED <<running, isNested, isRepeater, isEmbedded, rendererModule,
                       nestedDisplayName, keymap, platform>>
        /\ mutex' \in {mutex, "leaked"} /\ listeners' \in {listeners, TRUE}
    BY <1>6 DEF SetNestedListeners, Modes, Names
  <2> QED BY <2>1 DEF SettingsTypeOK
<1>7. CASE StartRefused
  <2>1. /\ UNCHANGED <<running, isNested, isRepeater, isEmbedded, nestedDisplayName,
                       listeners, keymap, mutex, platform>>
        /\ rendererModule' \in BOOLEAN
    BY <1>7 DEF StartRefused, Modes
  <2> QED BY <2>1 DEF SettingsTypeOK
<1> QED BY <1>1, <1>2, <1>3, <1>4, <1>5, <1>6, <1>7 DEF Configure

LEMMA StartType ==
  ASSUME SettingsTypeOK, StartChecked
  PROVE  SettingsTypeOK'
<1>1. /\ UNCHANGED <<running, isNested, isRepeater, isEmbedded, listeners, mutex, platform>>
      /\ {rendererModule', nestedDisplayName', keymap'} \subseteq BOOLEAN
  BY DEF StartChecked, Modes
<1> QED BY <1>1 DEF SettingsTypeOK

LEMMA StopTypes ==
  ASSUME SettingsTypeOK, StopSettings \/ StopDone
  PROVE  SettingsTypeOK'
<1>1. CASE StopSettings
  BY <1>1 DEF StopSettings, SettingsTypeOK, Modes, Names
<1>2. CASE StopDone
  <2>1. /\ UNCHANGED <<running, isNested, isRepeater, isEmbedded, rendererModule,
                       nestedDisplayName, listeners, platform>>
        /\ keymap' \in BOOLEAN /\ mutex' = "free"
    BY <1>2 DEF StopDone, Modes, Names
  <2> QED BY <2>1 DEF SettingsTypeOK
<1> QED BY <1>1, <1>2

--------------------------------------------------------------------------------
(* One lemma per kind of step. *)

\* A connection's thread only moves on, and has started when it dispatches.
LEMMA ThreadMoves ==
  ASSUME IInv, NEW c \in Connections, ConnectionStep(c)
  PROVE  /\ UNCHANGED <<running, settingVars, mutex, callVars, host, nc, memory,
                       stopRequested, link, unbegun, parent>>
         /\ displayRun' \in BOOLEAN /\ reported' \in [Connections -> BOOLEAN]
         /\ started' \in [Connections -> BOOLEAN]
         /\ \A d \in Connections \ {c} : started'[d] = started[d]
         /\ \E stage \in ThreadStages :
              /\ thread' = [thread EXCEPT ![c] = stage]
              /\ stage \in Dispatching => started'[c]
              /\ stage \in Unfinished => thread[c] \in Unfinished
<1> USE DEF Touch, ThreadStages, Unfinished, Dispatching
<1>1. /\ UNCHANGED <<running, settingVars, callVars, host, parent>>
      /\ displayRun \in BOOLEAN /\ reported \in [Connections -> BOOLEAN]
      /\ started \in [Connections -> BOOLEAN] /\ thread \in [Connections -> ThreadStages]
      /\ thread[c] \in Dispatching => started[c]
  BY DEF ConnectionStep, IInv, ConnectionTypeOK, DispatchingIsStarted
<1>2. CASE ThreadBegins(c)
  BY <1>1, <1>2 DEF ThreadBegins
<1>3. CASE Dispatch(c)
  BY <1>1, <1>3 DEF Dispatch
<1>4. CASE OutputHandler(c) \/ KeyboardHandler(c) \/ PointerHandler(c)
  BY <1>1, <1>4 DEF OutputHandler, KeyboardHandler, PointerHandler
<1>5. CASE ThreadLeaves(c)
  BY <1>1, <1>5 DEF ThreadLeaves
<1>6. CASE ThreadLooks(c)
  BY <1>1, <1>6 DEF ThreadLooks
<1>7. CASE ConnectionEnded(c)
  BY <1>1, <1>7 DEF ConnectionEnded
<1>8. CASE CallbackReturns(c)
  BY <1>1, <1>8 DEF CallbackReturns
<1> QED BY <1>2, <1>3, <1>4, <1>5, <1>6, <1>7, <1>8 DEF ConnectionStep

LEMMA ThreadStep ==
  ASSUME IInv, NEW c \in Connections, ConnectionStep(c)
  PROVE  IInv'
<1>1. /\ UNCHANGED <<running, settingVars, mutex, callVars, host, nc, memory,
                    stopRequested, link, unbegun, parent>>
      /\ displayRun' \in BOOLEAN /\ reported' \in [Connections -> BOOLEAN]
      /\ started' \in [Connections -> BOOLEAN]
      /\ \A d \in Connections \ {c} : started'[d] = started[d]
  BY ThreadMoves
<1>2. PICK stage \in ThreadStages :
        /\ thread' = [thread EXCEPT ![c] = stage]
        /\ stage \in Dispatching => started'[c]
        /\ stage \in Unfinished => thread[c] \in Unfinished
  BY ThreadMoves
<1>3. thread \in [Connections -> ThreadStages]
  BY DEF IInv, ConnectionTypeOK
<1>4. /\ thread'[c] = stage
      /\ \A d \in Connections \ {c} : thread'[d] = thread[d]
      /\ \A d \in Connections : thread'[d] \in Unfinished => thread[d] \in Unfinished
  BY <1>2, <1>3
<1>5. SettingsTypeOK'
  BY <1>1 DEF IInv, ConnectionTypeOK, SettingsTypeOK, settingVars
<1>6. ConnectionTypeOK'
  BY <1>1, <1>2, <1>5 DEF IInv, ConnectionTypeOK, callVars
<1>7. DispatchingIsStarted'
  BY <1>1, <1>2, <1>4 DEF IInv, DispatchingIsStarted
<1>8. ReleaseAfterHost' /\ JoinHasConnection'
  BY <1>1 DEF IInv, ReleaseAfterHost, JoinHasConnection, callVars
<1>9. AboutToFree' /\ FreedIsPast'
  BY <1>1, <1>4 DEF IInv, AboutToFree, FreedIsPast, callVars
<1> QED BY <1>6, <1>7, <1>8, <1>9 DEF IInv

LEMMA ParentStep ==
  ASSUME IInv, NEW c \in Connections, ParentCloses(c)
  PROVE  IInv'
<1>1. /\ UNCHANGED <<running, mutex, settingVars, callVars, hostVars, nc, memory, started,
                    stopRequested, thread, reported, unbegun, parent>>
      /\ link' = [link EXCEPT ![c] = "gone"]
  BY DEF ParentCloses
<1>2. ConnectionTypeOK'
  BY <1>1 DEF IInv, ConnectionTypeOK, SettingsTypeOK, settingVars, callVars, hostVars
<1> QED BY <1>1, <1>2 DEF IInv, DispatchingIsStarted, ReleaseAfterHost, JoinHasConnection,
             AboutToFree, FreedIsPast, callVars, hostVars

\* The compositor thread makes a connection only while no Stop releases one.
LEMMA HostThreadStep ==
  ASSUME IInv, HostStep
  PROVE  IInv'
<1>1. /\ UNCHANGED <<running, mutex, settingVars, callVars, started, stopRequested,
                    reported, unbegun, parent>>
      /\ host # "done" /\ host' \in {"connected", "ready", "run", "done"}
      /\ displayRun' \in {displayRun, TRUE}
  BY DEF HostStep, CreateConnection, SetUpEnds, DisplayRuns, DisplayStops, connVars
<1>2. \/ UNCHANGED <<memory, thread, link>> /\ nc' \in {nc, 0}
      \/ \E c \in Connections :
            /\ memory[c] = "none" /\ nc' = c
            /\ memory' = [memory EXCEPT ![c] = "alive"]
            /\ thread' = [thread EXCEPT ![c] = "created"]
            /\ link' = [link EXCEPT ![c] = "open"]
  <2>1. CASE CreateConnection
    BY <2>1 DEF CreateConnection
  <2>2. CASE SetUpEnds \/ DisplayRuns \/ DisplayStops
    BY <2>2 DEF SetUpEnds, DisplayRuns, DisplayStops, connVars
  <2> QED BY <2>1, <2>2 DEF HostStep
<1>3. /\ memory \in [Connections -> {"none", "alive", "freed"}]
      /\ thread \in [Connections -> ThreadStages] /\ nc \in 0..MaxConnections
      /\ link \in [Connections -> {"open", "gone"}]
  BY DEF IInv, ConnectionTypeOK
<1>4. /\ memory' \in [Connections -> {"none", "alive", "freed"}]
      /\ thread' \in [Connections -> ThreadStages] /\ nc' \in 0..MaxConnections
      /\ link' \in [Connections -> {"open", "gone"}]
  <2>1. nc' \in 0..MaxConnections
    BY <1>2, <1>3, ConnectionAssumption DEF Connections
  <2>2. /\ memory' \in [Connections -> {"none", "alive", "freed"}]
        /\ thread' \in [Connections -> ThreadStages]
        /\ link' \in [Connections -> {"open", "gone"}]
    <3>1. CASE UNCHANGED <<memory, thread, link>>
      BY <3>1, <1>3
    <3>2. CASE \E c \in Connections :
                 /\ memory' = [memory EXCEPT ![c] = "alive"]
                 /\ thread' = [thread EXCEPT ![c] = "created"]
                 /\ link' = [link EXCEPT ![c] = "open"]
      BY <3>2, <1>3 DEF ThreadStages
    <3> QED BY <3>1, <3>2, <1>2
  <2> QED BY <2>1, <2>2
<1>5. SettingsTypeOK'
  BY <1>1 DEF IInv, ConnectionTypeOK, SettingsTypeOK, settingVars
<1>6. ConnectionTypeOK'
  BY <1>1, <1>4, <1>5 DEF IInv, ConnectionTypeOK, callVars
<1>7. call \notin {"disconnect", "joinFirst", "destroy", "joinAgain", "free"} /\ call' = call
  BY <1>1 DEF IInv, ReleaseAfterHost, callVars
<1>8. ReleaseAfterHost' /\ JoinHasConnection' /\ AboutToFree'
  BY <1>7 DEF ReleaseAfterHost, JoinHasConnection, AboutToFree
<1>9. \A c \in Connections :
        /\ thread'[c] \in Dispatching => thread[c] \in Dispatching
        /\ memory'[c] = "freed" => memory[c] = "freed" /\ thread'[c] = thread[c]
  BY <1>2, <1>3 DEF Dispatching
<1>10. DispatchingIsStarted' /\ FreedIsPast'
  BY <1>1, <1>9 DEF IInv, DispatchingIsStarted, FreedIsPast
<1> QED BY <1>6, <1>8, <1>10 DEF IInv

\* Of the calls, those that leave the connections alone.
LEMMA CallStep ==
  ASSUME IInv, Configure \/ StartCall \/ StartReturns \/ StopJoined \/ ConnectionJoined
                 \/ \E w \in 0..MaxConnections : StopCall(w)
  PROVE  IInv'
<1>1. UNCHANGED <<connVars, parent>>
  BY DEF Configure, StartCall, StartReturns, StopJoined, ConnectionJoined, StopCall
<1>2. SettingsTypeOK'
  <2>1. CASE Configure
    BY <2>1, ConfigureType DEF IInv, ConnectionTypeOK
  <2>2. CASE StartCall
    BY <2>2, StartType DEF IInv, ConnectionTypeOK, StartCall
  <2>3. CASE StartReturns
    BY <2>3 DEF IInv, ConnectionTypeOK, StartReturns, SettingsTypeOK, settingVars
  <2>4. CASE StopJoined \/ ConnectionJoined
    BY <2>4 DEF IInv, ConnectionTypeOK, StopJoined, ConnectionJoined, SettingsTypeOK,
               settingVars
  <2>5. ASSUME NEW w \in 0..MaxConnections, StopCall(w)  PROVE SettingsTypeOK'
    BY <2>5, StopTypes DEF IInv, ConnectionTypeOK, StopCall
  <2> QED BY <2>1, <2>2, <2>3, <2>4, <2>5
<1>3. /\ call' \in {"idle", "starting", "join", "disconnect", "joinFirst", "destroy",
                   "joinAgain", "free"}
      /\ caller' \in 0..MaxConnections
      /\ host' \in {"setup", "connected", "ready", "run", "done"}
      /\ {displayRun', foundRun'} \subseteq BOOLEAN
      /\ call' = "disconnect" => host' = "done"
      /\ call' \in {"joinFirst", "joinAgain"} => call' = call
      /\ call' \in {"destroy", "free"} =>
           /\ host' = host
           /\ call' = call \/ (call \in {"joinFirst", "joinAgain"} /\ thread[nc] = "ended")
      /\ call' = call => host' = host \/ call' = "idle"
  <2> USE DEF IInv, ConnectionTypeOK
  <2>1. CASE Configure
    BY <2>1 DEF Configure, callVars, hostVars
  <2>2. CASE StartCall
    BY <2>2, ConnectionAssumption DEF StartCall
  <2>3. CASE StartReturns
    BY <2>3 DEF StartReturns, hostVars
  <2>4. CASE StopJoined
    BY <2>4 DEF StopJoined, hostVars
  <2>5. CASE ConnectionJoined
    BY <2>5 DEF ConnectionJoined, hostVars
  <2>6. ASSUME NEW w \in 0..MaxConnections, StopCall(w)
        PROVE  /\ call' = "join" /\ call = "idle" /\ caller' \in 0..MaxConnections
               /\ host' = host /\ {displayRun', foundRun'} \subseteq BOOLEAN
    BY <2>6 DEF StopCall
  <2> QED BY <2>1, <2>2, <2>3, <2>4, <2>5, <2>6
<1>4. ConnectionTypeOK'
  BY <1>1, <1>2, <1>3 DEF IInv, ConnectionTypeOK, connVars
<1>5. DispatchingIsStarted' /\ FreedIsPast'
  BY <1>1 DEF IInv, DispatchingIsStarted, FreedIsPast, connVars
<1>6. ReleaseAfterHost' /\ JoinHasConnection'
  BY <1>1, <1>3 DEF IInv, ReleaseAfterHost, JoinHasConnection, connVars
<1>7. AboutToFree'
  BY <1>1, <1>3 DEF IInv, AboutToFree, Unfinished, Dispatching, connVars
<1> QED BY <1>4, <1>5, <1>6, <1>7 DEF IInv

\* Disconnect and Destroy wait for a thread that has begun, and free at once otherwise.
LEMMA RequestStep ==
  ASSUME IInv, Disconnect \/ Destroy
  PROVE  IInv'
<1>1. /\ UNCHANGED <<running, mutex, settingVars, caller, foundRun, hostVars, nc, memory,
                    started, thread, reported, parent>>
      /\ unbegun' = unbegun \cup {c \in Connections : c = nc /\ thread[c] = "created"}
      /\ call \in {"disconnect", "destroy"}
      /\ \/ /\ nc # 0 /\ started[nc]
            /\ call' \in {"joinFirst", "joinAgain"}
            /\ stopRequested' = [stopRequested EXCEPT ![nc] = TRUE]
            /\ link' = [link EXCEPT ![nc] = "gone"]
         \/ /\ ~(nc # 0 /\ started[nc])
            /\ call' \in {"destroy", "free"} /\ UNCHANGED <<stopRequested, link>>
  BY DEF Disconnect, Destroy, RequestStop
<1>2. /\ nc \in 0..MaxConnections /\ (nc # 0 => nc \in Connections)
      /\ (nc \in Connections => nc # 0) /\ host = "done"
  BY <1>1, ConnectionAssumption DEF IInv, ConnectionTypeOK, ReleaseAfterHost, Connections
<1>3. SettingsTypeOK'
  BY <1>1 DEF IInv, ConnectionTypeOK, SettingsTypeOK, settingVars
<1>4. ConnectionTypeOK'
  BY <1>1, <1>2, <1>3 DEF IInv, ConnectionTypeOK, hostVars
<1>5. DispatchingIsStarted' /\ FreedIsPast'
  BY <1>1 DEF IInv, DispatchingIsStarted, FreedIsPast
<1>6. ReleaseAfterHost' /\ JoinHasConnection'
  BY <1>1, <1>2 DEF ReleaseAfterHost, JoinHasConnection, hostVars
<1>7. AboutToFree'
  BY <1>1, <1>2 DEF IInv, AboutToFree, DispatchingIsStarted, Unfinished
<1> QED BY <1>4, <1>5, <1>6, <1>7 DEF IInv

LEMMA FreeStep ==
  ASSUME IInv, StopReturns
  PROVE  IInv'
<1>1. /\ call = "free" /\ call' = "idle" /\ nc' = 0 /\ StopDone
      /\ memory' = [c \in Connections |-> IF c = nc THEN "freed" ELSE memory[c]]
      /\ UNCHANGED <<caller, foundRun, hostVars, started, stopRequested, thread, link,
                    reported, unbegun, parent>>
  BY DEF StopReturns
<1>2. SettingsTypeOK'
  BY <1>1, StopTypes DEF IInv, ConnectionTypeOK
<1>3. ConnectionTypeOK'
  BY <1>1, <1>2, ConnectionAssumption DEF IInv, ConnectionTypeOK, hostVars
<1>4. DispatchingIsStarted' /\ ReleaseAfterHost' /\ JoinHasConnection' /\ AboutToFree'
  BY <1>1 DEF IInv, DispatchingIsStarted, ReleaseAfterHost, JoinHasConnection, AboutToFree
<1>5. FreedIsPast'
  BY <1>1 DEF IInv, AboutToFree, FreedIsPast
<1> QED BY <1>3, <1>4, <1>5 DEF IInv

--------------------------------------------------------------------------------
LEMMA InitInv == Init => IInv
<1> SUFFICES ASSUME Init  PROVE IInv
  OBVIOUS
<1>1. SettingsTypeOK
  BY SettingsInitType DEF Init
<1>2. 0 \in 0..MaxConnections
  BY ConnectionAssumption
<1>3. /\ memory \in [Connections -> {"none", "alive", "freed"}]
      /\ started \in [Connections -> BOOLEAN] /\ stopRequested \in [Connections -> BOOLEAN]
      /\ thread \in [Connections -> ThreadStages]
      /\ link \in [Connections -> {"open", "gone"}]
      /\ reported \in [Connections -> BOOLEAN]
  BY DEF Init, ThreadStages
<1>4. ConnectionTypeOK
  BY <1>1, <1>2, <1>3 DEF Init, ConnectionTypeOK
<1> QED BY <1>4 DEF Init, IInv, DispatchingIsStarted, ReleaseAfterHost, JoinHasConnection,
             AboutToFree, FreedIsPast, Dispatching

LEMMA StepInv == IInv /\ [Next]_vars => IInv'
<1> SUFFICES ASSUME IInv, [Next]_vars  PROVE IInv'
  OBVIOUS
<1>1. CASE Configure \/ StartCall \/ \E w \in 0..MaxConnections : StopCall(w)
  BY <1>1, CallStep
<1>2. CASE Returns
  BY <1>2, CallStep, RequestStep, FreeStep DEF Returns
<1>3. CASE HostStep
  BY <1>3, HostThreadStep
<1>4. CASE \E c \in Connections : ConnectionStep(c) \/ ParentCloses(c)
  BY <1>4, ThreadStep, ParentStep
<1>5. CASE UNCHANGED vars
  BY <1>5 DEF vars, settingVars, callVars, hostVars, connVars, IInv, ConnectionTypeOK,
       SettingsTypeOK, DispatchingIsStarted, ReleaseAfterHost, JoinHasConnection,
       AboutToFree, FreedIsPast
<1> QED BY <1>1, <1>2, <1>3, <1>4, <1>5 DEF Next

\* The inductive invariant holds of every behaviour.
THEOREM InvariantHolds == Spec => []IInv
  BY InitInv, StepInv, PTL DEF Spec

\* Every variable keeps its type.
THEOREM TypeCorrect == Spec => []ConnectionTypeOK
<1>1. IInv => ConnectionTypeOK
  BY DEF IInv
<1> QED BY InvariantHolds, <1>1, PTL

\* A connection is freed only after its thread has left the loop, whoever stops the
\* compositor, from wherever, and whenever the parent goes away; except for a thread
\* that had not begun when Stop looked at nc->started.
THEOREM ThreadsOutliveNothing == Spec => []FreedAfterThread
<1>1. IInv => FreedAfterThread
  BY DEF IInv, FreedIsPast, FreedAfterThread, Unfinished, Dispatching
<1> QED BY InvariantHolds, <1>1, PTL

================================================================================

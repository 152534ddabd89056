------------------------------- MODULE Lifecycle -------------------------------
(***************************************************************************)
(* Starting, stopping and destroying a compositor that is not nested       *)
(* (westeros-compositor.cpp).                                              *)
(*                                                                         *)
(* Threads:                                                                *)
(*  - the embedder's controlling thread, which calls WstCompositorStart,   *)
(*    WstCompositorStop and WstCompositorDestroy; call is its position;    *)
(*  - the compositor threads, one for each pthread_create; stage is the    *)
(*    position of each in wstCompositorThread;                             *)
(*  - another embedder thread, which calls WstCompositorInvalidateScene.   *)
(*                                                                         *)
(* The frames composed while a thread is in wl_display_run are the subject *)
(* of CompositorLoop; here a frame only moves the two flags that outlive   *)
(* the thread.  Of what a thread sets up, the model keeps the display and  *)
(* the display timer.  A thread's number stands for its own display and    *)
(* its own timer, and Null for a null pointer.                             *)
(***************************************************************************)
EXTENDS Naturals

CONSTANTS
  MaxThreads,  \* bound on the threads created
  SlowStart    \* a thread may need longer to get ready than Start waits

ASSUME LifecycleAssumption ==
  /\ MaxThreads \in Nat \ {0}
  /\ SlowStart \in BOOLEAN

VARIABLES
  call,           \* position of the controlling thread
  destroying,     \* in WstCompositorDestroy
  freed,          \* ctx has been freed
  running,        \* ctx->running
  granted,        \* the last Start returned true, and Stop has not stopped it since
  detailed,       \* ctx->lastErrorDetail says of a failure
  ready,          \* ctx->compositorReady
  started,        \* ctx->compositorThreadStarted
  threadId,       \* ctx->compositorThreadId
  stage,          \* position of each compositor thread
  display,        \* ctx->display
  displayRun,     \* display->run of each thread's display, inside libwayland
  timer,          \* ctx->displayTimer
  needRepaint,    \* ctx->needRepaint
  allowImmediateRepaint, \* ctx->allowImmediateRepaint
  nullTimer,      \* a null displayTimer has been handed to libwayland (history)
  stopFound       \* the stage in which the last Stop found the thread (history)

apiVars     == <<call, destroying, freed, running, granted, detailed, stopFound>>
threadVars  == <<ready, started, threadId, stage>>
displayVars == <<display, displayRun, timer>>
repaintVars == <<needRepaint, allowImmediateRepaint, nullTimer>>
vars        == <<apiVars, threadVars, displayVars, repaintVars>>

--------------------------------------------------------------------------------
Threads == 1..MaxThreads
Null == 0

\* The stages of a thread: created, building its display and globals, ready but
\* not yet in wl_display_run, in wl_display_run, past it (or past a failure), past
\* the clean-up of its clients, finished.
Stages == {"none", "created", "setup", "armed", "ready", "run", "leave", "exit", "done"}

Alive(t) == stage[t] \notin {"none", "done"}

--------------------------------------------------------------------------------
(* WstCompositorStart *)

\* Variant: without the test of ctx->running.
StartCallAnyTime ==
  /\ call = "idle" /\ ~destroying
  /\ \E t \in Threads :
       /\ stage[t] = "none"
       /\ \A u \in 1..(t - 1) : stage[u] # "none"
       /\ stage' = [stage EXCEPT ![t] = "created"]
       /\ threadId' = t
  /\ call' = "startWait"
  /\ UNCHANGED <<destroying, freed, running, granted, detailed, stopFound, ready, started,
                 displayVars, repaintVars>>

\* A Start that is refused: the compositor runs already, a renderer module or the key
\* map is missing.
StartRefused ==
  /\ call = "idle" /\ ~destroying
  /\ detailed' = TRUE
  /\ granted' = (granted /\ running)
  /\ UNCHANGED <<call, destroying, freed, running, stopFound, threadVars, displayVars, repaintVars>>

\* A failure past the making of the key map.  What Start returns still has the key map's
\* value, true, or, in a nested compositor, which makes none, false.
FailsLate == granted' \in BOOLEAN /\ detailed' = TRUE

\* The thread cannot be created.
StartCreateFails ==
  /\ call = "idle" /\ ~destroying
  /\ ~running
  /\ FailsLate
  /\ UNCHANGED <<call, destroying, freed, running, stopFound, threadVars, displayVars, repaintVars>>

\* Create the thread.
StartCall ==
  /\ call = "idle" /\ ~destroying
  /\ ~running
  /\ \E t \in Threads :
       /\ stage[t] = "none"
       /\ \A u \in 1..(t - 1) : stage[u] # "none"
       /\ stage' = [stage EXCEPT ![t] = "created"]
       /\ threadId' = t
  /\ call' = "startWait"
  /\ UNCHANGED <<destroying, freed, running, granted, detailed, stopFound, ready, started,
                 displayVars, repaintVars>>

\* Variant: Start returns success when the wait ends, whatever ended it.
StartEndsUnchecked ==
  /\ call = "startWait"
  /\ ~SlowStart => ready \/ stage[threadId] = "done"
  /\ call' = "startRun"
  /\ UNCHANGED <<destroying, freed, running, granted, detailed, stopFound, threadVars,
                 displayVars, repaintVars>>

\* The wait for compositorReady ends: it is set, or five seconds have passed.
StartEnds ==
  /\ call = "startWait"
  /\ ~SlowStart => ready \/ stage[threadId] = "done"
  /\ \/ ready /\ call' = "startRun" /\ UNCHANGED <<granted, detailed>>
     \/ ~ready /\ call' = "idle" /\ FailsLate
  /\ UNCHANGED <<destroying, freed, running, stopFound, threadVars, displayVars, repaintVars>>

\* ctx->running is set after the wait, without the mutex.
StartReturns ==
  /\ call = "startRun"
  /\ running' = TRUE
  /\ granted' = TRUE
  /\ call' = "idle"
  /\ UNCHANGED <<destroying, freed, detailed, stopFound, threadVars, displayVars, repaintVars>>

--------------------------------------------------------------------------------
(* WstCompositorStop and WstCompositorDestroy *)

\* Variant: the display is not told to terminate.
StopCallSilent ==
  /\ call = "idle" /\ ~freed
  /\ running
  /\ running' = FALSE
  /\ granted' = FALSE
  /\ stopFound' = stage[threadId]
  /\ call' = "stopJoin"
  /\ UNCHANGED <<destroying, freed, detailed, threadVars, displayVars, repaintVars>>

\* wl_display_terminate clears display->run.
StopCall ==
  /\ call = "idle" /\ ~freed
  /\ running
  /\ running' = FALSE
  /\ granted' = FALSE
  /\ displayRun' = IF started /\ display # Null
                   THEN [displayRun EXCEPT ![display] = FALSE] ELSE displayRun
  /\ stopFound' = stage[threadId]
  /\ call' = "stopJoin"
  /\ UNCHANGED <<destroying, freed, detailed, threadVars, display, timer, repaintVars>>

\* Variant: the resources are released without waiting for the thread.
StopReturnsUnjoined ==
  /\ call = "stopJoin"
  /\ display' = Null
  /\ call' = "idle"
  /\ UNCHANGED <<destroying, freed, running, granted, detailed, stopFound, threadVars, displayRun,
                 timer, repaintVars>>

\* pthread_join and wstCompositorReleaseResources.
StopReturns ==
  /\ call = "stopJoin"
  /\ stage[threadId] = "done"
  /\ display' = Null
  /\ call' = "idle"
  /\ UNCHANGED <<destroying, freed, running, granted, detailed, stopFound, threadVars, displayRun,
                 timer, repaintVars>>

DestroyCall ==
  /\ call = "idle" /\ ~destroying
  /\ destroying' = TRUE
  /\ UNCHANGED <<call, freed, running, granted, detailed, stopFound, threadVars, displayVars,
                 repaintVars>>

\* The running compositor has been stopped first (StopCall, StopReturns).
DestroyReturns ==
  /\ call = "idle" /\ destroying /\ ~freed
  /\ ~running
  /\ freed' = TRUE
  /\ UNCHANGED <<call, destroying, running, granted, detailed, stopFound, threadVars, displayVars,
                 repaintVars>>

--------------------------------------------------------------------------------
(* wstCompositorThread *)

\* Enter the thread and create its display, or fail to.
ThreadBegins(t) ==
  /\ stage[t] = "created"
  /\ started' = TRUE
  /\ \/ stage' = [stage EXCEPT ![t] = "setup"] /\ display' = t
     \/ stage' = [stage EXCEPT ![t] = "leave"] /\ UNCHANGED display
  /\ UNCHANGED <<apiVars, ready, threadId, displayRun, timer, repaintVars>>

\* Globals, socket, renderer and the display timer, or a failure on the way.
ThreadSetsUp(t) ==
  /\ stage[t] = "setup"
  /\ \/ stage' = [stage EXCEPT ![t] = "armed"] /\ timer' = t
     \/ stage' = [stage EXCEPT ![t] = "leave"] /\ UNCHANGED timer
  /\ UNCHANGED <<apiVars, ready, started, threadId, display, displayRun, repaintVars>>

ThreadReady(t) ==
  /\ stage[t] = "armed"
  /\ ready' = TRUE
  /\ needRepaint' = TRUE
  /\ stage' = [stage EXCEPT ![t] = "ready"]
  /\ UNCHANGED <<apiVars, started, threadId, displayVars, allowImmediateRepaint, nullTimer>>

\* wl_display_run sets display->run before it looks at it.
DisplayRuns(t) ==
  /\ stage[t] = "ready"
  /\ displayRun' = [displayRun EXCEPT ![t] = TRUE]
  /\ stage' = [stage EXCEPT ![t] = "run"]
  /\ UNCHANGED <<apiVars, ready, started, threadId, display, timer, repaintVars>>

\* A frame: a repaint that is due is done, otherwise the next one may be immediate.
Frame(t) ==
  /\ stage[t] = "run"
  /\ allowImmediateRepaint' = ~needRepaint
  /\ needRepaint' = FALSE
  /\ UNCHANGED <<apiVars, threadVars, displayVars, nullTimer>>

\* wl_display_run returns.
DisplayStops(t) ==
  /\ stage[t] = "run"
  /\ ~displayRun[t]
  /\ stage' = [stage EXCEPT ![t] = "leave"]
  /\ UNCHANGED <<apiVars, ready, started, threadId, displayVars, repaintVars>>

\* The clients are destroyed; each surface that goes schedules a repaint.
ThreadLeaves(t) ==
  /\ stage[t] = "leave"
  /\ needRepaint' \in {needRepaint, TRUE}
  /\ ready' = FALSE
  /\ stage' = [stage EXCEPT ![t] = "exit"]
  /\ UNCHANGED <<apiVars, started, threadId, displayVars, allowImmediateRepaint, nullTimer>>

\* The display timer is removed.
ThreadEnds(t) ==
  /\ stage[t] = "exit"
  /\ started' = FALSE
  /\ timer' = Null
  /\ stage' = [stage EXCEPT ![t] = "done"]
  /\ UNCHANGED <<apiVars, ready, threadId, display, displayRun, repaintVars>>

--------------------------------------------------------------------------------
\* WstCompositorInvalidateScene and wstCompositorScheduleRepaint: neither looks at
\* ctx->running or at the timer.
InvalidateScene ==
  /\ ~destroying
  /\ needRepaint' = TRUE
  /\ nullTimer' = (nullTimer \/ (~needRepaint /\ allowImmediateRepaint /\ timer = Null))
  /\ UNCHANGED <<apiVars, threadVars, displayVars, allowImmediateRepaint>>

--------------------------------------------------------------------------------
\* WstCompositorCreate
Init ==
  /\ call = "idle"
  /\ destroying = FALSE
  /\ freed = FALSE
  /\ running = FALSE
  /\ granted = FALSE
  /\ detailed = FALSE
  /\ ready = FALSE
  /\ started = FALSE
  /\ threadId = Null
  /\ stage = [t \in Threads |-> "none"]
  /\ display = Null
  /\ displayRun = [t \in Threads |-> FALSE]
  /\ timer = Null
  /\ needRepaint = FALSE
  /\ allowImmediateRepaint = FALSE
  /\ nullTimer = FALSE
  /\ stopFound = "none"

Thread(t) == \/ ThreadBegins(t) \/ ThreadSetsUp(t) \/ ThreadReady(t) \/ DisplayRuns(t)
             \/ DisplayStops(t) \/ ThreadLeaves(t) \/ ThreadEnds(t)

Returns == StartEnds \/ StartReturns \/ StopReturns

Next == \/ StartRefused \/ StartCreateFails \/ StartCall
        \/ StopCall \/ DestroyCall \/ DestroyReturns
        \/ Returns
        \/ \E t \in Threads : Thread(t) \/ Frame(t)
        \/ InvalidateScene

\* Every thread that can go on does, and so does a call that can return.
Spec == Init /\ [][Next]_vars /\ WF_vars(Returns) /\ \A t \in Threads : WF_vars(Thread(t))

--------------------------------------------------------------------------------
(* Properties. *)

\* Types of the lifecycle state.
TypeOK ==
  /\ call \in {"idle", "startWait", "startRun", "stopJoin"}
  /\ destroying \in BOOLEAN /\ freed \in BOOLEAN /\ running \in BOOLEAN
  /\ granted \in BOOLEAN /\ detailed \in BOOLEAN
  /\ ready \in BOOLEAN /\ started \in BOOLEAN
  /\ threadId \in Threads \cup {Null}
  /\ stage \in [Threads -> Stages]
  /\ display \in Threads \cup {Null}
  /\ displayRun \in [Threads -> BOOLEAN]
  /\ timer \in Threads \cup {Null}
  /\ needRepaint \in BOOLEAN /\ allowImmediateRepaint \in BOOLEAN /\ nullTimer \in BOOLEAN
  /\ stopFound \in Stages

\* Two compositor threads never work on one context, however often the compositor
\* is started, fails to start, and is stopped.
OneThread == \A t, u \in Threads : Alive(t) /\ Alive(u) => t = u

\* The context is not freed under a compositor thread, whether it was stopped by
\* the embedder, by WstCompositorDestroy, or never got to run.
ContextOutlivesThreads == freed => \A t \in Threads : ~Alive(t)

\* What the calls that test ctx->running rely on: while it is set, the thread is ready
\* or in wl_display_run, and the display and the timer are that thread's own, not those
\* of an earlier start; and Start has said so to its caller.  A caller that was told
\* true of a compositor that does not run (StartTellsTrue) can still read that it
\* failed from WstCompositorGetLastErrorDetail.
RunningMeansServing ==
  /\ running => /\ granted
                /\ stage[threadId] \in {"ready", "run"}
                /\ display = threadId /\ timer = threadId
  /\ granted /\ ~running => detailed

\* Not so: a Start that returns true has started the compositor ("will return as soon
\* as the compositor is operating").  It returns true as well when its thread could
\* not be created, or failed.
StartTellsTrue == granted => running

\* When Stop returns, nothing of the compositor is left: no thread, no display, and
\* no timer that a late call could reach.
StopReleases ==
  [][call = "stopJoin" /\ call' = "idle"
       => (\A t \in Threads : ~Alive(t)) /\ display' = Null /\ timer' = Null]_vars

\* While the compositor is running, a call from another thread that schedules a
\* repaint always finds the display timer.
TimerThereWhileRunning == [][nullTimer' /\ ~nullTimer => ~running]_vars

\* Stop returns when it finds the thread in wl_display_run or beyond.
StopOfRunningReturns ==
  (call = "stopJoin" /\ stopFound # "ready") ~> (call = "idle")

\* "The compositor will halt all operation and release all resources": Stop returns.
StopHalts == (call = "stopJoin") ~> (call = "idle")

\* Not so, after a Stop whose last frame repainted nothing (WstCompositorInvalidateScene):
\* "This only has an effect when the compositor is running."
InvalidateHarmless == ~nullTimer
================================================================================

---------------------------- MODULE LifecycleProofs ----------------------------
(***************************************************************************)
(* The safety of a compositor's life and of those around it.               *)
(*                                                                         *)
(* Starting, stopping and destroying, for any number of starts, when a     *)
(* thread gets ready or fails within the time that WstCompositorStart      *)
(* waits for it.  The inductive invariant says where the one live thread   *)
(* is for each position of the controlling thread, and which of            *)
(* ctx->display and ctx->displayTimer that thread has set.                 *)
(*                                                                         *)
(* Then, each on its own, what the embedder is told of the clients it      *)
(* launched (LaunchClient), the devices a native Essos context follows     *)
(* (Essos), the bytes of a capture (MediaCapture), and the packets of a    *)
(* transport stream (TsMux).                                               *)
(***************************************************************************)
EXTENDS Lifecycle, LaunchClient, Essos, MediaCapture, TsMux, Integers, FiniteSets,
        FiniteSetTheorems, SequenceTheorems, WellFoundedInduction, TLAPS

\* Only the thread created last is alive, and while no call is under way and the
\* compositor is not running, not even that one.
LastThreadOnly ==
  /\ \A t \in Threads : Alive(t) => t = threadId
  /\ call = "idle" /\ ~running => \A t \in Threads : ~Alive(t)

\* What a thread has set up by the stage it is in.
SetUp ==
  \A t \in Threads :
    /\ stage[t] \in {"setup", "armed", "ready", "run"} => display = t
    /\ stage[t] \in {"armed", "ready", "run"} => timer = t
    /\ stage[t] = "run" /\ call # "stopJoin" => displayRun[t]

\* compositorReady is set by the thread created last, and cleared before it ends.
ReadyMeansReady ==
  ready => /\ threadId \in Threads
           /\ stage[threadId] \in {"ready", "run", "leave"}
           /\ call # "stopJoin" => stage[threadId] # "leave"

\* The controlling thread, ctx->running and what the caller of Start was told.
CallOK ==
  /\ running => call = "idle" /\ granted
  /\ granted /\ ~running => detailed
  /\ running \/ call = "startRun" => ready /\ threadId \in Threads
  /\ call # "idle" => threadId \in Threads
  /\ freed => destroying /\ call = "idle" /\ ~running

\* The display timer lives no longer than the thread that created it.
TimerOwned == timer # Null => stage[timer] \in {"armed", "ready", "run", "leave", "exit"}

IInv ==
  /\ TypeOK
  /\ LastThreadOnly
  /\ SetUp
  /\ ReadyMeansReady
  /\ CallOK
  /\ TimerOwned

\* Before the first start there is no thread.
LEMMA InitInv == Init => IInv
<1> SUFFICES ASSUME Init PROVE IInv
  OBVIOUS
<1>1. TypeOK
  BY LifecycleAssumption DEF Init, TypeOK, Threads, Stages, Null
<1> QED BY <1>1, LifecycleAssumption
        DEF Init, IInv, LastThreadOnly, Alive, SetUp, ReadyMeansReady, CallOK, TimerOwned

\* Null is not the number of a thread.
LEMMA NullIsNoThread == Null \notin Threads
BY LifecycleAssumption DEF Null, Threads

\* A start that creates no thread changes what the caller knows, and nothing else.
LEMMA StartFailsInv ==
  ASSUME IInv, StartRefused \/ StartCreateFails
  PROVE  IInv'
<1> USE DEF StartRefused, StartCreateFails, FailsLate, threadVars, displayVars, repaintVars
<1>1. TypeOK'
  BY DEF IInv, TypeOK
<1>2. LastThreadOnly' /\ SetUp' /\ ReadyMeansReady' /\ TimerOwned'
  BY DEF IInv, LastThreadOnly, Alive, SetUp, ReadyMeansReady, TimerOwned
<1>3. CallOK'
  BY DEF IInv, TypeOK, CallOK
<1> QED BY <1>1, <1>2, <1>3 DEF IInv

\* A new thread is created only when no other is alive.
LEMMA StartCallInv ==
  ASSUME IInv, StartCall
  PROVE  IInv'
<1> USE DEF StartCall, apiVars, threadVars, displayVars, repaintVars
<1>1. TypeOK'
  BY DEF IInv, TypeOK, Stages
<1>2. LastThreadOnly'
  BY DEF IInv, TypeOK, LastThreadOnly, Alive
<1>3. SetUp'
  BY DEF IInv, TypeOK, SetUp, LastThreadOnly, Alive, CallOK
<1>4. ReadyMeansReady'
  BY NullIsNoThread DEF IInv, TypeOK, ReadyMeansReady, LastThreadOnly, SetUp, Alive, CallOK
<1>5. CallOK'
  BY DEF IInv, TypeOK, CallOK, ReadyMeansReady, LastThreadOnly, Alive
<1>6. TimerOwned'
  BY NullIsNoThread DEF IInv, TypeOK, TimerOwned, LastThreadOnly, Alive
<1> QED BY <1>1, <1>2, <1>3, <1>4, <1>5, <1>6 DEF IInv

\* Start gives up only on a thread that has ended, unless starting is slow.
LEMMA StartEndsInv ==
  ASSUME IInv, ~SlowStart, StartEnds
  PROVE  IInv'
<1> USE DEF StartEnds, FailsLate, apiVars, threadVars, displayVars, repaintVars
<1>1. TypeOK'
  <2>1. call' \in {"startRun", "idle"} /\ granted' \in BOOLEAN /\ detailed' \in BOOLEAN
    BY DEF IInv, TypeOK
  <2> QED BY <2>1 DEF IInv, TypeOK
<1>2. LastThreadOnly'
  BY DEF IInv, TypeOK, LastThreadOnly, Alive
<1>3. SetUp'
  BY DEF IInv, TypeOK, SetUp, LastThreadOnly, Alive, CallOK
<1>4. ReadyMeansReady'
  BY NullIsNoThread DEF IInv, TypeOK, ReadyMeansReady, LastThreadOnly, SetUp, Alive, CallOK
<1>5. CallOK'
  BY DEF IInv, TypeOK, CallOK, ReadyMeansReady, LastThreadOnly, Alive
<1>6. TimerOwned'
  BY NullIsNoThread DEF IInv, TypeOK, TimerOwned, LastThreadOnly, Alive
<1> QED BY <1>1, <1>2, <1>3, <1>4, <1>5, <1>6 DEF IInv

\* Start returns success while the thread is ready or running.
LEMMA StartReturnsInv ==
  ASSUME IInv, StartReturns
  PROVE  IInv'
<1> USE DEF StartReturns, apiVars, threadVars, displayVars, repaintVars
<1>1. TypeOK'
  BY DEF IInv, TypeOK, Stages
<1>2. LastThreadOnly'
  BY DEF IInv, TypeOK, LastThreadOnly, Alive
<1>3. SetUp'
  BY DEF IInv, TypeOK, SetUp, LastThreadOnly, Alive, CallOK
<1>4. ReadyMeansReady'
  BY NullIsNoThread DEF IInv, TypeOK, ReadyMeansReady, LastThreadOnly, SetUp, Alive, CallOK
<1>5. CallOK'
  BY DEF IInv, TypeOK, CallOK, ReadyMeansReady, LastThreadOnly, Alive
<1>6. TimerOwned'
  BY NullIsNoThread DEF IInv, TypeOK, TimerOwned, LastThreadOnly, Alive
<1> QED BY <1>1, <1>2, <1>3, <1>4, <1>5, <1>6 DEF IInv

\* Stop leaves the thread alone and tells its display to terminate.
LEMMA StopCallInv ==
  ASSUME IInv, StopCall
  PROVE  IInv'
<1> USE DEF StopCall, apiVars, threadVars, displayVars, repaintVars
<1>1. TypeOK'
  <2>1. stage[threadId] \in Stages
    BY DEF IInv, TypeOK, CallOK
  <2>2. displayRun' \in [Threads -> BOOLEAN]
    BY DEF IInv, TypeOK
  <2> QED BY <2>1, <2>2 DEF IInv, TypeOK
<1>2. LastThreadOnly'
  BY DEF IInv, TypeOK, LastThreadOnly, Alive
<1>3. SetUp'
  BY DEF IInv, TypeOK, SetUp, LastThreadOnly, Alive, CallOK
<1>4. ReadyMeansReady'
  BY NullIsNoThread DEF IInv, TypeOK, ReadyMeansReady, LastThreadOnly, SetUp, Alive, CallOK
<1>5. CallOK'
  BY DEF IInv, TypeOK, CallOK, ReadyMeansReady, LastThreadOnly, Alive
<1>6. TimerOwned'
  BY NullIsNoThread DEF IInv, TypeOK, TimerOwned, LastThreadOnly, Alive
<1> QED BY <1>1, <1>2, <1>3, <1>4, <1>5, <1>6 DEF IInv

\* The joined thread was the only one alive.
LEMMA StopReturnsInv ==
  ASSUME IInv, StopReturns
  PROVE  IInv'
<1> USE DEF StopReturns, apiVars, threadVars, displayVars, repaintVars
<1>1. TypeOK'
  BY DEF IInv, TypeOK, Stages
<1>2. LastThreadOnly'
  BY DEF IInv, TypeOK, LastThreadOnly, Alive
<1>3. SetUp'
  BY DEF IInv, TypeOK, SetUp, LastThreadOnly, Alive, CallOK
<1>4. ReadyMeansReady'
  BY NullIsNoThread DEF IInv, TypeOK, ReadyMeansReady, LastThreadOnly, SetUp, Alive, CallOK
<1>5. CallOK'
  BY DEF IInv, TypeOK, CallOK, ReadyMeansReady, LastThreadOnly, Alive
<1>6. TimerOwned'
  BY NullIsNoThread DEF IInv, TypeOK, TimerOwned, LastThreadOnly, Alive
<1> QED BY <1>1, <1>2, <1>3, <1>4, <1>5, <1>6 DEF IInv

\* Destroy frees the context of a compositor that is not running.
LEMMA DestroyInv ==
  ASSUME IInv, DestroyCall \/ DestroyReturns
  PROVE  IInv'
<1> USE DEF DestroyCall, DestroyReturns, apiVars, threadVars, displayVars, repaintVars
<1>1. TypeOK'
  BY DEF IInv, TypeOK
<1>2. LastThreadOnly'
  BY DEF IInv, TypeOK, LastThreadOnly, Alive
<1>3. SetUp'
  BY DEF IInv, TypeOK, SetUp, LastThreadOnly, Alive, CallOK
<1>4. ReadyMeansReady'
  BY NullIsNoThread DEF IInv, TypeOK, ReadyMeansReady, LastThreadOnly, SetUp, Alive, CallOK
<1>5. CallOK'
  BY DEF IInv, TypeOK, CallOK, ReadyMeansReady, LastThreadOnly, Alive
<1>6. TimerOwned'
  BY NullIsNoThread DEF IInv, TypeOK, TimerOwned, LastThreadOnly, Alive
<1> QED BY <1>1, <1>2, <1>3, <1>4, <1>5, <1>6 DEF IInv

\* The display becomes that of the new thread, or stays.
LEMMA ThreadBeginsInv ==
  ASSUME IInv, NEW t \in Threads, ThreadBegins(t)
  PROVE  IInv'
<1> USE DEF ThreadBegins, apiVars, threadVars, displayVars, repaintVars
<1>1. TypeOK'
  BY DEF IInv, TypeOK, Stages
<1>2. LastThreadOnly'
  BY DEF IInv, TypeOK, LastThreadOnly, Alive
<1>3. SetUp'
  BY DEF IInv, TypeOK, SetUp, LastThreadOnly, Alive, CallOK
<1>4. ReadyMeansReady'
  BY NullIsNoThread DEF IInv, TypeOK, ReadyMeansReady, LastThreadOnly, SetUp, Alive, CallOK
<1>5. CallOK'
  BY DEF IInv, TypeOK, CallOK, ReadyMeansReady, LastThreadOnly, Alive
<1>6. TimerOwned'
  BY NullIsNoThread DEF IInv, TypeOK, TimerOwned, LastThreadOnly, Alive
<1> QED BY <1>1, <1>2, <1>3, <1>4, <1>5, <1>6 DEF IInv

\* The display timer becomes that of the new thread, or stays.
LEMMA ThreadSetsUpInv ==
  ASSUME IInv, NEW t \in Threads, ThreadSetsUp(t)
  PROVE  IInv'
<1> USE DEF ThreadSetsUp, apiVars, threadVars, displayVars, repaintVars
<1>1. TypeOK'
  BY DEF IInv, TypeOK, Stages
<1>2. LastThreadOnly'
  BY DEF IInv, TypeOK, LastThreadOnly, Alive
<1>3. SetUp'
  BY DEF IInv, TypeOK, SetUp, LastThreadOnly, Alive, CallOK
<1>4. ReadyMeansReady'
  BY NullIsNoThread DEF IInv, TypeOK, ReadyMeansReady, LastThreadOnly, SetUp, Alive, CallOK
<1>5. CallOK'
  BY DEF IInv, TypeOK, CallOK, ReadyMeansReady, LastThreadOnly, Alive
<1>6. TimerOwned'
  BY NullIsNoThread DEF IInv, TypeOK, TimerOwned, LastThreadOnly, Alive
<1> QED BY <1>1, <1>2, <1>3, <1>4, <1>5, <1>6 DEF IInv

\* compositorReady is set by the last thread.
LEMMA ThreadReadyInv ==
  ASSUME IInv, NEW t \in Threads, ThreadReady(t)
  PROVE  IInv'
<1> USE DEF ThreadReady, apiVars, threadVars, displayVars, repaintVars
<1>1. TypeOK'
  BY DEF IInv, TypeOK, Stages
<1>2. LastThreadOnly'
  BY DEF IInv, TypeOK, LastThreadOnly, Alive
<1>3. SetUp'
  BY DEF IInv, TypeOK, SetUp, LastThreadOnly, Alive, CallOK
<1>4. ReadyMeansReady'
  BY NullIsNoThread DEF IInv, TypeOK, ReadyMeansReady, LastThreadOnly, SetUp, Alive, CallOK
<1>5. CallOK'
  BY DEF IInv, TypeOK, CallOK, ReadyMeansReady, LastThreadOnly, Alive
<1>6. TimerOwned'
  BY NullIsNoThread DEF IInv, TypeOK, TimerOwned, LastThreadOnly, Alive
<1> QED BY <1>1, <1>2, <1>3, <1>4, <1>5, <1>6 DEF IInv

\* The thread enters wl_display_run.
LEMMA DisplayRunsInv ==
  ASSUME IInv, NEW t \in Threads, DisplayRuns(t)
  PROVE  IInv'
<1> USE DEF DisplayRuns, apiVars, threadVars, displayVars, repaintVars
<1>1. TypeOK'
  BY DEF IInv, TypeOK, Stages
<1>2. LastThreadOnly'
  BY DEF IInv, TypeOK, LastThreadOnly, Alive
<1>3. SetUp'
  BY DEF IInv, TypeOK, SetUp, LastThreadOnly, Alive, CallOK
<1>4. ReadyMeansReady'
  BY NullIsNoThread DEF IInv, TypeOK, ReadyMeansReady, LastThreadOnly, SetUp, Alive, CallOK
<1>5. CallOK'
  BY DEF IInv, TypeOK, CallOK, ReadyMeansReady, LastThreadOnly, Alive
<1>6. TimerOwned'
  BY NullIsNoThread DEF IInv, TypeOK, TimerOwned, LastThreadOnly, Alive
<1> QED BY <1>1, <1>2, <1>3, <1>4, <1>5, <1>6 DEF IInv

\* wl_display_run returns only after Stop has told it to.
LEMMA DisplayStopsInv ==
  ASSUME IInv, NEW t \in Threads, DisplayStops(t)
  PROVE  IInv'
<1> USE DEF DisplayStops, apiVars, threadVars, displayVars, repaintVars
<1>1. TypeOK'
  BY DEF IInv, TypeOK, Stages
<1>2. LastThreadOnly'
  BY DEF IInv, TypeOK, LastThreadOnly, Alive
<1>3. SetUp'
  BY DEF IInv, TypeOK, SetUp, LastThreadOnly, Alive, CallOK
<1>4. ReadyMeansReady'
  BY NullIsNoThread DEF IInv, TypeOK, ReadyMeansReady, LastThreadOnly, SetUp, Alive, CallOK
<1>5. CallOK'
  BY DEF IInv, TypeOK, CallOK, ReadyMeansReady, LastThreadOnly, Alive
<1>6. TimerOwned'
  BY NullIsNoThread DEF IInv, TypeOK, TimerOwned, LastThreadOnly, Alive
<1> QED BY <1>1, <1>2, <1>3, <1>4, <1>5, <1>6 DEF IInv

\* compositorReady is cleared.
LEMMA ThreadLeavesInv ==
  ASSUME IInv, NEW t \in Threads, ThreadLeaves(t)
  PROVE  IInv'
<1> USE DEF ThreadLeaves, apiVars, threadVars, displayVars, repaintVars
<1>1. TypeOK'
  <2>1. stage' \in [Threads -> Stages]
    BY DEF IInv, TypeOK, Stages
  <2>2. needRepaint' \in BOOLEAN /\ ready' \in BOOLEAN
    BY DEF IInv, TypeOK
  <2> QED BY <2>1, <2>2 DEF IInv, TypeOK
<1>2. LastThreadOnly'
  BY DEF IInv, TypeOK, LastThreadOnly, Alive
<1>3. SetUp'
  BY DEF IInv, TypeOK, SetUp, LastThreadOnly, Alive, CallOK
<1>4. ReadyMeansReady'
  BY NullIsNoThread DEF IInv, TypeOK, ReadyMeansReady, LastThreadOnly, SetUp, Alive, CallOK
<1>5. CallOK'
  BY DEF IInv, TypeOK, CallOK, ReadyMeansReady, LastThreadOnly, Alive
<1>6. TimerOwned'
  BY NullIsNoThread DEF IInv, TypeOK, TimerOwned, LastThreadOnly, Alive
<1> QED BY <1>1, <1>2, <1>3, <1>4, <1>5, <1>6 DEF IInv

\* The display timer goes before the thread does.
LEMMA ThreadEndsInv ==
  ASSUME IInv, NEW t \in Threads, ThreadEnds(t)
  PROVE  IInv'
<1> USE DEF ThreadEnds, apiVars, threadVars, displayVars, repaintVars
<1>1. TypeOK'
  <2>1. stage' \in [Threads -> Stages]
    BY DEF IInv, TypeOK, Stages
  <2>2. timer' \in Threads \cup {Null} /\ started' \in BOOLEAN
    BY DEF IInv, TypeOK
  <2> QED BY <2>1, <2>2 DEF IInv, TypeOK
<1>2. LastThreadOnly'
  BY DEF IInv, TypeOK, LastThreadOnly, Alive
<1>3. SetUp'
  BY DEF IInv, TypeOK, SetUp, LastThreadOnly, Alive, CallOK
<1>4. ReadyMeansReady'
  BY NullIsNoThread DEF IInv, TypeOK, ReadyMeansReady, LastThreadOnly, SetUp, Alive, CallOK
<1>5. CallOK'
  BY DEF IInv, TypeOK, CallOK, ReadyMeansReady, LastThreadOnly, Alive
<1>6. TimerOwned'
  BY NullIsNoThread DEF IInv, TypeOK, TimerOwned, LastThreadOnly, Alive
<1> QED BY <1>1, <1>2, <1>3, <1>4, <1>5, <1>6 DEF IInv

\* Frames and repaint requests touch none of this.
LEMMA RepaintInv ==
  ASSUME IInv, (\E t \in Threads : Frame(t)) \/ InvalidateScene
  PROVE  IInv'
<1>1. UNCHANGED <<apiVars, threadVars, displayVars>> /\ TypeOK'
  BY ZenonT(60) DEF IInv, TypeOK, Frame, InvalidateScene, apiVars, threadVars, displayVars
<1>2. LastThreadOnly'
  BY <1>1 DEF IInv, LastThreadOnly, Alive, apiVars, threadVars, displayVars
<1>4. SetUp'
  BY <1>1 DEF IInv, SetUp, apiVars, threadVars, displayVars
<1>3. ReadyMeansReady' /\ CallOK' /\ TimerOwned'
  BY <1>1 DEF IInv, ReadyMeansReady, CallOK, TimerOwned, apiVars, threadVars, displayVars
<1> QED BY <1>1, <1>2, <1>3, <1>4 DEF IInv

\* Every step of the lifecycle.
LEMMA StepInv == ~SlowStart /\ IInv /\ [Next]_vars => IInv'
<1> SUFFICES ASSUME ~SlowStart, IInv, [Next]_vars PROVE IInv'
  OBVIOUS
<1>0. CASE StartRefused \/ StartCreateFails
  BY <1>0, StartFailsInv
<1>1. CASE StartCall \/ StopCall \/ DestroyCall \/ DestroyReturns
  BY <1>1, StartCallInv, StopCallInv, DestroyInv
<1>2. CASE Returns
  BY <1>2, StartEndsInv, StartReturnsInv, StopReturnsInv DEF Returns
<1>3. ASSUME NEW t \in Threads, Thread(t) PROVE IInv'
  BY <1>3, ThreadBeginsInv, ThreadSetsUpInv, ThreadReadyInv, DisplayRunsInv, DisplayStopsInv,
     ThreadLeavesInv, ThreadEndsInv DEF Thread
<1>4. CASE (\E t \in Threads : Frame(t)) \/ InvalidateScene
  BY <1>4, RepaintInv
<1>5. CASE UNCHANGED vars
  BY <1>5 DEF vars, apiVars, threadVars, displayVars, repaintVars, IInv, TypeOK, LastThreadOnly,
              Alive, SetUp, ReadyMeansReady, CallOK, TimerOwned
<1> QED BY <1>0, <1>1, <1>2, <1>3, <1>4, <1>5 DEF Next

\* The one live thread is where the controlling thread's position allows, with its own
\* display and timer, as long as Start waits long enough.
THEOREM InvariantHolds == ~SlowStart => (Spec => []IInv)
<1> SUFFICES ASSUME ~SlowStart PROVE Spec => []IInv
  OBVIOUS
<1>1. IInv /\ [Next]_vars => IInv'
  BY StepInv
<1> QED BY <1>1, InitInv, PTL DEF Spec

\* The lifecycle state stays well typed.
THEOREM TypeCorrect == ~SlowStart => (Spec => []TypeOK)
<1>1. IInv => TypeOK
  BY DEF IInv
<1> QED BY <1>1, InvariantHolds, PTL

\* Any number of starts, failures and stops never leaves two threads on a context.
THEOREM OnlyOneThread == ~SlowStart => (Spec => []OneThread)
<1>1. IInv => OneThread
  BY DEF IInv, LastThreadOnly, OneThread
<1> QED BY <1>1, InvariantHolds, PTL

\* The context outlives every compositor thread.
THEOREM FreedAfterThreads == ~SlowStart => (Spec => []ContextOutlivesThreads)
<1>1. IInv => ContextOutlivesThreads
  BY DEF IInv, LastThreadOnly, CallOK, ContextOutlivesThreads
<1> QED BY <1>1, InvariantHolds, PTL

\* A compositor that says it is running has its own thread, display and timer, and a
\* start that was granted without one has left an error.
THEOREM ServesWhileRunning == ~SlowStart => (Spec => []RunningMeansServing)
<1>1. IInv => RunningMeansServing
  BY DEF IInv, CallOK, ReadyMeansReady, SetUp, RunningMeansServing
<1> QED BY <1>1, InvariantHolds, PTL

\* Nothing is left of the compositor when WstCompositorStop returns.
THEOREM StopLeavesNothing == ~SlowStart => (Spec => StopReleases)
<1> SUFFICES ASSUME ~SlowStart PROVE Spec => StopReleases
  OBVIOUS
<1> DEFINE A == call = "stopJoin" /\ call' = "idle"
                  => (\A t \in Threads : ~Alive(t)) /\ display' = Null /\ timer' = Null
<1>1. IInv /\ [Next]_vars => [A]_vars
  <2> SUFFICES ASSUME IInv, Next, call = "stopJoin", call' = "idle"
               PROVE  (\A t \in Threads : ~Alive(t)) /\ display' = Null /\ timer' = Null
    OBVIOUS
  <2>1. StopReturns
    BY DEF Next, StartRefused, StartCreateFails, StartCall, StopCall, DestroyCall,
           DestroyReturns, Returns, StartEnds,
           StartReturns, Thread, ThreadBegins, ThreadSetsUp, ThreadReady, DisplayRuns,
           DisplayStops, ThreadLeaves, ThreadEnds, Frame, InvalidateScene, apiVars
  <2>2. \A t \in Threads : ~Alive(t)
    BY <2>1 DEF StopReturns, IInv, LastThreadOnly, Alive
  <2>3. timer = Null
    BY <2>2 DEF IInv, TypeOK, TimerOwned, Alive
  <2> QED BY <2>1, <2>2, <2>3 DEF StopReturns
<1> QED BY <1>1, InvariantHolds, PTL DEF Spec, StopReleases

\* While the compositor is running, a repaint request finds the thread's own timer.
THEOREM TimerForRequests == ~SlowStart => (Spec => TimerThereWhileRunning)
<1> SUFFICES ASSUME ~SlowStart PROVE Spec => TimerThereWhileRunning
  OBVIOUS
<1>1. IInv /\ [Next]_vars => [nullTimer' /\ ~nullTimer => ~running]_vars
  <2> SUFFICES ASSUME IInv, Next, nullTimer', ~nullTimer PROVE ~running
    OBVIOUS
  <2>1. InvalidateScene
    BY DEF Next, StartRefused, StartCreateFails, StartCall, StopCall, DestroyCall,
           DestroyReturns, Returns, StartEnds,
           StartReturns, StopReturns, Thread, ThreadBegins, ThreadSetsUp, ThreadReady,
           DisplayRuns, DisplayStops, ThreadLeaves, ThreadEnds, Frame, repaintVars
  <2>2. timer = Null
    BY <2>1 DEF InvalidateScene
  <2> QED BY <2>2, NullIsNoThread DEF IInv, CallOK, ReadyMeansReady, SetUp
<1> QED BY <1>1, InvariantHolds, PTL DEF Spec, TimerThereWhileRunning

--------------------------------------------------------------------------------
(* The clients that are launched. *)

LaunchSpec == LaunchInit /\ [][LaunchNext]_launchVars

\* The data is there before the callback, so that no report goes without it.
DataBeforeCallback == /\ statusCB => statusData
                      /\ \A l \in Launchers : told[l].data

\* A launch that has not forked has no process, and one that reports an end, or has
\* reported it, has reaped its process.
LaunchedReaped ==
  \A l \in Launchers :
    /\ launch[l] \in {"idle", "failed", "prepared"} => child[l] = "none"
    /\ launch[l] \in Ended \cup {"returned"} => child[l] = "reaped"
    /\ told[l].status \in Ended => child[l] = "reaped"

LaunchInv == LaunchTypeOK /\ DataBeforeCallback /\ LaunchedReaped

\* A report keeps the invariant when it says nothing but the truth about l.
LEMMA ReportKeeps ==
  ASSUME LaunchInv, NEW l \in Launchers,
         NEW status \in Ended \cup {"started", "lost", "connected", "disconnected"},
         Report(l, status), status \in Ended => child[l] = "reaped"
  PROVE  /\ told' \in [Launchers -> [status : Ended \cup {"none", "started", "lost", "connected",
                                                      "disconnected"},
                                     data : BOOLEAN]]
         /\ \A k \in Launchers : /\ told'[k].data
                                 /\ told'[k].status \in Ended => child[k] = "reaped"
<1> DEFINE report == [status |-> status, data |-> statusData]
<1>1. \/ told' = told
      \/ statusData /\ told' = [told EXCEPT ![l] = report]
  BY DEF Report, LaunchInv, DataBeforeCallback
<1>2. report \in [status : Ended \cup {"none", "started", "lost", "connected", "disconnected"},
                 data : BOOLEAN]
  BY DEF LaunchInv, LaunchTypeOK
<1>3. report.status = status /\ report.data = statusData
  OBVIOUS
<1>4. told \in [Launchers -> [status : Ended \cup {"none", "started", "lost", "connected",
                                                   "disconnected"},
                            data : BOOLEAN]]
  BY DEF LaunchInv, LaunchTypeOK
<1> HIDE DEF report
<1> QED BY <1>1, <1>2, <1>3, <1>4 DEF LaunchInv, DataBeforeCallback, LaunchedReaped

\* The steps that report.
LEMMA ReportingStep ==
  ASSUME LaunchInv, NEW l \in Launchers,
         ReportStarted(l) \/ ReportStopped(l) \/ CompositorBind(l) \/ CompositorUnbind(l)
  PROVE  LaunchInv'
<1>1. /\ UNCHANGED <<serving, forwards, child, writers, statusData, statusCB>>
      /\ launch' \in [Launchers -> Ended \cup {"idle", "failed", "prepared", "forked",
                                     "started", "monitor", "wait", "lost", "returned",
                                     "abandoned"}]
      /\ link' \in [Launchers -> {"none", "sent", "bound", "closed"}]
      /\ \A k \in Launchers :
           /\ launch'[k] \in {"idle", "failed", "prepared"} => launch[k] = launch'[k]
           /\ launch'[k] \in Ended \cup {"returned"} =>
                launch[k] \in Ended \cup {"returned"}
  BY DEF ReportStarted, ReportStopped, CompositorBind, CompositorUnbind, LaunchInv,
         LaunchTypeOK, Ended
<1>2. \E status \in Ended \cup {"started", "lost", "connected", "disconnected"} :
        Report(l, status) /\ (status \in Ended => child[l] = "reaped")
  BY DEF ReportStarted, ReportStopped, CompositorBind, CompositorUnbind, LaunchInv,
         LaunchedReaped, Ended
<1>3. PICK status \in Ended \cup {"started", "lost", "connected", "disconnected"} :
        Report(l, status) /\ (status \in Ended => child[l] = "reaped")
  BY <1>2
<1>4. /\ told' \in [Launchers -> [status : Ended \cup {"none", "started", "lost", "connected",
                                                   "disconnected"},
                                  data : BOOLEAN]]
      /\ \A k \in Launchers : /\ told'[k].data
                              /\ told'[k].status \in Ended => child[k] = "reaped"
  BY <1>3, ReportKeeps
<1>5. LaunchTypeOK'
  BY <1>1, <1>4 DEF LaunchInv, LaunchTypeOK
<1>6. DataBeforeCallback'
  BY <1>1, <1>4 DEF LaunchInv, DataBeforeCallback
<1>7. LaunchedReaped'
  BY <1>1, <1>4 DEF LaunchInv, LaunchedReaped
<1> QED BY <1>5, <1>6, <1>7 DEF LaunchInv

\* The steps that report nothing: a process that has been reaped stays so.
LEMMA SilentStep ==
  ASSUME LaunchInv,
         \/ SetClientStatusData \/ SetClientStatusCallback \/ StopServing
         \/ \E l \in Launchers :
              \/ LaunchClient(l) \/ Fork(l) \/ ForkFails(l) \/ MonitorBegins(l)
              \/ MonitorEnds(l) \/ Reap(l) \/ ReapInterrupted(l)
              \/ Exec(l) \/ ClientEnds(l) \/ SendBind(l)
  PROVE  LaunchInv'
<1> USE DEF Ended
<1>1. CASE SetClientStatusData \/ SetClientStatusCallback \/ StopServing
  <2>1. /\ UNCHANGED <<forwards, launch, child, writers, link, told>>
        /\ serving' \in {serving, FALSE} /\ statusData' \in {statusData, TRUE}
        /\ statusCB' \in {statusCB, TRUE}
        /\ statusCB' => statusData'
    <3>1. {serving, statusData, statusCB} \subseteq BOOLEAN /\ (statusCB => statusData)
      BY DEF LaunchInv, DataBeforeCallback, LaunchTypeOK
    <3>2. CASE SetClientStatusData
      BY <3>1, <3>2 DEF SetClientStatusData
    <3>3. CASE SetClientStatusCallback
      BY <3>1, <3>3 DEF SetClientStatusCallback
    <3>4. CASE StopServing
      BY <3>1, <3>4 DEF StopServing
    <3> QED BY <1>1, <3>2, <3>3, <3>4
  <2>2. LaunchTypeOK'
    BY <2>1 DEF LaunchInv, LaunchTypeOK
  <2>3. DataBeforeCallback'
    BY <2>1 DEF LaunchInv, DataBeforeCallback
  <2>4. LaunchedReaped'
    BY <2>1 DEF LaunchInv, LaunchedReaped
  <2> QED BY <2>2, <2>3, <2>4 DEF LaunchInv
<1>2. ASSUME NEW l \in Launchers,
             \/ LaunchClient(l) \/ Fork(l) \/ ForkFails(l) \/ MonitorBegins(l)
             \/ MonitorEnds(l) \/ Reap(l) \/ ReapInterrupted(l)
             \/ Exec(l) \/ ClientEnds(l) \/ SendBind(l)
      PROVE  LaunchInv'
  <2>1. UNCHANGED <<serving, forwards, statusData, statusCB, told>>
    BY <1>2 DEF LaunchClient, Fork, ForkFails, MonitorBegins, MonitorEnds, Reap,
         ReapInterrupted, Exec, ClientEnds, SendBind
  <2>2. /\ launch \in [Launchers -> Ended \cup {"idle", "failed", "prepared", "forked",
                                    "started", "monitor", "wait", "lost", "returned",
                                    "abandoned"}]
        /\ child \in [Launchers -> Ended \cup {"none", "forked", "client", "reaped"}]
        /\ writers \in [Launchers -> SUBSET (Launchers \cup {Embedder})]
        /\ link \in [Launchers -> {"none", "sent", "bound", "closed"}]
    BY DEF LaunchInv, LaunchTypeOK
  <2>3. link' \in [Launchers -> {"none", "sent", "bound", "closed"}]
    BY <1>2, <2>2 DEF LaunchClient, Fork, ForkFails, MonitorBegins, MonitorEnds, Reap,
         ReapInterrupted, Exec, ClientEnds, SendBind
  <2>4. writers' \in [Launchers -> SUBSET (Launchers \cup {Embedder})]
    <3>1. CASE Fork(l)
      <4>1. \A k \in Launchers :
              (IF Embedder \in writers[k] THEN writers[k] \cup {l} ELSE writers[k])
                \in SUBSET (Launchers \cup {Embedder})
        BY <2>2
      <4> QED BY <3>1, <4>1 DEF Fork
    <3>2. CASE LaunchClient(l)
      BY <3>2, <2>2 DEF LaunchClient
    <3>3. CASE MonitorBegins(l)
      BY <3>3, <2>2 DEF MonitorBegins
    <3>4. CASE ClientEnds(l)
      <4>1. \A k \in Launchers : writers[k] \ {l} \in SUBSET (Launchers \cup {Embedder})
        BY <2>2
      <4> QED BY <3>4, <4>1 DEF ClientEnds
    <3> QED BY <1>2, <2>2, <3>1, <3>2, <3>3, <3>4 DEF ForkFails, MonitorEnds, Reap,
              ReapInterrupted, Exec, SendBind
  <2>5. \E at, state :
          /\ at \in Ended \cup {"idle", "failed", "prepared", "forked", "started",
                                "monitor", "wait", "lost", "returned", "abandoned"}
          /\ state \in Ended \cup {"none", "forked", "client", "reaped"}
          /\ launch' = [launch EXCEPT ![l] = at]
          /\ child' = [child EXCEPT ![l] = state]
          /\ at \in {"idle", "failed", "prepared"} => state = "none"
          /\ at \in Ended \cup {"returned"} => state = "reaped"
          /\ child[l] = "reaped" => state = "reaped"
    <3> DEFINE Positions == Ended \cup {"idle", "failed", "prepared", "forked", "started",
                                        "monitor", "wait", "lost", "returned", "abandoned"}
               States == Ended \cup {"none", "forked", "client", "reaped"}
    <3>1. /\ launch[l] \in Positions /\ child[l] \in States
          /\ launch = [launch EXCEPT ![l] = launch[l]]
          /\ child = [child EXCEPT ![l] = child[l]]
          /\ launch[l] \in {"idle", "failed", "prepared"} => child[l] = "none"
          /\ launch[l] \in Ended \cup {"returned"} => child[l] = "reaped"
      BY <2>2 DEF LaunchInv, LaunchedReaped
    <3>2. CASE LaunchClient(l)
      BY <3>1, <3>2 DEF LaunchClient
    <3>3. CASE Fork(l)
      BY <3>1, <3>3 DEF Fork
    <3>4. CASE ForkFails(l)
      BY <3>1, <3>4 DEF ForkFails
    <3>5. CASE MonitorBegins(l)
      BY <3>1, <3>5 DEF MonitorBegins
    <3>6. CASE MonitorEnds(l)
      BY <3>1, <3>6 DEF MonitorEnds
    <3>7. CASE Reap(l)
      BY <3>1, <3>7 DEF Reap
    <3>8. CASE ReapInterrupted(l)
      BY <3>1, <3>8 DEF ReapInterrupted
    <3>9. CASE Exec(l)
      BY <3>1, <3>9 DEF Exec
    <3>10. CASE ClientEnds(l)
      <4>1. PICK how \in Ended : child' = [child EXCEPT ![l] = how]
        BY <3>10 DEF ClientEnds
      <4>2. child[l] \in {"client", "forked"} /\ launch' = launch
        BY <3>10 DEF ClientEnds
      <4> QED BY <3>1, <4>1, <4>2
    <3>11. CASE SendBind(l)
      BY <3>1, <3>11 DEF SendBind
    <3> QED BY <1>2, <3>2, <3>3, <3>4, <3>5, <3>6, <3>7, <3>8, <3>9, <3>10, <3>11
  <2>6. /\ launch' \in [Launchers -> Ended \cup {"idle", "failed", "prepared", "forked",
                                     "started", "monitor", "wait", "lost", "returned",
                                     "abandoned"}]
        /\ child' \in [Launchers -> Ended \cup {"none", "forked", "client", "reaped"}]
    BY <2>2, <2>5
  <2>7. LaunchTypeOK'
    BY <2>1, <2>3, <2>4, <2>6 DEF LaunchInv, LaunchTypeOK
  <2>8. LaunchedReaped'
    BY <2>1, <2>2, <2>5 DEF LaunchInv, LaunchedReaped
  <2>9. DataBeforeCallback'
    BY <2>1 DEF LaunchInv, DataBeforeCallback
  <2> QED BY <2>7, <2>8, <2>9 DEF LaunchInv
<1> QED BY <1>1, <1>2

\* However launches, clients and the two assignments of the setter interleave, no report
\* goes without the user data, and none that names a client says it has ended before it
\* has been waited for.
THEOREM ReportsAreTrue == LaunchSpec => []ReportsTrue
<1>1. LaunchInit => LaunchInv
  <2> SUFFICES ASSUME LaunchInit PROVE LaunchInv
    OBVIOUS
  <2>1. LaunchTypeOK
    BY DEF LaunchInit, LaunchTypeOK, Ended
  <2> QED BY <2>1 DEF LaunchInit, LaunchInv, DataBeforeCallback, LaunchedReaped, Ended
<1>2. LaunchInv /\ [LaunchNext]_launchVars => LaunchInv'
  <2> SUFFICES ASSUME LaunchInv, [LaunchNext]_launchVars PROVE LaunchInv'
    OBVIOUS
  <2>1. CASE UNCHANGED launchVars
    BY <2>1 DEF launchVars, LaunchInv, LaunchTypeOK, DataBeforeCallback, LaunchedReaped
  <2>2. CASE LaunchNext
    BY <2>2, ReportingStep, SilentStep DEF LaunchNext, Launching
  <2> QED BY <2>1, <2>2
<1>3. LaunchInv => ReportsTrue
  BY DEF LaunchInv, DataBeforeCallback, LaunchedReaped, ReportsTrue
<1> QED BY <1>1, <1>2, <1>3, PTL DEF LaunchSpec


--------------------------------------------------------------------------------
(* Essos.  DevicesFollowed needs to know of the table's order: the watch is the *)
(* last entry, when there is one; and that a context that does not run the      *)
(* devices has nothing in it.                                                   *)

Descriptors == Devices \cup {"watch"}
Entries == [fd : Descriptors, revents : {"in", "no", "unset"}]

Places == {"idle", "dispatch", "poll", "scan", "listener", "wlListener", "terminated"}

LoopOK(l) ==
  /\ l \in [pc : Places, i : Nat, n : Nat]
  /\ l.pc \in {"scan", "listener"} => l.i # 0

EssTypeOK ==
  /\ fds \in Seq(Entries) /\ news \in Seq({"event", "other"})
  /\ plugged \in SUBSET Devices
  /\ notify \in BOOLEAN /\ excused \in BOOLEAN
  /\ isWayland \in BOOLEAN /\ isInitialized \in BOOLEAN /\ isRunning \in BOOLEAN
  /\ LoopOK(loop)

\* A table with each descriptor once and the watch, if there is one, at the end.
WellListed(list, watched) ==
  /\ list \in Seq(Entries)
  /\ \A i, j \in 1..Len(list) : list[i].fd = list[j].fd => i = j
  /\ watched => Len(list) # 0
  /\ \A i \in 1..Len(list) : list[i].fd = "watch" <=> watched /\ i = Len(list)

FdsOf(list) == {list[i].fd : i \in DOMAIN list}

\* The devices are listed only by a context that runs without a compositor.
OnlyWhileRunning ==
  /\ isRunning => isInitialized
  /\ ~isRunning \/ isWayland => fds = <<>> /\ ~notify

EssInv ==
  /\ EssTypeOK
  /\ WellListed(fds, notify)
  /\ opened = Listed
  /\ NoDeviceMissed
  /\ OnlyWhileRunning

--------------------------------------------------------------------------------
(* The tables that essGetInputDevices makes.                                    *)

\* The lists made from one element and from none.
LEMMA OneEntry ==
  ASSUME NEW e
  PROVE  SetToSeq({e}) = <<e>> /\ SetToSeq({}) = <<>>
<1>1. Cardinality({e}) = 1 /\ Cardinality({}) = 0
  BY FS_Singleton, FS_EmptySet
<1>2. SetToSeq({e}) = <<e>>
  <2> DEFINE one == [i \in 1..1 |-> e]
  <2>1. one \in [1..1 -> {e}] /\ IsInjective(one)
    BY DEF IsInjective
  <2>2. SetToSeq({e}) \in [1..1 -> {e}]
    BY <1>1, <2>1 DEF SetToSeq
  <2> QED BY <2>2
<1>3. SetToSeq({}) = <<>>
  <2> DEFINE zero == [i \in 1..0 |-> e]
  <2>1. zero \in [1..0 -> {}] /\ IsInjective(zero)
    BY DEF IsInjective
  <2>2. SetToSeq({}) \in [1..0 -> {}]
    BY <1>1, <2>1 DEF SetToSeq
  <2> QED BY <2>2
<1> QED BY <1>2, <1>3

\* A function on 1..n is a list of length n.
LEMMA ListsAreFunctions ==
  ASSUME NEW S, NEW n \in Nat, NEW s \in [1..n -> S]
  PROVE  s \in Seq(S) /\ Len(s) = n /\ DOMAIN s = 1..n
OBVIOUS

\* The nodes in the directory's order: each device once.
LEMMA DirectoryOrder ==
  ASSUME NEW found \in SUBSET Devices, NEW order \in SetToSeqs(found)
  PROVE  /\ order \in Seq(found)
         /\ Len(order) \in Nat /\ DOMAIN order = 1..Len(order)
         /\ \A i, j \in 1..Len(order) : order[i] = order[j] => i = j
         /\ \A d \in found : \E i \in 1..Len(order) : order[i] = d
<1> DEFINE n == Cardinality(found)
<1>1. IsFiniteSet(found) /\ n \in Nat
  BY EssosAssumption, FS_Subset, FS_CardinalityType
<1>2. order \in [1..n -> found] /\ \A i, j \in 1..n : i # j => order[i] # order[j]
  BY DEF SetToSeqs
<1>3. order \in Injection(1..n, found)
  BY <1>2 DEF Injection, IsInjective
<1>4. Cardinality(1..n) = n
  BY <1>1, FS_Interval
<1>5. order \in Surjection(1..n, found)
  BY <1>1, <1>3, <1>4, FS_Injection
<1>6. \A d \in found : \E i \in 1..n : order[i] = d
  BY <1>5 DEF Surjection
<1>7. order \in Seq(found) /\ Len(order) = n /\ DOMAIN order = 1..n
  BY <1>1, <1>2
<1> QED BY <1>1, <1>2, <1>6, <1>7

MadeOf(list, order, rest) == list = [i \in DOMAIN order |-> Entry(order[i], "unset")] \o rest

\* A table made of the devices found, before what was kept of the old one, is well listed.
LEMMA TableMade ==
  ASSUME NEW found \in SUBSET Devices, NEW order \in SetToSeqs(found), NEW watched \in BOOLEAN,
         NEW rest \in Seq(Entries), NEW list,
         watched => Len(rest) = 1 /\ rest[1].fd = "watch",
         ~watched => Len(rest) = 0,
         MadeOf(list, order, rest)
  PROVE  /\ WellListed(list, watched)
         /\ FdsOf(list) = found \cup (IF watched THEN {"watch"} ELSE {})
<1> DEFINE n == Len(order)
<1> DEFINE some == [i \in DOMAIN order |-> Entry(order[i], "unset")]
<1>1. /\ order \in Seq(found)
      /\ n \in Nat /\ DOMAIN order = 1..n
      /\ \A i, j \in 1..n : order[i] = order[j] => i = j
      /\ \A d \in found : \E i \in 1..n : order[i] = d
  BY DirectoryOrder
<1>a. \A i \in 1..n : order[i] \in found
  BY <1>1
<1> HIDE DEF n
<1>2. \A i \in 1..n : Entry(order[i], "unset") \in Entries /\ Entry(order[i], "unset").fd = order[i]
  BY <1>a DEF Entry, Entries, Descriptors
<1>3. /\ some \in Seq(Entries) /\ Len(some) = n
      /\ \A i \in 1..n : some[i].fd = order[i]
  <2>1. some = [i \in 1..n |-> Entry(order[i], "unset")]
    BY <1>1
  <2>2. some \in [1..n -> Entries] /\ \A i \in 1..n : some[i].fd = order[i]
    BY <1>2, <2>1
  <2> HIDE DEF some
  <2> QED BY ONLY <1>1, <2>2, ListsAreFunctions
<1> HIDE DEF some
<1>4. /\ list \in Seq(Entries)
      /\ Len(list) = n + Len(rest)
      /\ \A i \in 1..n : list[i] = some[i]
      /\ watched => list[n+1] = rest[1]
  <2>1. list = some \o rest
    BY DEF some, MadeOf
  <2>2. Len(rest) \in Nat
    OBVIOUS
  <2>3. /\ some \o rest \in Seq(Entries)
        /\ Len(some \o rest) = n + Len(rest)
        /\ \A i \in 1..n + Len(rest) : (some \o rest)[i] = IF i <= n THEN some[i] ELSE rest[i - n]
    BY <1>3, ConcatProperties
  <2>4. list \in Seq(Entries) /\ Len(list) = n + Len(rest)
    BY <2>1, <2>3
  <2>5. \A i \in 1..n : list[i] = some[i]
    BY <1>1, <2>1, <2>2, <2>3
  <2>6. ASSUME watched PROVE list[n+1] = rest[1]
    <3>a. n \in Nat /\ Len(rest) = 1
      BY <1>1, <2>6
    <3>1. n + 1 \in 1..n + Len(rest) /\ ~(n + 1 <= n) /\ (n + 1) - n = 1
      BY ONLY <3>a
    <3>2. (some \o rest)[n+1] = rest[(n+1) - n]
      BY <2>3, <3>1
    <3> QED BY <2>1, <3>1, <3>2
  <2> QED BY <2>4, <2>5, <2>6
<1>5. Len(list) = IF watched THEN n + 1 ELSE n
  <2>1. CASE watched
    BY <1>4, <2>1
  <2>2. CASE ~watched
    <3>1. n \in Nat /\ Len(list) = n + 0
      BY <1>1, <1>4, <2>2
    <3> QED BY <2>2, <3>1
  <2> QED BY <2>1, <2>2
<1>6. DOMAIN list = 1..Len(list)
  BY <1>4
<1>7. \A i \in 1..n : list[i].fd = order[i] /\ order[i] \in found /\ order[i] # "watch"
  BY <1>a, <1>3, <1>4, EssosAssumption
<1>8. watched => list[n+1].fd = "watch"
  BY <1>4
<1>9. WellListed(list, watched)
  <2>1. ASSUME NEW i \in 1..Len(list), NEW j \in 1..Len(list), list[i].fd = list[j].fd
        PROVE  i = j
    BY <1>1, <1>5, <1>7, <1>8, <2>1
  <2>2. ASSUME NEW i \in 1..Len(list)
        PROVE  list[i].fd = "watch" <=> watched /\ i = Len(list)
    BY <1>1, <1>5, <1>7, <1>8
  <2>3. watched => Len(list) # 0
    BY <1>1, <1>5
  <2> QED BY <1>4, <2>1, <2>2, <2>3 DEF WellListed
<1>10. FdsOf(list) = found \cup (IF watched THEN {"watch"} ELSE {})
  <2>1. ASSUME NEW fd \in FdsOf(list)
        PROVE  fd \in found \cup (IF watched THEN {"watch"} ELSE {})
    <3>1. PICK i \in 1..Len(list) : fd = list[i].fd
      BY <1>6 DEF FdsOf
    <3> QED BY <1>1, <1>5, <1>7, <1>8, <3>1
  <2>2. ASSUME NEW fd \in found PROVE fd \in FdsOf(list)
    <3>1. PICK i \in 1..n : order[i] = fd
      BY <1>1
    <3>2. i \in DOMAIN list
      BY <1>1, <1>5, <1>6
    <3> QED BY <1>7, <3>1, <3>2 DEF FdsOf
  <2>3. watched => "watch" \in FdsOf(list)
    <3>1. watched => n + 1 \in DOMAIN list
      BY <1>1, <1>5, <1>6
    <3> QED BY <1>8, <3>1 DEF FdsOf
  <2> QED BY <2>1, <2>2, <2>3
<1> QED BY <1>9, <1>10

\* The entries may say something else, and the table is as before.
LEMMA TableKept ==
  ASSUME NEW a, NEW b \in Seq(Entries), NEW watched \in BOOLEAN,
         WellListed(a, watched), Len(b) = Len(a), \A i \in 1..Len(a) : b[i].fd = a[i].fd
  PROVE  WellListed(b, watched) /\ FdsOf(b) = FdsOf(a)
<1>1. a \in Seq(Entries)
  BY DEF WellListed
<1>2. DOMAIN a = 1..Len(a) /\ DOMAIN b = 1..Len(a)
  BY <1>1
<1>3. FdsOf(b) = FdsOf(a)
  BY <1>2 DEF FdsOf
<1>4. WellListed(b, watched)
  BY DEF WellListed
<1> QED BY <1>3, <1>4

\* So is the empty table.
LEMMA EmptyTable == WellListed(<<>>, FALSE) /\ FdsOf(<<>>) = {}
<1> DEFINE nil == <<>>
<1>1. nil \in Seq(Entries) /\ Len(nil) = 0 /\ DOMAIN nil = {}
  OBVIOUS
<1> HIDE DEF nil
<1>2. WellListed(nil, FALSE) /\ FdsOf(nil) = {}
  BY <1>1 DEF WellListed, FdsOf
<1> QED BY <1>2 DEF nil

\* Essos: a new process has no table and no devices.
LEMMA EssInitInv == EssInit => EssInv
<1> SUFFICES ASSUME EssInit PROVE EssInv
  OBVIOUS
<1> USE DEF EssInit
<1>1. EssTypeOK
  <2>1. fds \in Seq(Entries) /\ news \in Seq({"event", "other"})
    <3>1. \A S : <<>> \in Seq(S)
      BY EmptySeq
    <3> QED BY <3>1
  <2>2. LoopOK(loop)
    BY DEF LoopOK, Places, NoLoop
  <2> QED BY <2>1, <2>2 DEF EssTypeOK
<1>2. WellListed(fds, notify) /\ opened = Listed
  BY EmptyTable DEF Listed, FdsOf
<1> QED BY <1>1, <1>2 DEF EssInv, NoDeviceMissed, OnlyWhileRunning

--------------------------------------------------------------------------------
(* Steps that leave the devices alone.                                          *)

\* Where the event loop goes.
LEMMA LoopMoves ==
  ASSUME LoopOK(loop),
         \/ loop' = loop
         \/ loop' = NoLoop
         \/ loop' = NextEntry
         \/ \E p \in {"dispatch", "poll"} : loop' = [NoLoop EXCEPT !.pc = p]
         \/ \E p \in {"dispatch", "wlListener", "terminated"} : loop' = [loop EXCEPT !.pc = p]
         \/ loop.pc = "scan" /\ loop' = [loop EXCEPT !.pc = "listener"]
         \/ \E k \in Nat : loop' = [NextEntry EXCEPT !.n = k]
         \/ \E k \in Nat : loop' = [pc |-> "scan", i |-> 1, n |-> k]
  PROVE  LoopOK(loop)'
<1>1. CASE loop' = loop
  BY <1>1 DEF LoopOK, Places
<1>2. CASE loop' = NoLoop
  BY <1>2 DEF LoopOK, Places, NoLoop
<1>3. CASE loop' = NextEntry
  <2>1. loop' = [pc |-> "scan", i |-> loop.i + 1, n |-> loop.n] /\ loop.i \in Nat /\ loop.n \in Nat
    BY <1>3 DEF LoopOK, Places, NextEntry
  <2> QED BY ONLY <2>1 DEF LoopOK, Places
<1>4. CASE \E p \in {"dispatch", "poll"} : loop' = [NoLoop EXCEPT !.pc = p]
  BY <1>4 DEF LoopOK, Places, NoLoop
<1>5. CASE \E p \in {"dispatch", "wlListener", "terminated"} : loop' = [loop EXCEPT !.pc = p]
  <2>1. PICK p \in {"dispatch", "wlListener", "terminated"} : loop' = [loop EXCEPT !.pc = p]
    BY <1>5
  <2>2. loop' = [pc |-> p, i |-> loop.i, n |-> loop.n] /\ loop.i \in Nat /\ loop.n \in Nat
    BY <2>1 DEF LoopOK, Places
  <2> QED BY ONLY <2>1, <2>2 DEF LoopOK, Places
<1>6. CASE loop.pc = "scan" /\ loop' = [loop EXCEPT !.pc = "listener"]
  <2>1. loop' = [pc |-> "listener", i |-> loop.i, n |-> loop.n] /\ loop.i \in Nat \ {0} /\ loop.n \in Nat
    BY <1>6 DEF LoopOK, Places
  <2> QED BY ONLY <2>1 DEF LoopOK, Places
<1>7. CASE \E k \in Nat : loop' = [NextEntry EXCEPT !.n = k]
  <2>1. PICK k \in Nat : loop' = [NextEntry EXCEPT !.n = k]
    BY <1>7
  <2>a. loop.i \in Nat /\ loop.n \in Nat
    BY DEF LoopOK
  <2>3. loop' = [pc |-> "scan", i |-> loop.i + 1, n |-> k]
    BY <2>1 DEF LoopOK, Places, NextEntry
  <2> QED BY ONLY <2>a, <2>3 DEF LoopOK, Places
<1>8. CASE \E k \in Nat : loop' = [pc |-> "scan", i |-> 1, n |-> k]
  BY ONLY <1>8 DEF LoopOK, Places
<1> QED BY <1>1, <1>2, <1>3, <1>4, <1>5, <1>6, <1>7, <1>8

SameDevices ==
  /\ UNCHANGED <<deviceVars, isWayland>>
  /\ LoopOK(loop)'
  /\ isRunning' \in BOOLEAN /\ isInitialized' \in BOOLEAN
  /\ isRunning' = isRunning
  /\ isRunning' => isInitialized'

\* A step that leaves table, notification and devices alone keeps the invariant,
LEMMA SameDevicesKeep ==
  ASSUME EssInv, SameDevices
  PROVE  EssInv'
BY DEF EssInv, SameDevices, EssTypeOK, Listed, NoDeviceMissed, OnlyWhileRunning, deviceVars


\* The steps of the application and of the event loop that touch no device.
QuietCalls == Create \/ SetKeyListener \/ InitContext \/ CreateNativeWindow \/ StartCrashes \/ RunEventLoopOnce

QuietLoop ==
  \/ LoopEnds \/ Skip \/ Overrun \/ ListenerReturns
  \/ SeatCapabilities \/ KeyboardKey \/ ConnectionLost \/ OutputMode
  \/ \E b \in BOOLEAN : KeyboardKeymap(b) \/ KeyboardModifiers(b)

\* as the calls of the application do that touch none of them,
LEMMA QuietCallsKeep ==
  ASSUME EssInv, QuietCalls
  PROVE  EssInv'
<1>1. EssTypeOK /\ OnlyWhileRunning /\ LoopOK(loop)
  BY DEF EssInv, EssTypeOK
<1>2. CASE Create \/ SetKeyListener \/ CreateNativeWindow
  <2>1. UNCHANGED <<deviceVars, isWayland, isRunning, isInitialized, loop>>
    BY <1>2 DEF Create, SetKeyListener, CreateNativeWindow, setupVars
  <2>2. LoopOK(loop)'
    BY <1>1, <2>1 DEF LoopOK
  <2>3. SameDevices
    BY <1>1, <2>1, <2>2 DEF SameDevices, EssTypeOK, OnlyWhileRunning
  <2> QED BY <2>3, SameDevicesKeep
<1>3. CASE InitContext \/ StartCrashes
  <2>1. UNCHANGED <<deviceVars, isWayland, isRunning, loop>> /\ ~isRunning
    BY <1>3 DEF InitContext, StartCrashes, setupVars
  <2>2. isInitialized' \in BOOLEAN
    BY <1>1, <1>3 DEF InitContext, StartCrashes, PlatformInit, PlatformInitFails, Initialised, EssTypeOK
  <2>3. LoopOK(loop)'
    BY <1>1, <2>1 DEF LoopOK
  <2>4. SameDevices
    BY <1>1, <2>1, <2>2, <2>3 DEF SameDevices, EssTypeOK, OnlyWhileRunning
  <2> QED BY <2>4, SameDevicesKeep
<1>4. CASE RunEventLoopOnce
  <2>1. UNCHANGED <<deviceVars, isWayland, isRunning, isInitialized>>
    BY <1>4 DEF RunEventLoopOnce, setupVars
  <2>2. \E p \in {"dispatch", "poll"} : loop' = [NoLoop EXCEPT !.pc = p]
    BY <1>4 DEF RunEventLoopOnce
  <2>3. LoopOK(loop)'
    BY <1>1, <2>2, LoopMoves
  <2>4. SameDevices
    BY <1>1, <2>1, <2>3 DEF SameDevices, EssTypeOK, OnlyWhileRunning
  <2> QED BY <2>4, SameDevicesKeep
<1> QED BY <1>2, <1>3, <1>4 DEF QuietCalls

\* and the steps of the event loop that only move on.
LEMMA QuietLoopKeeps ==
  ASSUME EssInv, QuietLoop
  PROVE  EssInv'
<1>1. EssTypeOK /\ OnlyWhileRunning /\ LoopOK(loop)
  BY DEF EssInv, EssTypeOK
<1>2. UNCHANGED <<deviceVars, isWayland, isRunning, isInitialized>>
  BY DEF QuietLoop, LoopEnds, Skip, Overrun, ListenerReturns, SeatCapabilities, KeyboardKey, ConnectionLost,
         OutputMode, KeyboardKeymap, KeyboardModifiers, setupVars
<1>3. LoopOK(loop)'
  <2>1. CASE LoopEnds \/ Skip \/ Overrun \/ SeatCapabilities \/ OutputMode \/ \E b \in BOOLEAN : KeyboardKeymap(b)
    <3>1. loop' = loop \/ loop' = NoLoop \/ loop' = NextEntry
      BY <2>1 DEF LoopEnds, Skip, Overrun, SeatCapabilities, OutputMode, KeyboardKeymap
    <3> QED BY <1>1, <3>1, LoopMoves
  <2>2. CASE ListenerReturns
    <3>1. loop' = NextEntry \/ loop' = [loop EXCEPT !.pc = "dispatch"]
      BY <2>2 DEF ListenerReturns
    <3> QED BY <1>1, <3>1, LoopMoves
  <2>3. CASE KeyboardKey \/ ConnectionLost \/ \E b \in BOOLEAN : KeyboardModifiers(b)
    <3>1. \/ loop' = loop \/ loop' = [loop EXCEPT !.pc = "wlListener"]
          \/ loop' = [loop EXCEPT !.pc = "terminated"]
      BY <2>3 DEF KeyboardKey, ConnectionLost, KeyboardModifiers, CallListener
    <3> QED BY <1>1, <3>1, LoopMoves
  <2> QED BY <2>1, <2>2, <2>3 DEF QuietLoop
<1>4. SameDevices
  BY <1>1, <1>2, <1>3 DEF SameDevices, EssTypeOK, OnlyWhileRunning
<1> QED BY <1>4, SameDevicesKeep

\* The mode is chosen before there is a table.
LEMMA SetUseWaylandKeeps ==
  ASSUME EssInv, NEW use \in BOOLEAN, SetUseWayland(use)
  PROVE  EssInv'
<1>1. /\ ~isInitialized /\ isWayland' \in BOOLEAN
      /\ UNCHANGED <<deviceVars, isRunning, isInitialized, loop>>
  BY DEF SetUseWayland
<1>2. ~isRunning
  BY <1>1 DEF EssInv, OnlyWhileRunning
<1> QED BY <1>1, <1>2 DEF EssInv, EssTypeOK, LoopOK, Listed, NoDeviceMissed, OnlyWhileRunning, deviceVars

--------------------------------------------------------------------------------
(* Starting and stopping.                                                       *)

\* The table of a context that has been stopped.
Emptied == fds' = <<>> /\ opened' = {} /\ notify' = FALSE /\ UNCHANGED <<plugged, news, excused>>

\* What a stop releases leaves the table empty,
LEMMA StopKeeps ==
  ASSUME EssInv, LoopOK(loop)', isInitialized' \in BOOLEAN, isWayland' \in BOOLEAN, isRunning' = FALSE,
         IF isRunning /\ ~isWayland THEN StopRelease ELSE UNCHANGED deviceVars
  PROVE  EssInv'
<1>1. Emptied
  <2>1. CASE isRunning /\ ~isWayland
    BY <2>1 DEF StopRelease, EssInv, Emptied
  <2>2. CASE ~(isRunning /\ ~isWayland)
    <3>1. fds = <<>> /\ notify = FALSE
      BY <2>2 DEF EssInv, OnlyWhileRunning, EssTypeOK
    <3>2. opened = {}
      BY <3>1, EmptyTable DEF EssInv, Listed, FdsOf
    <3> QED BY <2>2, <3>1, <3>2 DEF deviceVars, Emptied
  <2> QED BY <2>1, <2>2
<1>2. WellListed(fds', notify') /\ opened' = Listed'
  BY <1>1, EmptyTable DEF Emptied, Listed, FdsOf
<1>3. EssTypeOK'
  BY <1>1, <1>2 DEF Emptied, EssInv, EssTypeOK, WellListed
<1> QED BY <1>1, <1>2, <1>3 DEF EssInv, Emptied, NoDeviceMissed, OnlyWhileRunning

\* whoever stops: the application, the destruction or a listener.
LEMMA StopActionsKeep ==
  ASSUME EssInv, Stop \/ Destroy \/ ListenerStops
  PROVE  EssInv'
<1>1. EssTypeOK /\ OnlyWhileRunning /\ LoopOK(loop)
  BY DEF EssInv, EssTypeOK
<1>2. CASE Stop \/ Destroy
  <2>1. loop' = loop
    BY <1>2 DEF Stop, Destroy
  <2>2. LoopOK(loop)'
    BY <1>1, <2>1 DEF LoopOK
  <2>3. /\ isInitialized' \in BOOLEAN /\ isWayland' \in BOOLEAN /\ isRunning' = FALSE
        /\ IF isRunning /\ ~isWayland THEN StopRelease ELSE UNCHANGED deviceVars
    BY <1>1, <1>2 DEF Stop, Destroy, StopEffect, EssTypeOK
  <2> QED BY <2>2, <2>3, StopKeeps
<1>3. CASE ListenerStops /\ StopEffect
  <2>1. loop' = NextEntry \/ loop' = NoLoop \/ loop' = loop
    BY <1>3 DEF ListenerStops
  <2>2. LoopOK(loop)'
    BY <1>1, <2>1, LoopMoves
  <2>3. /\ isInitialized' \in BOOLEAN /\ isWayland' \in BOOLEAN /\ isRunning' = FALSE
        /\ IF isRunning /\ ~isWayland THEN StopRelease ELSE UNCHANGED deviceVars
    BY <1>1, <1>3 DEF StopEffect, EssTypeOK
  <2> QED BY <2>2, <2>3, StopKeeps
<1>4. CASE ListenerStops /\ UNCHANGED <<setupVars, deviceVars, loop>>
  <2>1. LoopOK(loop)'
    BY <1>1, <1>4 DEF LoopOK
  <2>2. SameDevices
    BY <1>1, <1>4, <2>1 DEF SameDevices, EssTypeOK, OnlyWhileRunning, setupVars
  <2> QED BY <2>2, SameDevicesKeep
<1> QED BY <1>2, <1>3, <1>4 DEF ListenerStops

\* A start finds the table empty and lists what it could open, and the watch.
LEMMA StartKeeps ==
  ASSUME EssInv, StartRuns
  PROVE  EssInv'
<1>1. /\ EssTypeOK /\ OnlyWhileRunning /\ LoopOK(loop)
      /\ ~isRunning /\ isRunning' = TRUE /\ isWayland' = isWayland
  BY DEF EssInv, EssTypeOK, StartRuns
<1>2. isInitialized' = TRUE
  BY <1>1 DEF StartRuns, Initialised, PlatformInit, EssTypeOK
<1>3. LoopOK(loop)'
  <2>1. \E p \in {"dispatch", "poll"} : loop' = [NoLoop EXCEPT !.pc = p]
    BY DEF StartRuns
  <2> QED BY <1>1, <2>1, LoopMoves
<1>4. CASE isWayland
  <2>1. UNCHANGED deviceVars
    BY <1>4 DEF StartRuns
  <2> QED BY <1>1, <1>2, <1>3, <1>4, <2>1
          DEF EssInv, EssTypeOK, Listed, NoDeviceMissed, OnlyWhileRunning, deviceVars
<1>5. CASE ~isWayland
  <2>1. InitInput /\ opened = {}
    <3>1. fds = <<>>
      BY <1>1 DEF OnlyWhileRunning
    <3> QED BY <1>5, <3>1, EmptyTable DEF StartRuns, EssInv, Listed, FdsOf
  <2>2. /\ notify' \in BOOLEAN /\ news' = <<>> /\ UNCHANGED plugged
        /\ \E found \in SUBSET plugged :
              /\ OpenDevices(found, SetToSeq({Entry(w, "unset") : w \in IF notify' THEN {"watch"} ELSE {}}))
              /\ opened' = opened \cup found \cup (IF notify' THEN {"watch"} ELSE {})
    BY <2>1 DEF InitInput
  <2>3. PICK found \in SUBSET plugged :
              /\ OpenDevices(found, SetToSeq({Entry(w, "unset") : w \in IF notify' THEN {"watch"} ELSE {}}))
              /\ opened' = opened \cup found \cup (IF notify' THEN {"watch"} ELSE {})
    BY <2>2
  <2> DEFINE rest == SetToSeq({Entry(w, "unset") : w \in IF notify' THEN {"watch"} ELSE {}})
  <2>4. /\ rest \in Seq(Entries)
        /\ notify' => Len(rest) = 1 /\ rest[1].fd = "watch"
        /\ ~notify' => Len(rest) = 0
    <3>1. CASE notify'
      <4>1. {Entry(w, "unset") : w \in IF notify' THEN {"watch"} ELSE {}} = {Entry("watch", "unset")}
        BY <3>1
      <4>2. rest = <<Entry("watch", "unset")>>
        BY <4>1, OneEntry
      <4>3. Entry("watch", "unset") \in Entries /\ Entry("watch", "unset").fd = "watch"
        BY DEF Entry, Entries, Descriptors
      <4> HIDE DEF rest
      <4> QED BY <3>1, <4>2, <4>3
    <3>2. CASE ~notify'
      <4>1. {Entry(w, "unset") : w \in IF notify' THEN {"watch"} ELSE {}} = {}
        BY <3>2
      <4>2. rest = <<>>
        BY <4>1, OneEntry
      <4> HIDE DEF rest
      <4> QED BY <3>2, <4>2
    <3> QED BY <3>1, <3>2, <2>2
  <2>5. PICK order \in SetToSeqs(found) : fds' = [i \in DOMAIN order |-> Entry(order[i], "unset")] \o rest
    BY <2>3 DEF OpenDevices
  <2>6. excused' = (excused \/ found # plugged)
    BY <2>3 DEF OpenDevices
  <2>7. found \in SUBSET Devices /\ notify' \in BOOLEAN /\ excused' \in BOOLEAN
    BY <1>1, <2>2, <2>6 DEF EssTypeOK
  <2>8. WellListed(fds', notify') /\ FdsOf(fds') = found \cup (IF notify' THEN {"watch"} ELSE {})
    <3> DEFINE list == fds'
    <3> DEFINE watched == notify'
    <3>1. /\ watched \in BOOLEAN /\ found \in SUBSET Devices /\ order \in SetToSeqs(found)
          /\ MadeOf(list, order, rest)
          /\ rest \in Seq(Entries)
          /\ watched => Len(rest) = 1 /\ rest[1].fd = "watch"
          /\ ~watched => Len(rest) = 0
      BY <2>4, <2>5, <2>7 DEF MadeOf
    <3> HIDE DEF rest, list, watched
    <3>2. WellListed(list, watched) /\ FdsOf(list) = found \cup (IF watched THEN {"watch"} ELSE {})
      BY ONLY <3>1, TableMade
    <3> QED BY <3>2 DEF list, watched
  <2>9. opened' = Listed'
    BY <2>1, <2>3, <2>8 DEF Listed, FdsOf
  <2>10. NoDeviceMissed'
    BY <2>2, <2>6, <2>8 DEF NoDeviceMissed, Listed, FdsOf
  <2>11. news' \in Seq({"event", "other"})
    <3>1. \A S : <<>> \in Seq(S)
      BY EmptySeq
    <3> QED BY <2>2, <3>1
  <2>12. EssTypeOK'
    BY <1>1, <1>2, <1>3, <2>2, <2>7, <2>8, <2>11 DEF EssTypeOK, WellListed
  <2> QED BY <1>1, <1>2, <1>5, <2>8, <2>9, <2>10, <2>12 DEF EssInv, OnlyWhileRunning
<1> QED BY <1>4, <1>5


--------------------------------------------------------------------------------
(* Steps of the event loop with the devices, and the devices themselves.        *)

\* poll marks entries and the scan looks at them: their descriptors stay.
LEMMA LookingKeeps ==
  ASSUME EssInv, Poll \/ LookAtUnset
  PROVE  EssInv'
<1>1. /\ EssTypeOK /\ OnlyWhileRunning /\ LoopOK(loop) /\ WellListed(fds, notify)
      /\ fds \in Seq(Entries) /\ Len(fds) \in Nat /\ DOMAIN fds = 1..Len(fds)
  BY DEF EssInv, EssTypeOK
<1>2. UNCHANGED <<notify, opened, plugged, news, excused, isWayland, isRunning, isInitialized>>
  BY DEF Poll, LookAtUnset, setupVars
<1>3. LoopOK(loop)'
  <2>1. CASE Poll
    <3>1. \E k \in Nat : loop' = [pc |-> "scan", i |-> 1, n |-> k]
      BY <1>1, <2>1 DEF Poll
    <3> QED BY <1>1, <3>1, LoopMoves
  <2>2. CASE LookAtUnset
    BY <1>1, <2>2 DEF LookAtUnset, LoopOK
  <2> QED BY <2>1, <2>2
<1>4. \A i \in 1..Len(fds) : fds[i] \in Entries
  BY <1>1
<1>5. fds' \in Seq(Entries) /\ Len(fds') = Len(fds) /\ \A i \in 1..Len(fds) : fds'[i].fd = fds[i].fd
  <2>1. CASE Poll
    <3>1. fds' = [i \in 1..Len(fds) |-> Entry(fds[i].fd, IF Readable(fds[i].fd) THEN "in" ELSE "no")]
      BY <1>1, <2>1 DEF Poll
    <3>2. \A i \in 1..Len(fds) : /\ fds'[i] \in Entries
                                /\ fds'[i].fd = fds[i].fd
      BY <1>4, <3>1 DEF Entry, Entries
    <3>3. fds' \in [1..Len(fds) -> Entries]
      BY <3>1, <3>2
    <3> QED BY <1>1, <3>2, <3>3, ListsAreFunctions
  <2>2. CASE LookAtUnset
    <3>1. PICK revents \in {"in", "no"} : fds' = [fds EXCEPT ![loop.i].revents = revents]
      BY <2>2 DEF LookAtUnset
    <3> DEFINE e == [fds[loop.i] EXCEPT !.revents = revents]
    <3>2. loop.i \in 1..Len(fds)
      BY <1>1, <2>2 DEF LookAtUnset, Scanning, LoopAt, LoopOK
    <3>3. e \in Entries /\ e.fd = fds[loop.i].fd
      <4>1. fds[loop.i] \in Entries
        BY <1>4, <3>2
      <4> QED BY <4>1 DEF Entries
    <3>4. fds' = [fds EXCEPT ![loop.i] = e]
      BY <1>1, <3>1, <3>2
    <3> HIDE DEF e
    <3> QED BY <1>1, <3>2, <3>3, <3>4, ExceptSeq
  <2> QED BY <2>1, <2>2
<1>6. WellListed(fds', notify) /\ FdsOf(fds') = FdsOf(fds)
  <2> DEFINE list == fds'
  <2>1. list \in Seq(Entries) /\ Len(list) = Len(fds) /\ \A i \in 1..Len(fds) : list[i].fd = fds[i].fd
    BY <1>5
  <2> HIDE DEF list
  <2>2. WellListed(list, notify) /\ FdsOf(list) = FdsOf(fds)
    BY <1>1, <2>1, TableKept DEF EssTypeOK
  <2> QED BY <2>2 DEF list
<1>7. Listed' = Listed
  BY <1>6 DEF Listed, FdsOf
<1>8. fds = <<>> => fds' = <<>>
  BY <1>1, <1>5
<1> QED BY <1>1, <1>2, <1>3, <1>5, <1>6, <1>7, <1>8
        DEF EssInv, EssTypeOK, NoDeviceMissed, OnlyWhileRunning

\* A device that fails is closed and leaves the table, and is excused.
LEMMA ReadDeviceKeeps ==
  ASSUME EssInv, ReadDevice
  PROVE  EssInv'
<1>1. LoopOK(loop) /\ loop.pc = "scan"
  BY DEF EssInv, EssTypeOK, ReadDevice, Scanning, LoopAt
<1>2. loop' = [loop EXCEPT !.pc = "listener"] \/ loop' = NextEntry
  BY DEF ReadDevice
<1>3. LoopOK(loop)'
  BY <1>1, <1>2, LoopMoves
<1>4. UNCHANGED <<fds, notify, opened, plugged, news, excused, isWayland, isRunning, isInitialized>>
  BY DEF ReadDevice, setupVars
<1> QED BY <1>3, <1>4 DEF EssInv, EssTypeOK, Listed, NoDeviceMissed, OnlyWhileRunning

\* A hotplug finds the watch behind the devices, and closes and lists those only.
LEMMA HotplugKeeps ==
  ASSUME EssTypeOK, WellListed(fds, notify), opened = Listed, notify, fds # <<>>,
         Hotplug, UNCHANGED <<plugged, notify>>
  PROVE  /\ WellListed(fds', TRUE) /\ opened' = Listed' /\ excused' \in BOOLEAN
         /\ plugged \subseteq Listed' \/ excused'
         /\ Len(fds') \in Nat
<1>1. /\ fds \in Seq(Entries) /\ Len(fds) \in Nat \ {0} /\ DOMAIN fds = 1..Len(fds)
      /\ fds[Len(fds)].fd = "watch" /\ fds[Len(fds)] \in Entries
      /\ \A i, j \in 1..Len(fds) : fds[i].fd = fds[j].fd => i = j
  BY DEF WellListed
<1> DEFINE last == <<fds[Len(fds)]>>
<1>2. last \in Seq(Entries) /\ Len(last) = 1 /\ last[1].fd = "watch"
  BY <1>1
<1>3. PICK found \in SUBSET plugged :
           /\ OpenDevices(found, last)
           /\ opened' = (opened \ {fds[i].fd : i \in 1..Len(fds)-1}) \cup found
  BY DEF Hotplug, Last
<1>4. PICK order \in SetToSeqs(found) : fds' = [i \in DOMAIN order |-> Entry(order[i], "unset")] \o last
  BY <1>3 DEF OpenDevices
<1>5. excused' = (excused \/ found # plugged)
  BY <1>3 DEF OpenDevices
<1>6. found \in SUBSET Devices /\ excused' \in BOOLEAN
  BY <1>5 DEF EssTypeOK
<1>7. WellListed(fds', TRUE) /\ FdsOf(fds') = found \cup {"watch"}
  <2> DEFINE list == fds'
  <2> DEFINE yes == notify'
  <2>1. MadeOf(list, order, last)
    BY <1>4 DEF MadeOf
  <2>2. /\ yes \in BOOLEAN /\ yes
        /\ found \in SUBSET Devices /\ order \in SetToSeqs(found) /\ last \in Seq(Entries)
        /\ yes => Len(last) = 1 /\ last[1].fd = "watch"
        /\ ~yes => Len(last) = 0
    BY <1>2, <1>6 DEF EssTypeOK
  <2> HIDE DEF list, last, yes
  <2>3. WellListed(list, yes) /\ FdsOf(list) = found \cup (IF yes THEN {"watch"} ELSE {})
    <3>1. ASSUME NEW r \in Seq(Entries), NEW w \in BOOLEAN, NEW l, MadeOf(l, order, r),
                 w => Len(r) = 1 /\ r[1].fd = "watch", ~w => Len(r) = 0
          PROVE  WellListed(l, w) /\ FdsOf(l) = found \cup (IF w THEN {"watch"} ELSE {})
      <4>1. found \in SUBSET Devices /\ order \in SetToSeqs(found)
        BY <2>2
      <4> QED BY ONLY <3>1, <4>1, TableMade
    <3>2. yes \in BOOLEAN /\ yes /\ last \in Seq(Entries) /\ Len(last) = 1 /\ last[1].fd = "watch"
      BY <2>2
    <3>3. (yes => Len(last) = 1 /\ last[1].fd = "watch") /\ (~yes => Len(last) = 0)
      BY <3>2
    <3> QED BY ONLY <2>1, <3>1, <3>2, <3>3
  <2> QED BY <2>2, <2>3 DEF list, yes
<1>8. opened \ {fds[i].fd : i \in 1..Len(fds)-1} = {"watch"}
  <2>1. "watch" \in opened
    BY <1>1 DEF Listed
  <2>2. "watch" \notin {fds[i].fd : i \in 1..Len(fds)-1}
    BY <1>1
  <2>3. ASSUME NEW fd \in opened, fd # "watch"
        PROVE  fd \in {fds[i].fd : i \in 1..Len(fds)-1}
    <3>1. PICK i \in 1..Len(fds) : fd = fds[i].fd
      BY <1>1 DEF Listed
    <3>2. i # Len(fds)
      BY <1>1, <2>3, <3>1
    <3>3. i \in 1..Len(fds)-1
      <4>1. Len(fds) \in Nat
        BY <1>1
      <4> QED BY <3>2, <4>1
    <3> QED BY <3>1, <3>3
  <2> QED BY <2>1, <2>2, <2>3
<1>9. opened' = Listed'
  BY <1>3, <1>7, <1>8 DEF Listed, FdsOf
<1>10. plugged \subseteq Listed' \/ excused'
  BY <1>5, <1>7 DEF Listed, FdsOf
<1>11. Len(fds') \in Nat
  BY <1>7 DEF WellListed
<1> QED BY <1>6, <1>7, <1>9, <1>10, <1>11

\* The watch's news make a new table, with the watch last again.
LEMMA ReadNewsKeeps ==
  ASSUME EssInv, ReadNews
  PROVE  EssInv'
<1>1. /\ EssTypeOK /\ OnlyWhileRunning /\ LoopOK(loop) /\ WellListed(fds, notify)
      /\ opened = Listed /\ NoDeviceMissed
      /\ fds \in Seq(Entries) /\ Len(fds) \in Nat
  BY DEF EssInv, EssTypeOK
<1>2. loop.i \in 1..Len(fds) /\ fds[loop.i].fd = "watch"
  BY <1>1 DEF ReadNews, Scanning, LoopAt, LoopOK
<1>3. notify = TRUE /\ fds # <<>>
  BY <1>1, <1>2 DEF WellListed, EssTypeOK
<1>4. /\ news' = <<>> /\ UNCHANGED <<notify, plugged, isWayland, isRunning, isInitialized>>
  BY DEF ReadNews, setupVars
<1>5. news' \in Seq({"event", "other"})
  <2>1. \A S : <<>> \in Seq(S)
    BY EmptySeq
  <2> QED BY <1>4, <2>1
<1>6. loop' = [NextEntry EXCEPT !.n = Len(fds')]
  BY DEF ReadNews
<1>7. CASE Head(news) = "event"
  <2>1. Hotplug
    BY <1>7 DEF ReadNews
  <2>2. /\ WellListed(fds', TRUE) /\ opened' = Listed' /\ excused' \in BOOLEAN
        /\ plugged \subseteq Listed' \/ excused'
        /\ Len(fds') \in Nat
    BY <1>1, <1>3, <1>4, <2>1, HotplugKeeps
  <2>3. LoopOK(loop)'
    <3>1. \E k \in Nat : loop' = [NextEntry EXCEPT !.n = k]
      BY <1>6, <2>2
    <3> QED BY <1>1, <3>1, LoopMoves
  <2>4. EssTypeOK'
    BY <1>1, <1>4, <1>5, <2>2, <2>3 DEF EssTypeOK, WellListed
  <2>5. NoDeviceMissed'
    BY <1>4, <2>2 DEF NoDeviceMissed
  <2>6. OnlyWhileRunning'
    BY <1>1, <1>3, <1>4 DEF OnlyWhileRunning
  <2> QED BY <1>3, <1>4, <2>2, <2>4, <2>5, <2>6 DEF EssInv
<1>8. CASE Head(news) # "event"
  <2>1. excused' = (excused \/ "event" \in ToSet(news)) /\ UNCHANGED <<fds, opened>>
    BY <1>8 DEF ReadNews
  <2>2. LoopOK(loop)'
    <3>1. \E k \in Nat : loop' = [NextEntry EXCEPT !.n = k]
      BY <1>1, <1>6, <2>1
    <3> QED BY <1>1, <3>1, LoopMoves
  <2>3. EssTypeOK'
    BY <1>1, <1>4, <1>5, <2>1, <2>2 DEF EssTypeOK
  <2>4. NoDeviceMissed'
    BY <1>1, <1>4, <2>1 DEF NoDeviceMissed, Listed
  <2> QED BY <1>1, <1>4, <2>1, <2>3, <2>4 DEF EssInv, OnlyWhileRunning, Listed
<1> QED BY <1>7, <1>8

\* A device that comes is told of with an event.
LEMMA NodesKeep ==
  ASSUME EssInv, NEW d \in Devices, NEW nodes \in Nodes, Plug(d, nodes) \/ Unplug(d, nodes)
  PROVE  EssInv'
<1>1. /\ EssTypeOK /\ OnlyWhileRunning /\ NoDeviceMissed
      /\ UNCHANGED <<fds, notify, opened, excused, isWayland, isRunning, isInitialized, loop>>
  BY DEF EssInv, Plug, Unplug, setupVars
<1>2. plugged' \in SUBSET Devices
  BY <1>1 DEF Plug, Unplug, EssTypeOK
<1>3. nodes \in Seq({"event", "other"}) /\ "event" \in ToSet(nodes)
  <2>1. CASE nodes = <<"event">>
    BY <2>1 DEF ToSet
  <2>2. CASE nodes = <<"other", "event">>
    BY <2>2 DEF ToSet
  <2>3. CASE nodes = <<"event", "other">>
    BY <2>3 DEF ToSet
  <2> QED BY <2>1, <2>2, <2>3 DEF Nodes
<1>4. /\ news' \in Seq({"event", "other"})
      /\ "event" \in ToSet(news) => "event" \in ToSet(news')
      /\ notify => "event" \in ToSet(news')
  <2>1. CASE ~notify
    BY <1>1, <2>1 DEF Plug, Unplug, Tell, EssTypeOK
  <2>2. CASE notify
    <3>1. news' = news \o nodes /\ news \in Seq({"event", "other"})
      BY <1>1, <2>2 DEF Plug, Unplug, Tell, EssTypeOK
    <3>2. /\ news' \in Seq({"event", "other"}) /\ Len(news') = Len(news) + Len(nodes)
          /\ Len(news) \in Nat /\ Len(nodes) \in Nat
          /\ \A i \in 1..Len(news) + Len(nodes) : news'[i] = IF i <= Len(news) THEN news[i] ELSE nodes[i - Len(news)]
      BY <1>3, <3>1, ConcatProperties
    <3>3. PICK k \in 1..Len(nodes) : nodes[k] = "event"
      BY <1>3 DEF ToSet
    <3>4. Len(news) + k \in 1..Len(news') /\ ~(Len(news) + k <= Len(news)) /\ (Len(news) + k) - Len(news) = k
      BY <3>2
    <3>5. news'[Len(news) + k] = "event" /\ DOMAIN news' = 1..Len(news')
      BY <3>2, <3>3, <3>4
    <3> QED BY <3>2, <3>4, <3>5 DEF ToSet
  <2> QED BY <2>1, <2>2
<1>5. NoDeviceMissed'
  BY <1>1, <1>4 DEF NoDeviceMissed
<1> QED BY <1>1, <1>2, <1>4, <1>5 DEF EssInv, EssTypeOK, LoopOK, Listed, OnlyWhileRunning

\* Every step of a native Essos context.
LEMMA EssStepInv == EssInv /\ [EssNext]_essVars => EssInv'
<1> SUFFICES ASSUME EssInv, [EssNext]_essVars PROVE EssInv'
  OBVIOUS
<1>1. CASE QuietCalls
  BY <1>1, QuietCallsKeep
<1>2. CASE QuietLoop
  BY <1>2, QuietLoopKeeps
<1>3. CASE \E use \in BOOLEAN : SetUseWayland(use)
  BY <1>3, SetUseWaylandKeeps
<1>4. CASE Stop \/ Destroy \/ ListenerStops
  BY <1>4, StopActionsKeep
<1>5. CASE StartRuns
  BY <1>5, StartKeeps
<1>6. CASE Poll \/ LookAtUnset
  BY <1>6, LookingKeeps
<1>7. CASE ReadNews
  BY <1>7, ReadNewsKeeps
<1>8. CASE ReadDevice
  BY <1>8, ReadDeviceKeeps
<1>9. CASE \E d \in Devices, nodes \in Nodes : Plug(d, nodes) \/ Unplug(d, nodes)
  BY <1>9, NodesKeep
<1>10. CASE (\E d \in Devices : Press(d)) \/ UNCHANGED essVars
  <2>1. UNCHANGED <<fds, notify, opened, plugged, news, excused, isWayland, isRunning, isInitialized, loop>>
    BY <1>10 DEF Press, essVars, setupVars, deviceVars
  <2> QED BY <2>1 DEF EssInv, EssTypeOK, LoopOK, Listed, NoDeviceMissed, OnlyWhileRunning
<1> QED BY <1>1, <1>2, <1>3, <1>4, <1>5, <1>6, <1>7, <1>8, <1>9, <1>10 DEF EssNext, QuietCalls, QuietLoop

\* The invariant is strong enough.
LEMMA EssInvImplies == EssInv => DevicesFollowed
<1> SUFFICES ASSUME EssInv PROVE DevicesFollowed
  OBVIOUS
<1>1. /\ WellListed(fds, notify) /\ opened = Listed /\ NoDeviceMissed
      /\ fds \in Seq(Entries) /\ DOMAIN fds = 1..Len(fds) /\ Len(fds) \in Nat
  BY DEF EssInv, EssTypeOK
<1>2. IsInjective([i \in DOMAIN fds |-> fds[i].fd])
  BY <1>1 DEF IsInjective, WellListed
<1>3. notify => Last(fds).fd = "watch"
  <2>1. ASSUME notify PROVE fds[Len(fds)].fd = "watch"
    <3> DEFINE n == Len(fds)
    <3>a. n \in Nat /\ n # 0
      BY <1>1, <2>1 DEF WellListed
    <3> HIDE DEF n
    <3>1. n \in 1..n
      BY <3>a
    <3>2. \A i \in 1..n : fds[i].fd = "watch" <=> notify /\ i = n
      BY <1>1 DEF WellListed, n
    <3>3. fds[n].fd = "watch"
      BY <2>1, <3>1, <3>2
    <3> QED BY <3>3 DEF n
  <2> QED BY <2>1 DEF Last
<1> QED BY <1>1, <1>2, <1>3 DEF DevicesFollowed, DescriptorsListed

\* Each device that is there is open or announced, and no descriptor is forgotten.
THEOREM DevicesAreFollowed == EssSpec => []DevicesFollowed
BY EssInitInv, EssStepInv, EssInvImplies, PTL DEF EssSpec

--------------------------------------------------------------------------------
(* mediacapture.  Bytes leave in order because the ring holds, from its tail on,  *)
(* the bytes that follow what curl has and what the callback has read, as long as *)
(* what is read is posted; and what has been offered ends where the ring does, as *)
(* long as what is offered is put in.                                             *)

Cells == 0..Capacity-1
HoldSteps == {"none", "copy", "signal", "full", "wait", "woken", "unlock", "close", "awaken", "join", "report"}
PostSteps == {"none", "created", "curl", "copy", "empty", "wait", "woken", "return", "ending"}
CallerSteps == {"idle", "prepared", "stop", "process", "processing", "processed", "stopping"}

CapTypeOK ==
  /\ hold \in [by : Callers \cup {"nobody"}, at : HoldSteps, left : Nat, then : {"none", "unlock", "close"}]
  /\ post \in [at : PostSteps, got : Seq(Int)]
  /\ pc \in [Callers -> CallerSteps]
  /\ offered \in Nat /\ posted \in Seq(Int) /\ completes \in Nat
  /\ captureToFile \in BOOLEAN /\ captureActive \in BOOLEAN /\ captureCompleteSent \in BOOLEAN
  /\ postThreadStopRequested \in BOOLEAN /\ postThreadAborted \in BOOLEAN /\ unjoined \in BOOLEAN

\* The j-th byte of a ring from its tail on, and where it is.
Place(r, j) == IF r.tail + j >= Capacity THEN r.tail + j - Capacity ELSE r.tail + j

RingOK(r) ==
  /\ r \in [buf : [Cells -> Int], head : Cells, tail : Cells, count : 0..Capacity, there : BOOLEAN]
  /\ r.head = Place(r, r.count)

\* A ring whose bytes are those that follow the first n.
Follows(r, n) == \A j \in 0..r.count-1 : r.buf[Place(r, j)] = n + j + 1

InOrderFrom(got, n) == \A i \in 1..Len(got) : got[i] = n + i

GotOK ==
  /\ Len(post.got) <= ReadLen
  /\ post.at \in {"none", "created", "curl", "ending"} => post.got = <<>>

\* The post thread will go on with what is in the ring.
StillReads ==
  \/ post.at \in {"created", "curl", "copy", "empty", "wait", "woken"}
  \/ post.at = "return" /\ post.got # <<>>

Read == Len(posted) + Len(post.got)
EmitSteps == {"copy", "signal", "full", "wait", "woken"}
Pending == IF hold.at \in EmitSteps THEN hold.left ELSE 0

BytesFollow ==
  StillReads =>
    /\ ~captureToFile /\ ~postThreadAborted
    /\ InOrderFrom(post.got, Len(posted))
    /\ Follows(ring, Read)
    /\ ~postThreadStopRequested => offered - Pending = Read + ring.count

\* Once a stop has been requested nothing is put into the ring.
NothingMore ==
  ~captureToFile /\ postThreadStopRequested =>
     /\ hold.at \notin {"copy", "full", "wait"}
     /\ hold.at = "signal" => hold.left = 0

CompletesCounted == ~captureToFile => completes = IF captureCompleteSent THEN 1 ELSE 0

\* The ring goes when the post thread is gone, or was not waited for.
Busy == captureActive \/ \E t \in Callers : pc[t] # "idle"

RingThere ==
  /\ ~captureToFile /\ Busy => ring.there \/ postThreadStopRequested \/ unjoined
  /\ ~captureToFile /\ hold.at \in EmitSteps => ring.there \/ unjoined
  /\ hold.at \in {"awaken", "join"} => postThreadStopRequested
  /\ hold.at = "report" /\ ~unjoined => post = Reads /\ postThreadStopRequested

CapInv ==
  /\ CapTypeOK
  /\ RingOK(ring)
  /\ GotOK
  /\ PostedInOrder
  /\ CompletesCounted
  /\ FreedAfterUse
  /\ Unbroken => BytesFollow /\ NothingMore /\ RingThere

--------------------------------------------------------------------------------
(* The ring.                                                                    *)

\* The fields of a ring.
LEMMA RingFields ==
  ASSUME NEW r, RingOK(r)
  PROVE  /\ Capacity \in Nat \ {0} /\ ReadLen \in Nat \ {0}
         /\ r.head \in 0..Capacity-1 /\ r.tail \in 0..Capacity-1 /\ r.count \in 0..Capacity
         /\ r.buf \in [Cells -> Int] /\ r.there \in BOOLEAN
         /\ r.head = IF r.tail + r.count >= Capacity THEN r.tail + r.count - Capacity ELSE r.tail + r.count
         /\ r = [buf |-> r.buf, head |-> r.head, tail |-> r.tail, count |-> r.count, there |-> r.there]
BY CaptureAssumption DEF RingOK, Place, Cells

\* What makes a ring one.
LEMMA RingMade ==
  ASSUME NEW r, NEW buf \in [Cells -> Int], NEW head \in 0..Capacity-1, NEW tail \in 0..Capacity-1,
         NEW count \in 0..Capacity, NEW there \in BOOLEAN,
         r = [buf |-> buf, head |-> head, tail |-> tail, count |-> count, there |-> there],
         head = IF tail + count >= Capacity THEN tail + count - Capacity ELSE tail + count
  PROVE  /\ RingOK(r)
         /\ r.buf = buf /\ r.head = head /\ r.tail = tail /\ r.count = count /\ r.there = there
BY DEF RingOK, Place, Cells

\* How much one memcpy puts in.
RunIn(r, n) == Least(n, IF r.head >= r.tail THEN Capacity - r.head ELSE r.tail - r.head)

\* A run that is put in fits before the end of the buffer.
LEMMA RunInBounds ==
  ASSUME NEW r, RingOK(r), NEW n \in Nat, n <= Room(r)
  PROVE  /\ RunIn(r, n) \in 0..n
         /\ r.head + RunIn(r, n) <= Capacity
         /\ RunIn(r, n) < n => r.head + RunIn(r, n) = Capacity /\ n - RunIn(r, n) <= r.tail /\ r.head >= r.tail
BY RingFields DEF RunIn, Least, Room

\* Putting one run in appends the bytes to those the ring holds.
LEMMA PutRunPuts ==
  ASSUME NEW r, RingOK(r), NEW n \in Nat, n <= Room(r), NEW first \in Int,
         NEW k, k = RunIn(r, n), NEW s, s = PutRun(r, first, n)
  PROVE  /\ RingOK(s)
         /\ s.head = Wrap(r.head + k) /\ s.tail = r.tail /\ s.count = r.count + k /\ s.there = r.there
         /\ \A j \in 0..r.count-1 : s.buf[Place(s, j)] = r.buf[Place(r, j)]
         /\ \A j \in r.count..s.count-1 : s.buf[Place(s, j)] = first + (j - r.count)
<1> DEFINE h == r.head
<1> DEFINE t == r.tail
<1> DEFINE c == r.count
<1> DEFINE old == r.buf
<1> DEFINE new == [i \in Cells |-> IF i \in h..h+k-1 THEN first + (i - h) ELSE old[i]]
<1>1. /\ Capacity \in Nat \ {0}
      /\ h \in 0..Capacity-1 /\ t \in 0..Capacity-1 /\ c \in 0..Capacity
      /\ old \in [Cells -> Int] /\ r.there \in BOOLEAN
      /\ h = IF t + c >= Capacity THEN t + c - Capacity ELSE t + c
      /\ r = [buf |-> old, head |-> h, tail |-> t, count |-> c, there |-> r.there]
  BY RingFields
<1>2. k \in 0..n /\ h + k <= Capacity /\ n <= Capacity - c
  BY RunInBounds DEF Room
<1>3. s = [buf |-> new, head |-> Wrap(h + k), tail |-> t, count |-> c + k, there |-> r.there]
  <2>1. s = [r EXCEPT !.buf = [i \in DOMAIN @ |-> IF i \in r.head..r.head+k-1 THEN first + (i - r.head) ELSE @[i]],
                      !.head = Wrap(@ + k), !.count = @ + k]
    BY DEF PutRun, RunIn
  <2>2. DOMAIN old = Cells
    BY <1>1
  <2> QED BY <1>1, <2>1, <2>2
<1>4. /\ new \in [Cells -> Int] /\ Wrap(h + k) \in 0..Capacity-1 /\ c + k \in 0..Capacity
      /\ Wrap(h + k) = IF t + (c + k) >= Capacity THEN t + (c + k) - Capacity ELSE t + (c + k)
  <2>1. new \in [Cells -> Int]
    <3>1. \A i \in Cells : i \in Int /\ old[i] \in Int
      BY <1>1 DEF Cells
    <3> QED BY <1>1, <3>1
  <2>2. k = 0 \/ c < Capacity
    BY <1>1, <1>2
  <2> QED BY <1>1, <1>2, <2>1, <2>2 DEF Wrap
<1> HIDE DEF new
<1>5. /\ RingOK(s)
      /\ s.buf = new /\ s.head = Wrap(h + k) /\ s.tail = t /\ s.count = c + k /\ s.there = r.there
  BY <1>1, <1>3, <1>4, RingMade
<1>6. \A j \in Nat : Place(s, j) = Place(r, j)
  BY <1>5 DEF Place
<1>a. /\ Capacity \in Nat \ {0}
      /\ h \in 0..Capacity-1 /\ t \in 0..Capacity-1 /\ c \in 0..Capacity
      /\ h = IF t + c >= Capacity THEN t + c - Capacity ELSE t + c
      /\ k \in 0..n /\ n \in Nat /\ h + k <= Capacity /\ n <= Capacity - c
      /\ \A j : Place(r, j) = IF t + j >= Capacity THEN t + j - Capacity ELSE t + j
  BY <1>1, <1>2 DEF Place
<1> HIDE DEF h, t, c, old
<1>7. ASSUME NEW j \in 0..c-1 PROVE new[Place(r, j)] = old[Place(r, j)]
  <2>1. Place(r, j) \in 0..Capacity-1 /\ Place(r, j) \notin h..h+k-1
    BY ONLY <1>a, j \in 0..c-1
  <2> QED BY <2>1 DEF new, Cells
<1>8. ASSUME NEW j \in c..c+k-1 PROVE new[Place(r, j)] = first + (j - c)
  <2>1. Place(r, j) \in 0..Capacity-1 /\ Place(r, j) \in h..h+k-1 /\ Place(r, j) - h = j - c
    BY ONLY <1>a, j \in c..c+k-1
  <2>2. new[Place(r, j)] = first + (Place(r, j) - h)
    BY <2>1 DEF new, Cells
  <2> QED BY <2>1, <2>2
<1>9. \A j \in 0..c-1 : s.buf[Place(s, j)] = old[Place(r, j)]
  <2>1. \A j \in 0..c-1 : j \in Nat
    BY <1>a
  <2> QED BY <1>5, <1>6, <1>7, <2>1
<1>10. \A j \in c..c+k-1 : s.buf[Place(s, j)] = first + (j - c)
  <2>1. \A j \in c..c+k-1 : j \in Nat
    BY <1>a
  <2> QED BY <1>5, <1>6, <1>8, <2>1
<1>11. s.count = c + k
  BY <1>5
<1>12. \A j \in c..s.count-1 : s.buf[Place(s, j)] = first + (j - c)
  BY ONLY <1>10, <1>11, <1>a
<1>13. /\ RingOK(s) /\ s.head = Wrap(r.head + k) /\ s.tail = r.tail /\ s.count = r.count + k /\ s.there = r.there
  BY <1>5 DEF h, t, c
<1>14. \A j \in 0..r.count-1 : s.buf[Place(s, j)] = r.buf[Place(r, j)]
  BY <1>9 DEF c, old
<1>15. \A j \in r.count..s.count-1 : s.buf[Place(s, j)] = first + (j - r.count)
  BY <1>12 DEF c
<1> HIDE DEF c, old
<1> QED BY ONLY <1>13, <1>14, <1>15

\* Two runs put all of it, over the end of the buffer.
LEMMA PutAll ==
  ASSUME NEW r, RingOK(r), NEW n \in Nat, n <= Room(r), NEW first \in Int,
         NEW s, s = PutRun(r, first, n), NEW k, k = s.count - r.count,
         NEW u, u = PutRun(s, first + k, n - k)
  PROVE  /\ RingOK(u) /\ u.count = r.count + n /\ u.there = r.there /\ u.tail = r.tail
         /\ \A j \in 0..r.count-1 : u.buf[Place(u, j)] = r.buf[Place(r, j)]
         /\ \A j \in r.count..u.count-1 : u.buf[Place(u, j)] = first + (j - r.count)
<1> DEFINE run == RunIn(r, n)
<1>1. /\ run \in 0..n /\ r.head + run <= Capacity
      /\ run < n => r.head + run = Capacity /\ n - run <= r.tail /\ r.head >= r.tail
  BY RunInBounds
<1>2. /\ RingOK(s)
      /\ s.head = Wrap(r.head + run) /\ s.tail = r.tail /\ s.count = r.count + run /\ s.there = r.there
      /\ \A j \in 0..r.count-1 : s.buf[Place(s, j)] = r.buf[Place(r, j)]
      /\ \A j \in r.count..s.count-1 : s.buf[Place(s, j)] = first + (j - r.count)
  BY PutRunPuts
<1>3. /\ Capacity \in Nat \ {0} /\ r.head \in 0..Capacity-1 /\ r.tail \in 0..Capacity-1 /\ r.count \in 0..Capacity
      /\ n <= Capacity - r.count
  BY RingFields DEF Room
<1> HIDE DEF run
<1>4. k = run /\ n - k \in Nat /\ n - k <= Room(s) /\ first + k \in Int
  BY <1>1, <1>2, <1>3 DEF Room
<1> DEFINE more == n - k
<1> DEFINE next == first + k
<1> DEFINE l == RunIn(s, more)
<1>5. l = more
  <2>1. CASE run < n
    <3>1. s.head = 0
      BY <1>1, <1>2, <1>3, <2>1 DEF Wrap
    <3> QED BY <1>1, <1>2, <1>3, <1>4, <2>1, <3>1 DEF RunIn, Least
  <2>2. CASE run = n
    <3>1. more = 0
      BY <1>4, <2>2
    <3>2. s.head \in 0..Capacity-1 /\ s.tail \in 0..Capacity-1
      BY <1>2, RingFields
    <3> QED BY <1>3, <3>1, <3>2 DEF RunIn, Least
  <2> QED BY <1>1, <2>1, <2>2
<1>6. more \in Nat /\ next \in Int /\ more <= Room(s) /\ u = PutRun(s, next, more)
  BY <1>4
<1> HIDE DEF more, next, l
<1>7. /\ RingOK(u) /\ u.tail = s.tail /\ u.count = s.count + l /\ u.there = s.there
      /\ \A j \in 0..s.count-1 : u.buf[Place(u, j)] = s.buf[Place(s, j)]
      /\ \A j \in s.count..u.count-1 : u.buf[Place(u, j)] = next + (j - s.count)
  BY <1>2, <1>6, PutRunPuts DEF l
<1>8. u.count = r.count + n /\ s.count = r.count + k /\ k \in 0..n
  BY <1>1, <1>2, <1>3, <1>4, <1>5, <1>7 DEF more
<1>9. \A j \in 0..r.count-1 : u.buf[Place(u, j)] = r.buf[Place(r, j)]
  BY <1>2, <1>3, <1>7, <1>8
<1>10. ASSUME NEW j \in r.count..u.count-1 PROVE u.buf[Place(u, j)] = first + (j - r.count)
  <2>1. CASE j < s.count
    <3>1. j \in r.count..s.count-1 /\ j \in 0..s.count-1
      BY <1>3, <1>8, <2>1
    <3> QED BY <1>2, <1>7, <3>1
  <2>2. CASE j >= s.count
    <3>1. j \in s.count..u.count-1
      BY <1>3, <1>8, <2>2
    <3>2. next + (j - s.count) = first + (j - r.count)
      BY <1>3, <1>8 DEF next
    <3> QED BY <1>7, <3>1, <3>2
  <2> QED BY <1>3, <1>8, <2>1, <2>2
<1> QED BY <1>2, <1>7, <1>8, <1>9, <1>10

\* Taking n bytes with one memcpy.
LEMMA TakeTakes ==
  ASSUME NEW r, RingOK(r), NEW n \in Nat, n <= r.count, NEW k, k = TakeRun(r, n), NEW s, s = Dropped(r, k)
  PROVE  /\ k \in 0..n /\ RingOK(s) /\ s.count = r.count - k /\ s.there = r.there
         /\ BytesAt(r, k) \in Seq(Int) /\ Len(BytesAt(r, k)) = k
         /\ \A i \in 1..k : BytesAt(r, k)[i] = r.buf[Place(r, i - 1)]
         /\ \A j \in 0..s.count-1 : s.buf[Place(s, j)] = r.buf[Place(r, j + k)]
<1> DEFINE h == r.head
<1> DEFINE t == r.tail
<1> DEFINE c == r.count
<1>1. /\ Capacity \in Nat \ {0}
      /\ h \in 0..Capacity-1 /\ t \in 0..Capacity-1 /\ c \in 0..Capacity
      /\ r.buf \in [Cells -> Int] /\ r.there \in BOOLEAN
      /\ h = IF t + c >= Capacity THEN t + c - Capacity ELSE t + c
      /\ r = [buf |-> r.buf, head |-> h, tail |-> t, count |-> c, there |-> r.there]
  BY RingFields
<1>2. k \in 0..n /\ t + k <= Capacity /\ k <= c
  BY <1>1 DEF TakeRun, Least
<1>3. s = [buf |-> r.buf, head |-> h, tail |-> Wrap(t + k), count |-> c - k, there |-> r.there]
  BY <1>1 DEF Dropped
<1>4. /\ Wrap(t + k) \in 0..Capacity-1 /\ c - k \in 0..Capacity
      /\ h = IF Wrap(t + k) + (c - k) >= Capacity THEN Wrap(t + k) + (c - k) - Capacity ELSE Wrap(t + k) + (c - k)
  BY <1>1, <1>2 DEF Wrap
<1>5. RingOK(s) /\ s.buf = r.buf /\ s.tail = Wrap(t + k) /\ s.count = c - k /\ s.there = r.there
  BY <1>1, <1>3, <1>4, RingMade
<1>6. \A i \in 1..k : t + i - 1 \in Cells /\ t + i - 1 = Place(r, i - 1) /\ r.buf[t + i - 1] \in Int
  <2>1. ASSUME NEW i \in 1..k PROVE t + i - 1 \in 0..Capacity-1 /\ t + i - 1 = Place(r, i - 1)
    BY <1>1, <1>2 DEF Place
  <2> QED BY <1>1, <2>1 DEF Cells
<1>7. BytesAt(r, k) \in [1..k -> Int]
  BY <1>6 DEF BytesAt
<1>8. BytesAt(r, k) \in Seq(Int) /\ Len(BytesAt(r, k)) = k
  BY <1>2, <1>7, ListsAreFunctions
<1>9. \A i \in 1..k : BytesAt(r, k)[i] = r.buf[Place(r, i - 1)]
  BY <1>6 DEF BytesAt
<1>10. ASSUME NEW j \in 0..s.count-1 PROVE s.buf[Place(s, j)] = r.buf[Place(r, j + k)]
  <2>1. Place(s, j) = Place(r, j + k)
    BY <1>1, <1>2, <1>5 DEF Place, Wrap
  <2> QED BY <1>5, <2>1
<1> QED BY <1>2, <1>5, <1>8, <1>9, <1>10


\* The empty list is in order from anywhere.
LEMMA NothingInOrder == ASSUME NEW n PROVE <<>> \in Seq(Int) /\ Len(<<>>) = 0 /\ InOrderFrom(<<>>, n)
<1> DEFINE nil == <<>>
<1>1. nil \in Seq(Int) /\ Len(nil) = 0
  <2>1. \A S : <<>> \in Seq(S) /\ Len(<<>>) = 0
    BY EmptySeq
  <2> QED BY <2>1
<1> HIDE DEF nil
<1>2. InOrderFrom(nil, n)
  BY <1>1 DEF InOrderFrom
<1> QED BY <1>1, <1>2 DEF nil

\* Two lists in order, the second from where the first ends, are in order joined.
LEMMA JoinInOrder ==
  ASSUME NEW a \in Seq(Int), NEW b \in Seq(Int), NEW n \in Int, NEW m \in Int,
         InOrderFrom(a, n), InOrderFrom(b, m), m = n + Len(a)
  PROVE  a \o b \in Seq(Int) /\ Len(a \o b) = Len(a) + Len(b) /\ InOrderFrom(a \o b, n)
<1>1. /\ a \o b \in Seq(Int) /\ Len(a \o b) = Len(a) + Len(b)
      /\ Len(a) \in Nat /\ Len(b) \in Nat
      /\ \A i \in 1..Len(a)+Len(b) : (a \o b)[i] = IF i <= Len(a) THEN a[i] ELSE b[i - Len(a)]
  BY ConcatProperties
<1>2. ASSUME NEW i \in 1..Len(a)+Len(b) PROVE (a \o b)[i] = n + i
  <2>1. CASE i <= Len(a)
    BY <1>1, <2>1 DEF InOrderFrom
  <2>2. CASE ~(i <= Len(a))
    <3>1. i - Len(a) \in 1..Len(b) /\ m + (i - Len(a)) = n + i
      BY <1>1, <2>2
    <3> QED BY <1>1, <2>2, <3>1 DEF InOrderFrom
  <2> QED BY <2>1, <2>2
<1> QED BY <1>1, <1>2 DEF InOrderFrom

--------------------------------------------------------------------------------
(* The steps.                                                                   *)

\* mediacapture: before anything has been captured.
LEMMA CapInitInv == CapInit => CapInv
<1> SUFFICES ASSUME CapInit PROVE CapInv
  OBVIOUS
<1>1. <<>> \in Seq(Int) /\ Len(<<>>) = 0
  BY NothingInOrder
<1>2. CapTypeOK
  BY <1>1 DEF CapInit, CapTypeOK, Free, Reads, HoldSteps, PostSteps, CallerSteps
<1>3. RingOK(ring)
  BY CaptureAssumption DEF CapInit, NoRing, RingOK, Place, Cells
<1>4. GotOK
  BY <1>1, CaptureAssumption DEF CapInit, GotOK, Reads
<1>5. PostedInOrder
  BY DEF CapInit, PostedInOrder
<1> QED BY <1>2, <1>3, <1>4, <1>5
        DEF CapInv, CapInit, CompletesCounted, FreedAfterUse, BytesFollow, StillReads, Reads, NothingMore, RingThere,
            Busy, Free, EmitSteps, Unbroken

\* What the callers do outside of ctx->mutex.
OutsideActions ==
  \/ CreateContext \/ ApiThread \/ DestroyContext \/ FreeSources \/ Activate \/ CaptureMediaStop
  \/ \E s \in Sources : AddProbe(s) \/ ProbeRemoves(s) \/ ProbeBuffer(s) \/ ProbeStops(s) \/ ProbeReturns(s)

SameCapture ==
  UNCHANGED <<hold, post, ring, offered, posted, completes, captureToFile, captureCompleteSent,
              postThreadStopRequested, postThreadAborted, unjoined>>

\* A step that leaves ring, posting and offering alone keeps the invariant,
LEMMA SameCaptureKeeps ==
  ASSUME CapInv, SameCapture, Unbroken, pc' \in [Callers -> CallerSteps], captureActive' \in BOOLEAN,
         Busy' => Busy, broken' \notin {"ring used after it was freed", "curl freed under the post thread"}
  PROVE  CapInv'
<1>1. CapTypeOK'
  BY DEF CapInv, SameCapture, CapTypeOK
<1>4. RingOK(ring)' /\ GotOK' /\ PostedInOrder' /\ CompletesCounted' /\ FreedAfterUse'
  BY DEF CapInv, SameCapture, RingOK, Place, GotOK, PostedInOrder, CompletesCounted, FreedAfterUse
<1>2. BytesFollow' /\ NothingMore'
  <2>1. BytesFollow /\ NothingMore
    BY DEF CapInv
  <2> QED BY <2>1 DEF SameCapture, BytesFollow, NothingMore, StillReads, InOrderFrom, Follows, Place, Read, Pending
<1>3. RingThere'
  BY DEF CapInv, SameCapture, RingThere
<1> QED BY <1>1, <1>2, <1>3, <1>4 DEF CapInv

\* as the steps outside of a capture do.
LEMMA OutsideKeeps ==
  ASSUME CapInv, OutsideActions
  PROVE  CapInv'
<1>1. SameCapture
  BY DEF OutsideActions, CreateContext, ApiThread, DestroyContext, FreeSources, Activate, CaptureMediaStop,
         AddProbe, ProbeRemoves, ProbeBuffer, ProbeStops, ProbeReturns, CapCrash,
         SameCapture, flagVars, postVars, logVars
<1>2. Unbroken
  BY DEF OutsideActions, CreateContext, ApiThread, DestroyContext, FreeSources, Activate, CaptureMediaStop,
         AddProbe, ProbeRemoves, ProbeBuffer, ProbeStops, ProbeReturns, Idle
<1>3. broken' \in {"no", "context freed under the api thread", "sources freed in use"}
  BY <1>2 DEF OutsideActions, CreateContext, ApiThread, DestroyContext, FreeSources, Activate, CaptureMediaStop,
         AddProbe, ProbeRemoves, ProbeBuffer, ProbeStops, ProbeReturns, CapCrash, Unbroken
<1>4. pc \in [Callers -> CallerSteps] /\ captureActive \in BOOLEAN
  BY DEF CapInv, CapTypeOK
<1>5. pc' \in [Callers -> CallerSteps] /\ captureActive' \in BOOLEAN /\ (Busy' => Busy)
  <2>1. CASE UNCHANGED <<pc, captureActive>>
    BY <1>4, <2>1 DEF Busy
  <2>2. CASE Activate
    <3>1. Busy
      BY <2>2 DEF Activate, Busy, Callers
    <3> QED BY <1>4, <2>2, <3>1 DEF Activate, CallerSteps
  <2>3. CASE DestroyContext \/ CaptureMediaStop
    <3>1. captureActive' = captureActive /\ \E t \in {"app", "api"}, p \in {"idle", "stop"} : pc' = [pc EXCEPT ![t] = p]
      BY <2>3 DEF DestroyContext, CaptureMediaStop, flagVars
    <3>2. pc' \in [Callers -> CallerSteps]
      BY <1>4, <3>1 DEF CallerSteps
    <3>3. captureActive => Busy
      BY DEF Busy
    <3>4. ~captureActive => \A t \in Callers : pc'[t] # "idle" => pc[t] # "idle"
      BY <1>4, <2>3 DEF DestroyContext, CaptureMediaStop
    <3> QED BY <1>4, <3>1, <3>2, <3>3, <3>4 DEF Busy
  <2>4. CASE \E s \in Sources : ProbeBuffer(s) \/ ProbeStops(s) \/ ProbeReturns(s)
    <3>1. PICK s \in Sources : ProbeBuffer(s) \/ ProbeStops(s) \/ ProbeReturns(s)
      BY <2>4
    <3>2. captureActive' = captureActive /\ \E p \in CallerSteps : pc' = [pc EXCEPT ![s] = p]
      BY <3>1 DEF ProbeBuffer, ProbeStops, ProbeReturns, flagVars, CallerSteps
    <3>3. captureActive \/ pc[s] # "idle"
      BY <3>1 DEF ProbeBuffer, ProbeStops, ProbeReturns
    <3>4. Busy
      BY <3>3 DEF Busy, Callers
    <3> QED BY <1>4, <3>2, <3>4
  <2> QED BY <2>1, <2>2, <2>3, <2>4
          DEF OutsideActions, CreateContext, ApiThread, FreeSources, AddProbe, ProbeRemoves, CapCrash, flagVars
<1>6. broken' \notin {"ring used after it was freed", "curl freed under the post thread"}
  BY <1>3
<1> QED BY <1>1, <1>2, <1>5, <1>6, SameCaptureKeeps

\* A start begins with everything of the last capture over.
LEMMA StartCaptureKeeps ==
  ASSUME CapInv, NEW toFile \in BOOLEAN, StartCapture(toFile)
  PROVE  CapInv'
<1>1. /\ CapTypeOK /\ RingOK(ring) /\ Unbroken /\ ~captureActive /\ UNCHANGED hold
  BY DEF CapInv, StartCapture, Idle
<1>2. <<>> \in Seq(Int) /\ Len(<<>>) = 0
  BY NothingInOrder
<1>3. CASE hold # Free \/ post # Reads \/ \E t \in Callers : pc[t] # "idle"
  <2>1. SameCapture /\ UNCHANGED <<pc, captureActive>>
    BY <1>3 DEF StartCapture, SameCapture, flagVars, postVars, logVars
  <2>2. broken' = "started before the last was over"
    BY <1>3 DEF StartCapture
  <2>3. pc' \in [Callers -> CallerSteps] /\ captureActive' \in BOOLEAN /\ (Busy' => Busy)
    BY <1>1, <2>1 DEF Busy, CapTypeOK
  <2> QED BY <1>1, <2>1, <2>2, <2>3, SameCaptureKeeps
<1>4. CASE ~(hold # Free \/ post # Reads \/ \E t \in Callers : pc[t] # "idle")
  <2>1. /\ hold = Free /\ post = Reads /\ \A t \in Callers : pc[t] = "idle"
        /\ StartFlags(toFile) /\ UNCHANGED <<captureActive, broken>>
        /\ \/ /\ pc' = [pc EXCEPT !["api"] = "prepared"]
              /\ IF toFile THEN UNCHANGED <<ring, post, postThreadStopRequested, postThreadAborted>> ELSE PrepareEndpoint
           \/ UNCHANGED <<pc, ring, post, postThreadStopRequested, postThreadAborted>>
    BY <1>4 DEF StartCapture
  <2>2. /\ captureToFile' = toFile /\ captureCompleteSent' = FALSE /\ completes' = 0
        /\ offered' = 0 /\ posted' = <<>> /\ unjoined' = FALSE
    BY <2>1 DEF StartFlags
  <2>3. hold' = Free /\ Free.at = "none" /\ Free.left = 0
    BY <1>1, <2>1 DEF Free
  <2>4. CASE /\ ~toFile /\ PrepareEndpoint /\ pc' = [pc EXCEPT !["api"] = "prepared"]
    <3>1. /\ ring' = [NoRing EXCEPT !.there = TRUE] /\ post' = [at |-> "created", got |-> <<>>]
          /\ postThreadStopRequested' = FALSE /\ postThreadAborted' = FALSE
      BY <2>4 DEF PrepareEndpoint, Reads
    <3> DEFINE buf == [i \in Cells |-> 0]
    <3> DEFINE zero == 0
    <3> DEFINE yes == TRUE
    <3>r. /\ buf \in [Cells -> Int] /\ zero \in 0..Capacity-1 /\ zero \in 0..Capacity /\ yes \in BOOLEAN
          /\ zero = IF zero + zero >= Capacity THEN zero + zero - Capacity ELSE zero + zero
      BY CaptureAssumption
    <3>s. ring' = [buf |-> buf, head |-> zero, tail |-> zero, count |-> zero, there |-> yes]
      BY <3>1 DEF NoRing, Cells
    <3>t. zero = 0 /\ yes = TRUE
      OBVIOUS
    <3> HIDE DEF buf, zero, yes
    <3>2. RingOK(ring)' /\ ring'.count = 0 /\ ring'.there = TRUE
      <4> DEFINE r == ring'
      <4> HIDE DEF r
      <4>1. RingOK(r) /\ r.count = zero /\ r.there = yes
        BY <3>r, <3>s, RingMade DEF r
      <4>2. RingOK(r) /\ r.count = 0 /\ r.there = TRUE
        BY <3>t, <4>1
      <4> QED BY <4>2 DEF r, RingOK, Place
    <3>3. CapTypeOK'
      BY <1>1, <1>2, <2>1, <2>2, <2>4, <3>1 DEF CapTypeOK, PostSteps, CallerSteps
    <3>4. post'.at = "created" /\ post'.got = <<>>
      BY <3>1
    <3>5. GotOK' /\ PostedInOrder' /\ CompletesCounted' /\ FreedAfterUse'
      BY <1>1, <1>2, <2>1, <2>2, <3>4, CaptureAssumption DEF GotOK, PostedInOrder, CompletesCounted, FreedAfterUse, Unbroken
    <3>6. BytesFollow'
      <4>1. InOrderFrom(post.got, Len(posted))' /\ Read' = 0
        BY <1>2, <2>2, <3>4, NothingInOrder DEF InOrderFrom, Read
      <4>2. Follows(ring, Read)'
        BY <3>2 DEF Follows
      <4>3. Pending' = 0
        BY <2>3 DEF Pending, EmitSteps
      <4> QED BY <2>2, <2>4, <3>1, <3>2, <4>1, <4>2, <4>3 DEF BytesFollow
    <3>7. NothingMore' /\ RingThere'
      BY <2>3, <3>1, <3>2 DEF NothingMore, RingThere, EmitSteps
    <3> QED BY <3>2, <3>3, <3>5, <3>6, <3>7 DEF CapInv
  <2>5. CASE /\ UNCHANGED <<ring, post, postThreadStopRequested, postThreadAborted>>
             /\ pc' = pc \/ (toFile /\ pc' = [pc EXCEPT !["api"] = "prepared"])
    <3>1. CapTypeOK'
      BY <1>1, <1>2, <2>1, <2>2, <2>5 DEF CapTypeOK, CallerSteps
    <3>2. RingOK(ring)'
      BY <1>1, <2>5 DEF RingOK, Place
    <3>3. post'.at = "none" /\ post'.got = <<>>
      BY <2>1, <2>5 DEF Reads
    <3>a. GotOK'
      BY <1>2, <3>3, CaptureAssumption DEF GotOK
    <3>b. PostedInOrder'
      BY <2>2 DEF PostedInOrder
    <3>4. CompletesCounted' /\ FreedAfterUse'
      BY <1>1, <2>1, <2>2 DEF CompletesCounted, FreedAfterUse, Unbroken
    <3>5. BytesFollow'
      BY <3>3 DEF BytesFollow, StillReads
    <3>6. ~captureToFile' => ~Busy'
      BY <1>1, <2>1, <2>2, <2>5 DEF Busy
    <3>7. NothingMore' /\ RingThere'
      BY <2>3, <3>6 DEF NothingMore, RingThere, EmitSteps
    <3> QED BY <3>1, <3>2, <3>a, <3>b, <3>4, <3>5, <3>7 DEF CapInv
  <2> QED BY <2>1, <2>4, <2>5
<1> QED BY <1>3, <1>4


\* A thread with the mutex begins to emit; after a stop or a failure it goes on to what follows.
LEMMA EmitKeeps ==
  ASSUME CapInv, NEW t \in Callers, hold = Free, Unbroken, NEW p \in CallerSteps \ {"idle"},
         NEW n \in Nat, NEW then \in {"unlock", "close"}, Emit(t, n, then),
         pc[t] # "idle", pc' = [pc EXCEPT ![t] = p], captureActive' \in {captureActive, FALSE},
         UNCHANGED <<captureToFile, captureCompleteSent, ring, postVars, posted, completes, unjoined, broken>>
  PROVE  CapInv'
<1>1. CapTypeOK /\ RingOK(ring) /\ BytesFollow /\ NothingMore /\ RingThere
  BY DEF CapInv
<1> DEFINE stops == n = 0 \/ (~captureToFile /\ ~CanEmit)
<1>2. /\ offered' = offered + n
      /\ hold' = [by |-> t, at |-> IF stops THEN then ELSE "copy", left |-> n, then |-> then]
  BY DEF Emit
<1>3. hold.at = "none" /\ hold.left = 0
  BY DEF Free
<1>4. hold'.at = (IF stops THEN then ELSE "copy") /\ hold'.left = n
  BY <1>2
<1>5. CapTypeOK'
  <2>1. offered' \in Nat
    BY <1>1, <1>2 DEF CapTypeOK
  <2>2. hold' \in [by : Callers \cup {"nobody"}, at : HoldSteps, left : Nat, then : {"none", "unlock", "close"}]
    BY <1>2 DEF HoldSteps
  <2>3. pc' \in [Callers -> CallerSteps]
    BY <1>1 DEF CapTypeOK
  <2> QED BY <1>1, <2>1, <2>2, <2>3 DEF CapTypeOK, postVars
<1>6. RingOK(ring)' /\ GotOK' /\ PostedInOrder' /\ CompletesCounted' /\ FreedAfterUse'
  BY DEF CapInv, RingOK, Place, GotOK, PostedInOrder, CompletesCounted, FreedAfterUse, postVars
<1>7. BytesFollow'
  <2>1. offered' - Pending' = offered - Pending \/ postThreadStopRequested \/ postThreadAborted \/ captureToFile
    <3>1. Pending = 0
      BY <1>3 DEF Pending, EmitSteps
    <3>2. CASE ~stops
      <4>1. Pending' = n
        BY <1>4, <3>2 DEF Pending, EmitSteps
      <4> QED BY <1>1, <1>2, <3>1, <4>1 DEF CapTypeOK
    <3>3. CASE n = 0
      <4>1. Pending' = 0
        BY <1>4, <3>3 DEF Pending, EmitSteps
      <4> QED BY <1>1, <1>2, <3>1, <3>3, <4>1 DEF CapTypeOK
    <3> QED BY <3>2, <3>3 DEF CanEmit
  <2>2. UNCHANGED <<StillReads, Read, Follows(ring, Read), InOrderFrom(post.got, Len(posted))>>
    BY DEF StillReads, Read, Follows, Place, InOrderFrom, postVars
  <2> QED BY <1>1, <2>1, <2>2 DEF BytesFollow, postVars
<1>8. NothingMore'
  BY <1>4 DEF NothingMore, CanEmit, postVars
<1>9. RingThere'
  <2>1. Busy
    BY DEF Busy
  <2> QED BY <1>1, <1>4, <2>1 DEF RingThere, EmitSteps, CanEmit, postVars
<1> QED BY <1>5, <1>6, <1>7, <1>8, <1>9 DEF CapInv

\* Where a probe's data is offered and where a stop takes ctx->mutex.
LEMMA EmitActionsKeep ==
  ASSUME CapInv, NEW t \in Callers, ProcessCaptureData(t) \/ StopBegin(t)
  PROVE  CapInv'
<1>1. CASE ProcessCaptureData(t)
  <2>1. PICK n \in Lens : Emit(t, IF captureToFile /\ ~pCaptureFile THEN 0 ELSE n, "unlock")
    BY <1>1 DEF ProcessCaptureData
  <2> DEFINE m == IF captureToFile /\ ~pCaptureFile THEN 0 ELSE n
  <2> DEFINE then == "unlock"
  <2> DEFINE p == "processing"
  <2>2. m \in Nat /\ Emit(t, m, then) /\ then \in {"unlock", "close"} /\ p \in CallerSteps \ {"idle"}
    BY <2>1, CaptureAssumption DEF CallerSteps
  <2>3. /\ hold = Free /\ Unbroken /\ pc[t] # "idle" /\ pc' = [pc EXCEPT ![t] = p]
        /\ UNCHANGED <<captureActive, captureToFile, captureCompleteSent, ring, postVars, posted, completes, unjoined, broken>>
    BY <1>1 DEF ProcessCaptureData, flagVars
  <2> HIDE DEF m, then, p
  <2> QED BY <2>2, <2>3, EmitKeeps
<1>2. CASE StopBegin(t)
  <2>1. PICK n \in IF captureToFile /\ ~pCaptureFile THEN {0} ELSE Lens : Emit(t, n, "close")
    BY <1>2 DEF StopBegin
  <2> DEFINE then == "close"
  <2> DEFINE p == "stopping"
  <2>2. n \in Nat /\ Emit(t, n, then) /\ then \in {"unlock", "close"} /\ p \in CallerSteps \ {"idle"}
    BY <2>1, CaptureAssumption DEF CallerSteps
  <2>3. /\ hold = Free /\ Unbroken /\ pc[t] # "idle" /\ pc' = [pc EXCEPT ![t] = p]
        /\ captureActive' = FALSE
        /\ UNCHANGED <<captureToFile, captureCompleteSent, ring, postVars, posted, completes, unjoined, broken>>
    BY <1>2 DEF StopBegin
  <2> HIDE DEF then, p
  <2> QED BY <2>2, <2>3, EmitKeeps
<1> QED BY <1>1, <1>2


--------------------------------------------------------------------------------
(* Steps of whoever has the mutex.                                              *)

HoldType == [by : Callers \cup {"nobody"}, at : HoldSteps, left : Nat, then : {"none", "unlock", "close"}]

HoldStep(at, left) == hold' = [hold EXCEPT !.at = at, !.left = left]

\* The holder's record after a step of it.
LEMMA HoldStepTypes ==
  ASSUME hold \in HoldType, NEW at \in HoldSteps, NEW left \in Nat, HoldStep(at, left)
  PROVE  hold' \in HoldType /\ hold'.at = at /\ hold'.left = left
BY DEF HoldType, HoldStep

\* It may wake the post thread, and request its stop.
WakesPost == post' = post \/ (post.at = "wait" /\ post' = [post EXCEPT !.at = "woken"])

\* A signal may wake the post thread, and changes nothing else of it.
LEMMA WokenPost ==
  ASSUME CapInv, WakesPost
  PROVE  /\ post' \in [at : PostSteps, got : Seq(Int)] /\ post'.got = post.got
         /\ StillReads' = StillReads /\ GotOK'
         /\ post = Reads => post' = Reads
<1>1. post \in [at : PostSteps, got : Seq(Int)] /\ GotOK
  BY DEF CapInv, CapTypeOK
<1>2. CASE post' = post
  BY <1>1, <1>2 DEF StillReads, GotOK
<1>3. CASE post.at = "wait" /\ post' = [post EXCEPT !.at = "woken"]
  <2>1. post' \in [at : PostSteps, got : Seq(Int)] /\ post'.got = post.got /\ post'.at = "woken"
    BY <1>1, <1>3 DEF PostSteps
  <2> QED BY <1>1, <1>3, <2>1 DEF StillReads, GotOK, Reads
<1> QED BY <1>2, <1>3 DEF WakesPost

\* A step of the holder that leaves ring and logs alone,
LEMMA HoldMovesKeep ==
  ASSUME CapInv, Unbroken, WakesPost,
         UNCHANGED <<ring, offered, posted, captureToFile, postThreadAborted, broken>>,
         hold' \in HoldType, pc' \in [Callers -> CallerSteps],
         captureActive' \in BOOLEAN, captureCompleteSent' \in BOOLEAN, completes' \in Nat,
         postThreadStopRequested' \in BOOLEAN, unjoined' \in BOOLEAN,
         postThreadStopRequested => postThreadStopRequested',
         Pending' = Pending \/ captureToFile \/ postThreadStopRequested' \/ postThreadAborted,
         NothingMore', RingThere', CompletesCounted'
  PROVE  CapInv'
<1>1. CapTypeOK /\ RingOK(ring) /\ BytesFollow /\ PostedInOrder
  BY DEF CapInv
<1>2. /\ post' \in [at : PostSteps, got : Seq(Int)] /\ post'.got = post.got
      /\ StillReads' = StillReads /\ GotOK'
  BY WokenPost
<1>3. CapTypeOK'
  BY <1>1, <1>2 DEF CapTypeOK, HoldType
<1>4. RingOK(ring)' /\ PostedInOrder' /\ FreedAfterUse'
  BY <1>1 DEF RingOK, Place, PostedInOrder, FreedAfterUse, Unbroken
<1>5. UNCHANGED <<Read, Follows(ring, Read), InOrderFrom(post.got, Len(posted))>>
  BY <1>2 DEF Read, Follows, Place, InOrderFrom
<1>6. BytesFollow'
  BY <1>1, <1>2, <1>5 DEF BytesFollow
<1> QED BY <1>2, <1>3, <1>4, <1>6 DEF CapInv

HoldActions ==
  \/ WriteFile \/ SignalNotEmpty \/ WaitNotFull \/ WaitTimesOut \/ EmitWoken \/ Unlock
  \/ CloseFile \/ RequestPostStop \/ AwakenPost \/ JoinPostThread

\* and each of those steps.
LEMMA HoldActionsKeep ==
  ASSUME CapInv, HoldActions
  PROVE  CapInv'
<1>1. /\ CapTypeOK /\ NothingMore /\ RingThere /\ CompletesCounted
      /\ hold \in HoldType /\ hold.at \in HoldSteps /\ hold.left \in Nat /\ hold.then \in {"none", "unlock", "close"}
      /\ Unbroken
  BY DEF CapInv, CapTypeOK, HoldType, HoldActions, WriteFile, SignalNotEmpty, WaitNotFull, WaitTimesOut, EmitWoken,
         Unlock, CloseFile, RequestPostStop, AwakenPost, JoinPostThread, JoinPost, Emitting
<1>2. /\ pc \in [Callers -> CallerSteps]
      /\ captureActive \in BOOLEAN /\ captureCompleteSent \in BOOLEAN /\ completes \in Nat
      /\ postThreadStopRequested \in BOOLEAN /\ unjoined \in BOOLEAN
  BY <1>1 DEF CapTypeOK
<1> DEFINE Rest == UNCHANGED <<pc, captureActive, captureCompleteSent, completes, postThreadStopRequested, unjoined>>
<1> DEFINE Same == UNCHANGED <<ring, offered, posted, captureToFile, postThreadAborted, broken>>
<1> HIDE DEF Rest, Same
<1>3. ASSUME Rest, Same, WakesPost, NEW at \in HoldSteps, NEW left \in Nat, HoldStep(at, left),
             at \notin {"join", "report", "awaken"},
             \/ left = hold.left /\ at \in EmitSteps /\ hold.at \in EmitSteps
             \/ captureToFile
             \/ (postThreadStopRequested \/ postThreadAborted) /\ hold.at \in EmitSteps
             \/ hold.left = 0 /\ at \notin EmitSteps /\ hold.at \in EmitSteps,
             ~captureToFile /\ postThreadStopRequested => at \notin {"copy", "full", "wait"} /\ (at = "signal" => left = 0)
      PROVE  CapInv'
  <2>1. hold' \in HoldType /\ hold'.at = at /\ hold'.left = left
    BY <1>1, <1>3, HoldStepTypes
  <2>2. Pending' = Pending \/ captureToFile \/ postThreadStopRequested' \/ postThreadAborted
    BY <1>3, <2>1 DEF Pending, Rest
  <2>3. NothingMore'
    BY <1>3, <2>1 DEF NothingMore, Rest, Same
  <2>4. RingThere'
    BY <1>1, <1>3, <2>1 DEF RingThere, Busy, Rest, Same
  <2>5. CompletesCounted'
    BY <1>1, <1>3 DEF CompletesCounted, Rest, Same
  <2> QED BY <1>1, <1>2, <1>3, <2>1, <2>2, <2>3, <2>4, <2>5, HoldMovesKeep DEF Rest, Same
<1>4. CASE WriteFile
  <2>1. CASE pCaptureFile
    <3> DEFINE at == hold.then
    <3> DEFINE left == 0
    <3>1. Rest /\ Same /\ WakesPost
      BY <1>4, <2>1 DEF WriteFile, Rest, Same, WakesPost, flagVars, postVars, logVars
    <3>2. /\ at \in HoldSteps /\ left \in Nat /\ HoldStep(at, left) /\ captureToFile
          /\ at \notin {"join", "report", "awaken"}
      BY <1>1, <1>4, <2>1 DEF WriteFile, HoldStep, HoldSteps
    <3> HIDE DEF at, left
    <3> QED BY <1>3, <3>1, <3>2
  <2>2. CASE ~pCaptureFile
    <3>1. SameCapture /\ broken' = "written to no file" /\ UNCHANGED <<pc, captureActive>>
      BY <1>4, <2>2 DEF WriteFile, SameCapture, flagVars, postVars, logVars
    <3>2. Busy' => Busy
      BY <3>1 DEF Busy
    <3> QED BY <1>1, <1>2, <3>1, <3>2, SameCaptureKeeps
  <2> QED BY <2>1, <2>2
<1>5. CASE SignalNotEmpty
  <2> DEFINE at == IF hold.left = 0 THEN hold.then ELSE "full"
  <2> DEFINE left == hold.left
  <2>1. Rest /\ Same /\ WakesPost
    BY <1>5 DEF SignalNotEmpty, NotifyNotEmpty, Rest, Same, WakesPost, flagVars, logVars
  <2>2. /\ at \in HoldSteps /\ left \in Nat /\ at \notin {"join", "report", "awaken"}
        /\ hold.at = "signal"
    BY <1>1, <1>5 DEF SignalNotEmpty, HoldSteps, Emitting
  <2>3. HoldStep(at, left)
    BY <1>1, <1>5 DEF SignalNotEmpty, HoldStep, HoldType
  <2>4. ~captureToFile /\ postThreadStopRequested => at \notin {"copy", "full", "wait"} /\ at # "signal"
    BY <1>1, <2>2 DEF NothingMore
  <2>5. \/ left = hold.left /\ at \in EmitSteps /\ hold.at \in EmitSteps
        \/ hold.left = 0 /\ at \notin EmitSteps /\ hold.at \in EmitSteps
    BY <1>1, <2>2 DEF EmitSteps
  <2> HIDE DEF at, left
  <2> QED BY <1>3, <2>1, <2>2, <2>3, <2>4, <2>5
<1>6. CASE WaitNotFull
  <2> DEFINE at == "wait"
  <2> DEFINE left == hold.left
  <2>1. Rest /\ Same /\ WakesPost
    BY <1>6 DEF WaitNotFull, Rest, Same, WakesPost, flagVars, postVars, logVars
  <2>2. /\ at \in HoldSteps /\ left \in Nat /\ at \notin {"join", "report", "awaken"}
        /\ left = hold.left /\ at \in EmitSteps /\ hold.at \in EmitSteps
        /\ ~captureToFile => ~postThreadStopRequested
    BY <1>1, <1>6 DEF WaitNotFull, HoldSteps, Emitting, EmitSteps, NothingMore
  <2>3. HoldStep(at, left)
    BY <1>1, <1>6 DEF WaitNotFull, HoldStep, HoldType
  <2> HIDE DEF at, left
  <2> QED BY <1>3, <2>1, <2>2, <2>3
<1>7. CASE EmitWoken
  <2> DEFINE at == IF CanEmit THEN "copy" ELSE "signal"
  <2> DEFINE left == IF CanEmit THEN hold.left ELSE 0
  <2>1. Rest /\ Same /\ WakesPost
    BY <1>7 DEF EmitWoken, Rest, Same, WakesPost, flagVars, postVars, logVars
  <2>2. /\ at \in HoldSteps /\ left \in Nat /\ at \notin {"join", "report", "awaken"}
    BY <1>1 DEF HoldSteps
  <2>3. HoldStep(at, left)
    BY <1>1, <1>7 DEF EmitWoken, HoldStep, HoldType
  <2>4. \/ left = hold.left /\ at \in EmitSteps /\ hold.at \in EmitSteps
        \/ (postThreadStopRequested \/ postThreadAborted) /\ hold.at \in EmitSteps
    BY <1>7 DEF EmitWoken, Emitting, EmitSteps, CanEmit
  <2>5. ~captureToFile /\ postThreadStopRequested => at \notin {"copy", "full", "wait"} /\ (at = "signal" => left = 0)
    BY DEF CanEmit
  <2> HIDE DEF at, left
  <2> QED BY <1>3, <2>1, <2>2, <2>3, <2>4, <2>5
<1>8. CASE WaitTimesOut
  <2> DEFINE at == "woken"
  <2> DEFINE left == hold.left
  <2>1. /\ Same /\ WakesPost /\ postThreadStopRequested' = TRUE
        /\ UNCHANGED <<pc, captureActive, captureCompleteSent, completes, unjoined, ring, captureToFile, broken>>
    BY <1>8 DEF WaitTimesOut, Same, WakesPost, flagVars, logVars
  <2>2. at \in HoldSteps /\ left \in Nat /\ hold.at = "wait"
    BY <1>1, <1>8 DEF WaitTimesOut, Emitting, HoldSteps
  <2>3. HoldStep(at, left)
    BY <1>1, <1>8 DEF WaitTimesOut, HoldStep, HoldType
  <2>4. hold' \in HoldType /\ hold'.at = "woken"
    <3> HIDE DEF left
    <3> QED BY <1>1, <2>2, <2>3, HoldStepTypes
  <2>5. NothingMore' /\ RingThere' /\ CompletesCounted'
    BY <1>1, <2>1, <2>2, <2>4 DEF NothingMore, RingThere, Busy, CompletesCounted, EmitSteps
  <2> QED BY <1>1, <1>2, <2>1, <2>4, <2>5, HoldMovesKeep DEF Same
<1>9. CASE Unlock
  <2>1. /\ Same /\ WakesPost /\ hold' = Free /\ hold.at = "unlock"
        /\ UNCHANGED <<captureActive, captureCompleteSent, completes, unjoined, postThreadStopRequested, ring, captureToFile>>
    BY <1>9 DEF Unlock, Emitting, Same, WakesPost, flagVars, postVars, logVars
  <2>2. hold' \in HoldType /\ hold'.at = "none" /\ hold'.left = 0
    BY <2>1 DEF Free, HoldType, HoldSteps
  <2>3. pc' = [pc EXCEPT ![hold.by] = IF @ = "processing" THEN "processed" ELSE "idle"]
    BY <1>9 DEF Unlock
  <2>4. pc' \in [Callers -> CallerSteps]
    BY <1>2, <2>3 DEF CallerSteps
  <2>5. \A t \in Callers : pc'[t] # "idle" => pc[t] # "idle"
    BY <1>2, <2>3
  <2>6. Pending' = Pending
    BY <2>1, <2>2 DEF Pending, EmitSteps
  <2>7. Busy' => Busy
    BY <2>1, <2>5 DEF Busy
  <2>8. NothingMore' /\ RingThere' /\ CompletesCounted'
    BY <1>1, <2>1, <2>2, <2>7 DEF NothingMore, RingThere, CompletesCounted, EmitSteps
  <2> QED BY <1>1, <1>2, <2>1, <2>2, <2>4, <2>6, <2>8, HoldMovesKeep DEF Same
<1>10. CASE CloseFile
  <2> DEFINE at == "unlock"
  <2> DEFINE left == hold.left
  <2>1. /\ Same /\ WakesPost /\ captureToFile /\ completes' = completes + 1
        /\ UNCHANGED <<pc, captureActive, captureCompleteSent, unjoined, postThreadStopRequested, ring, captureToFile>>
    BY <1>10 DEF CloseFile, Same, WakesPost, postVars
  <2>2. at \in HoldSteps /\ left \in Nat
    BY <1>1 DEF HoldSteps
  <2>3. HoldStep(at, left)
    BY <1>1, <1>10 DEF CloseFile, HoldStep, HoldType
  <2>4. hold' \in HoldType /\ hold'.at = "unlock"
    <3> HIDE DEF left
    <3> QED BY <1>1, <2>2, <2>3, HoldStepTypes
  <2>5. NothingMore' /\ RingThere' /\ CompletesCounted'
    BY <1>1, <2>1, <2>4 DEF NothingMore, RingThere, CompletesCounted
  <2>6. completes' \in Nat
    BY <1>2, <2>1
  <2> QED BY <1>1, <1>2, <2>1, <2>4, <2>5, <2>6, HoldMovesKeep DEF Same
<1>11. CASE RequestPostStop
  <2> DEFINE at == IF postThreadStarted THEN "awaken" ELSE "report"
  <2> DEFINE left == hold.left
  <2>1. /\ Same /\ WakesPost /\ ~captureToFile /\ hold.at = "close"
        /\ UNCHANGED <<pc, captureActive, captureCompleteSent, completes, ring, captureToFile>>
    BY <1>11 DEF RequestPostStop, Emitting, Same, WakesPost, flagVars
  <2>2. at \in HoldSteps /\ left \in Nat
    BY <1>1 DEF HoldSteps
  <2>3. HoldStep(at, left)
    BY <1>1, <1>11 DEF RequestPostStop, HoldStep, HoldType
  <2>4. hold' \in HoldType /\ hold'.at = at
    <3> HIDE DEF left, at
    <3> QED BY <1>1, <2>2, <2>3, HoldStepTypes
  <2>5. \/ at = "awaken" /\ postThreadStopRequested' = TRUE /\ unjoined' = unjoined
        \/ at = "report" /\ postThreadStopRequested' = postThreadStopRequested /\ unjoined' = TRUE
    BY <1>11 DEF RequestPostStop
  <2>6. Pending' = Pending
    BY <2>1, <2>4 DEF Pending, EmitSteps
  <2>7. NothingMore' /\ RingThere' /\ CompletesCounted'
    BY <1>1, <2>1, <2>4, <2>5 DEF NothingMore, RingThere, Busy, CompletesCounted, EmitSteps
  <2> QED BY <1>1, <1>2, <2>1, <2>4, <2>5, <2>6, <2>7, HoldMovesKeep DEF Same
<1>12. CASE AwakenPost
  <2> DEFINE at == "join"
  <2> DEFINE left == hold.left
  <2>1. /\ Same /\ WakesPost /\ hold.at = "awaken"
        /\ UNCHANGED <<pc, captureActive, captureCompleteSent, completes, unjoined, postThreadStopRequested, ring, captureToFile>>
    BY <1>12 DEF AwakenPost, NotifyNotEmpty, Emitting, Same, WakesPost, flagVars, logVars
  <2>2. at \in HoldSteps /\ left \in Nat
    BY <1>1 DEF HoldSteps
  <2>3. HoldStep(at, left)
    BY <1>1, <1>12 DEF AwakenPost, HoldStep, HoldType
  <2>4. hold' \in HoldType /\ hold'.at = "join"
    <3> HIDE DEF left
    <3> QED BY <1>1, <2>2, <2>3, HoldStepTypes
  <2>5. Pending' = Pending
    BY <2>1, <2>4 DEF Pending, EmitSteps
  <2>6. NothingMore' /\ RingThere' /\ CompletesCounted'
    BY <1>1, <2>1, <2>4 DEF NothingMore, RingThere, Busy, CompletesCounted, EmitSteps
  <2> QED BY <1>1, <1>2, <2>1, <2>4, <2>5, <2>6, HoldMovesKeep DEF Same
<1>13. CASE JoinPostThread
  <2> DEFINE at == "report"
  <2> DEFINE left == hold.left
  <2>1. /\ Same /\ WakesPost /\ hold.at = "join" /\ post = Reads /\ post' = Reads
        /\ UNCHANGED <<pc, captureActive, captureCompleteSent, completes, unjoined, postThreadStopRequested, ring, captureToFile>>
    BY <1>13 DEF JoinPostThread, JoinPost, Emitting, Same, WakesPost, flagVars, postVars, logVars
  <2>2. at \in HoldSteps /\ left \in Nat
    BY <1>1 DEF HoldSteps
  <2>3. HoldStep(at, left)
    BY <1>1, <1>13 DEF JoinPostThread, HoldStep, HoldType
  <2>4. hold' \in HoldType /\ hold'.at = "report"
    <3> HIDE DEF left
    <3> QED BY <1>1, <2>2, <2>3, HoldStepTypes
  <2>5. Pending' = Pending
    BY <2>1, <2>4 DEF Pending, EmitSteps
  <2>6. NothingMore' /\ RingThere' /\ CompletesCounted'
    BY <1>1, <2>1, <2>4 DEF NothingMore, RingThere, Busy, CompletesCounted, EmitSteps, Reads
  <2> QED BY <1>1, <1>2, <2>1, <2>4, <2>5, <2>6, HoldMovesKeep DEF Same
<1> QED BY <1>4, <1>5, <1>6, <1>7, <1>8, <1>9, <1>10, <1>11, <1>12, <1>13 DEF HoldActions


\* Into the ring: what is put in follows what the ring has.
LEMMA CopyInKeeps ==
  ASSUME CapInv, CopyIn
  PROVE  CapInv'
<1>1. /\ CapTypeOK /\ RingOK(ring) /\ GotOK /\ BytesFollow /\ NothingMore /\ RingThere
      /\ hold \in HoldType /\ hold.left \in Nat /\ offered \in Nat
      /\ Unbroken /\ hold.at = "copy" /\ ~captureToFile
  BY DEF CapInv, CapTypeOK, HoldType, CopyIn, Emitting
<1>2. CASE ~ring.there
  <2>1. SameCapture /\ broken' = "ring used after it was freed" /\ UNCHANGED <<pc, captureActive>>
    BY <1>2 DEF CopyIn, CapCrash, SameCapture, flagVars, postVars, logVars
  <2>2. unjoined
    BY <1>1, <1>2 DEF RingThere, EmitSteps
  <2>5. CapTypeOK'
    BY <2>1 DEF CapInv, SameCapture, CapTypeOK
  <2>3. RingOK(ring)' /\ GotOK' /\ PostedInOrder' /\ CompletesCounted'
    BY <2>1 DEF CapInv, SameCapture, RingOK, Place, GotOK, PostedInOrder, CompletesCounted
  <2>4. FreedAfterUse' /\ ~Unbroken'
    BY <2>1, <2>2 DEF FreedAfterUse, SameCapture, Unbroken
  <2> QED BY <2>3, <2>4, <2>5 DEF CapInv
<1>3. CASE ring.there
  <2> DEFINE n == Least(hold.left, Room(ring))
  <2> DEFINE first == offered - hold.left + 1
  <2> DEFINE r == PutRun(ring, first, n)
  <2> DEFINE k == r.count - ring.count
  <2> DEFINE u == PutRun(r, first + k, n - k)
  <2> DEFINE left == hold.left - n
  <2>1. /\ ring' = u
        /\ hold' = [hold EXCEPT !.at = "signal", !.left = @ - n]
        /\ UNCHANGED <<pc, captureActive, captureToFile, captureCompleteSent, post, postThreadStopRequested, postThreadAborted,
                       offered, posted, completes, unjoined, broken>>
    BY <1>3 DEF CopyIn, flagVars, postVars, logVars
  <2>2. Capacity \in Nat \ {0} /\ ring.count \in 0..Capacity
    BY <1>1, RingFields
  <2>3. n \in Nat /\ n <= Room(ring) /\ n <= hold.left /\ left \in Nat /\ first \in Int
    BY <1>1, <2>2 DEF Least, Room
  <2>4. HoldStep("signal", left)
    BY <1>1, <2>1 DEF HoldStep, HoldType
  <2> DEFINE new == ring'
  <2>a. new = u
    BY <2>1
  <2> HIDE DEF n
  <2>5. /\ RingOK(new) /\ new.count = ring.count + n /\ new.there = ring.there
        /\ \A j \in 0..ring.count-1 : new.buf[Place(new, j)] = ring.buf[Place(ring, j)]
        /\ \A j \in ring.count..new.count-1 : new.buf[Place(new, j)] = first + (j - ring.count)
    <3> HIDE DEF first, new, r, k, u
    <3>1. r = PutRun(ring, first, n) /\ k = r.count - ring.count /\ new = PutRun(r, first + k, n - k)
      BY <2>a DEF r, k, u
    <3> QED BY <1>1, <2>3, <3>1, PutAll
  <2>6. RingOK(ring)'
    BY <2>5 DEF RingOK, Place
  <2>7. hold' \in HoldType /\ hold'.at = "signal" /\ hold'.left = left
    <3> DEFINE at == "signal"
    <3>1. at \in HoldSteps /\ HoldStep(at, left)
      BY <2>4 DEF HoldSteps
    <3> HIDE DEF left
    <3> QED BY <1>1, <2>3, <3>1, HoldStepTypes
  <2>8. CapTypeOK'
    BY <1>1, <2>1, <2>7 DEF CapTypeOK, HoldType
  <2>9. GotOK' /\ PostedInOrder' /\ CompletesCounted' /\ FreedAfterUse'
    BY <2>1 DEF CapInv, GotOK, PostedInOrder, CompletesCounted, FreedAfterUse
  <2>10. ~postThreadStopRequested
    BY <1>1 DEF NothingMore
  <2>11. BytesFollow'
    <3> SUFFICES ASSUME StillReads
                 PROVE  BytesFollow'
      BY <2>1 DEF BytesFollow, StillReads
    <3>1. /\ ~postThreadAborted /\ InOrderFrom(post.got, Len(posted)) /\ Follows(ring, Read)
          /\ offered - Pending = Read + ring.count
      BY <1>1, <2>10 DEF BytesFollow
    <3>2. Pending = hold.left /\ Pending' = left
      BY <1>1, <2>7 DEF Pending, EmitSteps
    <3>3. Read' = Read /\ Read \in Nat /\ InOrderFrom(post.got, Len(posted))'
      <4>1. Len(post.got) \in Nat /\ Len(posted) \in Nat
        BY <1>1 DEF CapTypeOK
      <4> QED BY <2>1, <3>1, <4>1 DEF Read, InOrderFrom
    <3>4. offered' - Pending' = Read' + new.count
      <4>1. /\ offered' = offered /\ offered \in Nat /\ hold.left \in Nat /\ n \in Nat
            /\ new.count = ring.count + n /\ ring.count \in Nat
        <5>1. new.count = ring.count + n
          BY <2>5
        <5> HIDE DEF new, first, left
        <5>2. offered' = offered
          BY <2>1
        <5>3. ring.count \in Nat
          BY <2>2
        <5> QED BY <1>1, <2>3, <5>1, <5>2, <5>3
      <4>2. offered - hold.left = Read + ring.count /\ Pending' = hold.left - n
        BY <3>1, <3>2
      <4> DEFINE pending == Pending'
      <4> DEFINE after == new.count
      <4> DEFINE read == Read'
      <4> DEFINE o == offered
      <4> DEFINE h == hold.left
      <4> DEFINE c == ring.count
      <4>3. /\ o \in Nat /\ h \in Nat /\ n \in Nat /\ c \in Nat /\ read \in Nat
            /\ after = c + n /\ pending = h - n /\ o - h = read + c
        BY <3>3, <4>1, <4>2
      <4> HIDE DEF pending, after, read, o, h, c
      <4>4. o - pending = read + after
        BY ONLY <4>3
      <4> QED BY <4>1, <4>4 DEF pending, after, read, o
    <3>5. \A j \in 0..new.count-1 : new.buf[Place(new, j)] = Read + j + 1
      <4>1. first = Read + ring.count + 1
        BY <3>1, <3>2
      <4>2. ASSUME NEW j \in 0..ring.count-1 PROVE new.buf[Place(new, j)] = Read + j + 1
        BY <2>5, <3>1 DEF Follows
      <4>3. ASSUME NEW j \in ring.count..new.count-1 PROVE new.buf[Place(new, j)] = Read + j + 1
        <5>1. first + (j - ring.count) = Read + j + 1
          BY <2>2, <2>3, <2>5, <3>3, <4>1
        <5> HIDE DEF first, new
        <5> QED BY <2>5, <5>1
      <4> HIDE DEF new
      <4> QED BY <2>2, <2>3, <2>5, <4>2, <4>3
    <3>6. Follows(ring, Read)'
      BY <3>3, <3>5 DEF Follows, Place
    <3> QED BY <1>1, <2>1, <3>1, <3>3, <3>4, <3>6 DEF BytesFollow
  <2>12. NothingMore' /\ RingThere'
    BY <1>1, <2>1, <2>5, <2>7, <2>10 DEF NothingMore, RingThere, Busy, EmitSteps
  <2> QED BY <2>6, <2>8, <2>9, <2>11, <2>12 DEF CapInv
<1> QED BY <1>2, <1>3

\* The end of the capture frees the ring.
LEMMA ReleaseKeeps ==
  ASSUME CapInv, ReleaseEndpoint
  PROVE  CapInv'
<1>1. /\ CapTypeOK /\ RingOK(ring) /\ GotOK /\ CompletesCounted /\ RingThere /\ BytesFollow /\ PostedInOrder
      /\ hold \in HoldType /\ hold.left \in Nat /\ hold.at = "report"
  BY DEF CapInv, CapTypeOK, HoldType, ReleaseEndpoint, Emitting
<1>2. /\ captureCompleteSent' = TRUE /\ completes' = IF captureCompleteSent THEN completes ELSE completes + 1
      /\ ring' = NoRing
      /\ broken' = IF post.at \in {"none", "ending"} THEN "no" ELSE "curl freed under the post thread"
      /\ hold' = [hold EXCEPT !.at = "unlock"]
      /\ UNCHANGED <<pc, captureActive, captureToFile, post, postThreadStopRequested, postThreadAborted,
                     offered, posted, unjoined>>
  BY DEF ReleaseEndpoint, Complete, postVars
<1>3. RingOK(ring)' /\ ring'.count = 0 /\ ring'.there = FALSE
  <2> DEFINE buf == [i \in Cells |-> 0]
  <2> DEFINE zero == 0
  <2> DEFINE no == FALSE
  <2> DEFINE r == ring'
  <2>1. /\ buf \in [Cells -> Int] /\ zero \in 0..Capacity-1 /\ zero \in 0..Capacity /\ no \in BOOLEAN
        /\ zero = IF zero + zero >= Capacity THEN zero + zero - Capacity ELSE zero + zero
    BY CaptureAssumption
  <2>2. r = [buf |-> buf, head |-> zero, tail |-> zero, count |-> zero, there |-> no]
    BY <1>2 DEF NoRing, Cells
  <2>3. zero = 0 /\ no = FALSE
    OBVIOUS
  <2> HIDE DEF buf, zero, no, r
  <2>4. RingOK(r) /\ r.count = zero /\ r.there = no
    BY <2>1, <2>2, RingMade
  <2>5. RingOK(r) /\ r.count = 0 /\ r.there = FALSE
    BY <2>3, <2>4
  <2> QED BY <2>5 DEF r, RingOK, Place
<1>4. hold' \in HoldType /\ hold'.at = "unlock"
  <2> DEFINE at == "unlock"
  <2> DEFINE left == hold.left
  <2>1. at \in HoldSteps /\ HoldStep(at, left) /\ left \in Nat
    BY <1>1, <1>2 DEF HoldStep, HoldType, HoldSteps
  <2> HIDE DEF left
  <2> QED BY <1>1, <2>1, HoldStepTypes
<1>a. completes \in Nat /\ captureCompleteSent \in BOOLEAN
  BY <1>1 DEF CapTypeOK
<1>b. completes' = (IF captureCompleteSent THEN completes ELSE completes + 1) /\ captureCompleteSent' = TRUE
  BY <1>2
<1>c. broken' = (IF post.at \in {"none", "ending"} THEN "no" ELSE "curl freed under the post thread") /\ unjoined' = unjoined
  BY <1>2
<1>d. captureToFile' = captureToFile
  BY <1>2
<1>5. completes' \in Nat
  BY ONLY <1>a, <1>b
<1>6. CapTypeOK'
  BY <1>1, <1>2, <1>4, <1>5 DEF CapTypeOK, HoldType
<1>7. GotOK' /\ PostedInOrder'
  BY <1>1, <1>2 DEF GotOK, PostedInOrder
<1>8. CompletesCounted'
  <2>1. CompletesCounted
    BY <1>1
  <2> QED BY ONLY <1>a, <1>b, <1>d, <2>1 DEF CompletesCounted
<1>9. unjoined \/ (post = Reads /\ postThreadStopRequested)
  BY <1>1 DEF RingThere, CapTypeOK
<1>10. FreedAfterUse'
  <2>1. unjoined \/ post.at = "none"
    BY <1>9 DEF Reads
  <2> QED BY ONLY <1>c, <2>1 DEF FreedAfterUse
<1>11. Unbroken' => BytesFollow' /\ NothingMore' /\ RingThere'
  <2> SUFFICES ASSUME Unbroken'
               PROVE  BytesFollow' /\ NothingMore' /\ RingThere'
    OBVIOUS
  <2>1. ~StillReads'
    BY <1>2 DEF Unbroken, StillReads
  <2>2. NothingMore' /\ RingThere'
    BY <1>2, <1>4, <1>9 DEF NothingMore, RingThere, EmitSteps
  <2> QED BY <2>1, <2>2 DEF BytesFollow
<1> QED BY <1>3, <1>6, <1>7, <1>8, <1>10, <1>11 DEF CapInv


--------------------------------------------------------------------------------
(* Steps of the post thread.                                                    *)

\* The mutex stays with whom it is, who may be woken.
WakesHold == hold' = hold \/ (hold.at = "wait" /\ hold' = [hold EXCEPT !.at = "woken"])

\* A signal may wake the holder, and changes nothing else of it.
LEMMA WokenHold ==
  ASSUME CapTypeOK, WakesHold
  PROVE  /\ hold' \in HoldType /\ Pending' = Pending
         /\ hold'.at = hold.at \/ (hold.at = "wait" /\ hold'.at = "woken")
         /\ hold'.left = hold.left
<1>1. hold \in HoldType
  BY DEF CapTypeOK, HoldType
<1>2. CASE hold' = hold
  BY <1>1, <1>2 DEF Pending
<1>3. CASE hold.at = "wait" /\ hold' = [hold EXCEPT !.at = "woken"]
  <2>1. hold' \in HoldType /\ hold'.at = "woken" /\ hold'.left = hold.left
    BY <1>1, <1>3 DEF HoldType, HoldSteps
  <2> QED BY <1>3, <2>1 DEF Pending, EmitSteps
<1> QED BY <1>2, <1>3 DEF WakesHold

\* The post thread goes on, and posts nothing or what it has read.
LEMMA PostMovesKeep ==
  ASSUME CapInv, Unbroken, post.at # "none", WakesHold,
         UNCHANGED <<pc, offered, captureActive, captureToFile, captureCompleteSent, completes,
                     postThreadStopRequested, unjoined, broken>>,
         NEW at \in PostSteps, NEW got \in Seq(Int), post' = [at |-> at, got |-> got],
         RingOK(ring)', ring'.there = ring.there, posted' \in Seq(Int), PostedInOrder',
         postThreadAborted' \in BOOLEAN, GotOK', BytesFollow'
  PROVE  CapInv'
<1>1. CapTypeOK /\ NothingMore /\ RingThere /\ CompletesCounted /\ FreedAfterUse
  BY DEF CapInv
<1>2. /\ hold' \in HoldType
      /\ hold'.at = hold.at \/ (hold.at = "wait" /\ hold'.at = "woken")
      /\ hold'.left = hold.left
  BY <1>1, WokenHold
<1>3. CapTypeOK'
  BY <1>1, <1>2 DEF CapTypeOK, HoldType
<1>4. CompletesCounted' /\ FreedAfterUse'
  BY <1>1 DEF CompletesCounted, FreedAfterUse
<1>5. NothingMore'
  BY <1>1, <1>2 DEF NothingMore
<1>6. RingThere'
  <2>1. post # Reads
    BY DEF Reads
  <2> QED BY <1>1, <1>2, <2>1 DEF RingThere, Busy, EmitSteps
<1> QED BY <1>3, <1>4, <1>5, <1>6 DEF CapInv

PostActions ==
  \/ PostThread \/ ReadCallback \/ WaitNotEmpty \/ PostWoken \/ PostThreadExits
  \/ \E failed \in BOOLEAN : PostEnds(failed)

\* The steps of the post thread that leave the ring alone.
LEMMA PostActionsKeep ==
  ASSUME CapInv, PostActions
  PROVE  CapInv'
<1>1. /\ CapTypeOK /\ RingOK(ring) /\ GotOK /\ BytesFollow /\ PostedInOrder
      /\ post \in [at : PostSteps, got : Seq(Int)] /\ post.got \in Seq(Int) /\ Len(post.got) \in Nat /\ Len(posted) \in Nat
      /\ postThreadAborted \in BOOLEAN
      /\ Unbroken
  BY DEF CapInv, CapTypeOK, PostActions, PostThread, ReadCallback, WaitNotEmpty, PostWoken, PostThreadExits, PostEnds, Posting
<1>2. /\ WakesHold /\ post.at # "none"
      /\ UNCHANGED <<pc, ring, offered, posted, captureActive, captureToFile, captureCompleteSent, completes,
                     postThreadStopRequested, unjoined, broken>>
      /\ postThreadAborted' \in BOOLEAN
  BY <1>1 DEF PostActions, PostThread, ReadCallback, WaitNotEmpty, PostWoken, PostThreadExits, PostEnds, Posting,
         NotifyNotFull, WakesHold, flagVars, logVars
<1>3. Pending' = Pending
  BY <1>1, <1>2, WokenHold
<1> DEFINE nil == <<>>
<1>4. nil \in Seq(Int) /\ Len(nil) = 0 /\ nil = <<>>
  BY NothingInOrder
<1> HIDE DEF nil
<1>5. ASSUME NEW at \in PostSteps, NEW got \in Seq(Int), post' = [at |-> at, got |-> got],
             got \in {post.got, nil}, at \in {"none", "created", "curl", "ending"} => got = nil,
             at \in {"created", "curl", "copy", "empty", "wait", "woken"} \/ (at = "return" /\ got # nil) =>
                StillReads /\ got = post.got /\ postThreadAborted' = postThreadAborted
      PROVE  CapInv'
  <2>1. post'.at = at /\ post'.got = got
    BY <1>5
  <2>2. GotOK'
    <3>1. Len(got) <= ReadLen
      BY <1>1, <1>4, <1>5, CaptureAssumption DEF GotOK
    <3> QED BY <1>4, <1>5, <2>1, <3>1 DEF GotOK
  <2>3. RingOK(ring)' /\ ring'.there = ring.there /\ PostedInOrder' /\ posted' \in Seq(Int)
    BY <1>1, <1>2 DEF RingOK, Place, PostedInOrder, CapTypeOK
  <2>4. BytesFollow'
    <3> SUFFICES ASSUME StillReads' PROVE BytesFollow'
      BY DEF BytesFollow
    <3>1. StillReads /\ post'.got = post.got /\ postThreadAborted' = postThreadAborted
      BY <1>4, <1>5, <2>1 DEF StillReads
    <3>2. UNCHANGED <<Read, Follows(ring, Read), InOrderFrom(post.got, Len(posted))>>
      BY <1>2, <3>1 DEF Read, Follows, Place, InOrderFrom
    <3> QED BY <1>1, <1>2, <1>3, <3>1, <3>2 DEF BytesFollow
  <2> QED BY <1>1, <1>2, <1>5, <2>2, <2>3, <2>4, PostMovesKeep
<1>6. CASE PostThread
  <2>1. post.at = "created" /\ post' = [post EXCEPT !.at = "curl"] /\ postThreadAborted' = postThreadAborted
    BY <1>6 DEF PostThread, Posting
  <2>2. post' = [at |-> "curl", got |-> post.got] /\ post.got = nil
    BY <1>1, <1>4, <2>1 DEF GotOK
  <2>3. StillReads /\ "curl" \in PostSteps
    BY <2>1 DEF StillReads, PostSteps
  <2> DEFINE at == "curl"
  <2>4. at \in PostSteps /\ post' = [at |-> at, got |-> post.got]
    BY <2>2, <2>3
  <2> HIDE DEF at
  <2> QED BY <1>1, <1>5, <2>1, <2>2, <2>3, <2>4
<1>7. CASE ReadCallback
  <2> DEFINE at == IF postThreadStopRequested THEN "ending" ELSE "copy"
  <2>1. post.at = "curl" /\ post' = [at |-> at, got |-> nil] /\ postThreadAborted' = postThreadAborted
    BY <1>4, <1>7 DEF ReadCallback, Posting
  <2>2. StillReads /\ at \in PostSteps /\ post.got = nil
    BY <1>1, <1>4, <2>1 DEF StillReads, PostSteps, GotOK
  <2> HIDE DEF at
  <2> QED BY <1>4, <1>5, <2>1, <2>2
<1>8. CASE WaitNotEmpty
  <2> DEFINE at == "wait"
  <2>1. post.at = "empty" /\ post' = [post EXCEPT !.at = "wait"] /\ postThreadAborted' = postThreadAborted
    BY <1>8 DEF WaitNotEmpty, Posting
  <2>2. post' = [at |-> at, got |-> post.got] /\ at \in PostSteps
    BY <1>1, <2>1 DEF PostSteps
  <2>3. StillReads /\ at \notin {"none", "created", "curl", "ending"}
    BY <2>1 DEF StillReads
  <2> HIDE DEF at
  <2> QED BY <1>1, <1>5, <2>1, <2>2, <2>3
<1>9. CASE PostWoken
  <2>1. CASE postThreadStopRequested
    <3> DEFINE at == "return"
    <3>1. post' = [at |-> at, got |-> nil] /\ at \in PostSteps
      BY <1>4, <1>9, <2>1 DEF PostWoken, PostSteps
    <3>2. at \notin {"none", "created", "curl", "ending", "copy", "empty", "wait", "woken"}
      OBVIOUS
    <3> HIDE DEF at
    <3> QED BY <1>4, <1>5, <3>1, <3>2
  <2>2. CASE ~postThreadStopRequested
    <3> DEFINE at == "copy"
    <3>1. post.at = "woken" /\ post' = [post EXCEPT !.at = "copy"] /\ postThreadAborted' = postThreadAborted
      BY <1>9, <2>2 DEF PostWoken, Posting
    <3>2. post' = [at |-> at, got |-> post.got] /\ at \in PostSteps
      BY <1>1, <3>1 DEF PostSteps
    <3>3. StillReads /\ at \notin {"none", "created", "curl", "ending"}
      BY <3>1 DEF StillReads
    <3> HIDE DEF at
    <3> QED BY <1>1, <1>5, <3>1, <3>2, <3>3
  <2> QED BY <2>1, <2>2
<1>10. CASE PostThreadExits
  <2> DEFINE at == "none"
  <2>1. post' = [at |-> at, got |-> nil] /\ at \in PostSteps
    BY <1>4, <1>10 DEF PostThreadExits, Reads, PostSteps
  <2>2. at \notin {"created", "curl", "copy", "empty", "wait", "woken", "return"}
    OBVIOUS
  <2> HIDE DEF at
  <2> QED BY <1>4, <1>5, <2>1, <2>2
<1>11. CASE \E failed \in BOOLEAN : PostEnds(failed)
  <2> DEFINE at == "ending"
  <2>1. post.at = "curl" /\ post' = [post EXCEPT !.at = "ending"]
    BY <1>11 DEF PostEnds, Posting
  <2>2. post' = [at |-> at, got |-> post.got] /\ at \in PostSteps /\ post.got = nil
    BY <1>1, <1>4, <2>1 DEF PostSteps, GotOK
  <2>3. at \notin {"created", "curl", "copy", "empty", "wait", "woken", "return"}
    OBVIOUS
  <2> HIDE DEF at
  <2> QED BY <1>1, <1>5, <2>2, <2>3
<1> QED BY <1>6, <1>7, <1>8, <1>9, <1>10, <1>11 DEF PostActions

\* What the callback has read goes to curl.
LEMMA CallbackReturnsKeeps ==
  ASSUME CapInv, CallbackReturns
  PROVE  CapInv'
<1>1. /\ CapTypeOK /\ RingOK(ring) /\ GotOK /\ BytesFollow /\ PostedInOrder
      /\ post.got \in Seq(Int) /\ Len(post.got) \in Nat /\ posted \in Seq(Int) /\ Len(posted) \in Nat
      /\ Unbroken /\ post.at = "return"
  BY DEF CapInv, CapTypeOK, CallbackReturns, Posting
<1>2. /\ WakesHold /\ posted' = posted \o post.got
      /\ UNCHANGED <<pc, ring, offered, captureActive, captureToFile, captureCompleteSent, completes,
                     postThreadStopRequested, postThreadAborted, unjoined, broken>>
  BY DEF CallbackReturns, NotifyNotFull, WakesHold, flagVars
<1> DEFINE at == IF post.got = <<>> THEN "ending" ELSE "curl"
<1> DEFINE nil == <<>>
<1>3. post' = [at |-> at, got |-> nil] /\ at \in PostSteps
  BY DEF CallbackReturns, PostSteps
<1>4. nil \in Seq(Int) /\ Len(nil) = 0 /\ nil = <<>>
  BY NothingInOrder
<1>5. at = "ending" \/ (at = "curl" /\ StillReads)
  BY <1>1 DEF StillReads
<1> HIDE DEF nil
<1>6. posted' \in Seq(Int) /\ Len(posted') = Len(posted) + Len(post.got) /\ InOrderFrom(posted', 0)
  <2> DEFINE zero == 0
  <2> DEFINE new == posted'
  <2>1. InOrderFrom(posted, zero) /\ zero \in Int /\ Len(posted) = zero + Len(posted)
    BY <1>1 DEF PostedInOrder, InOrderFrom
  <2>2. CASE post.got = <<>>
    <3>1. InOrderFrom(post.got, Len(posted))
      BY <2>2, NothingInOrder
    <3> HIDE DEF zero
    <3> QED BY <1>1, <1>2, <2>1, <3>1, JoinInOrder DEF zero
  <2>3. CASE post.got # <<>>
    <3>1. InOrderFrom(post.got, Len(posted))
      BY <1>1, <2>3 DEF BytesFollow, StillReads
    <3> HIDE DEF zero
    <3> QED BY <1>1, <1>2, <2>1, <3>1, JoinInOrder DEF zero
  <2> QED BY <2>2, <2>3
<1>7. PostedInOrder'
  <2>1. DOMAIN posted' = 1..Len(posted')
    BY <1>6
  <2> QED BY <1>6, <2>1 DEF PostedInOrder, InOrderFrom
<1> HIDE DEF at
<1>8. post'.at = at /\ post'.got = nil
  BY <1>3
<1>9. GotOK'
  BY <1>4, <1>8, CaptureAssumption DEF GotOK
<1>10. RingOK(ring)' /\ ring'.there = ring.there /\ postThreadAborted' \in BOOLEAN
  BY <1>1, <1>2 DEF RingOK, Place, CapTypeOK
<1>11. BytesFollow'
  <2> SUFFICES ASSUME StillReads' PROVE BytesFollow'
    BY DEF BytesFollow
  <2>1. StillReads
    BY <1>5, <1>8 DEF StillReads
  <2>2. Read' = Read
    BY <1>1, <1>4, <1>6, <1>8 DEF Read
  <2>3. InOrderFrom(post.got, Len(posted))'
    <3> DEFINE m == Len(posted')
    <3>1. InOrderFrom(nil, m)
      BY NothingInOrder DEF nil
    <3> HIDE DEF m
    <3>2. InOrderFrom(post'.got, m)
      BY <1>8, <3>1
    <3> QED BY <3>2 DEF m, InOrderFrom
  <2>4. Follows(ring, Read)' /\ Pending' = Pending
    <3>1. Follows(ring, Read)
      BY <1>1, <2>1 DEF BytesFollow
    <3> QED BY <1>1, <1>2, <2>2, <3>1, WokenHold DEF Follows, Place
  <2> QED BY <1>1, <1>2, <2>1, <2>2, <2>3, <2>4 DEF BytesFollow
<1> QED BY <1>1, <1>2, <1>3, <1>4, <1>6, <1>7, <1>9, <1>10, <1>11, PostMovesKeep

\* Out of the ring: what is taken follows what the callback has.
LEMMA CopyOutKeeps ==
  ASSUME CapInv, CopyOut
  PROVE  CapInv'
<1>1. /\ CapTypeOK /\ RingOK(ring) /\ GotOK /\ BytesFollow /\ PostedInOrder
      /\ post.got \in Seq(Int) /\ Len(post.got) \in Nat /\ posted \in Seq(Int) /\ Len(posted) \in Nat
      /\ Unbroken /\ post.at = "copy"
  BY DEF CapInv, CapTypeOK, CopyOut, Posting
<1>2. /\ ~captureToFile /\ ~postThreadAborted
      /\ InOrderFrom(post.got, Len(posted)) /\ Follows(ring, Read)
      /\ ~postThreadStopRequested => offered - Pending = Read + ring.count
  BY <1>1 DEF BytesFollow, StillReads
<1> DEFINE old == post.got
<1> DEFINE n == Least(ReadLen - Len(old), ring.count)
<1> DEFINE k == TakeRun(ring, n)
<1> DEFINE r == Dropped(ring, k)
<1> DEFINE l == TakeRun(r, n - k)
<1> DEFINE u == Dropped(r, l)
<1> DEFINE a == BytesAt(ring, k)
<1> DEFINE b == BytesAt(r, l)
<1> DEFINE got == old \o a \o b
<1> DEFINE at == IF Len(got) < ReadLen THEN "empty" ELSE "return"
<1>3. /\ ring' = u /\ post' = [at |-> at, got |-> got]
      /\ UNCHANGED <<pc, hold, captureActive, captureToFile, captureCompleteSent, offered, posted, completes,
                     postThreadStopRequested, postThreadAborted, unjoined, broken>>
  BY DEF CopyOut, flagVars, logVars
<1>4. /\ Capacity \in Nat \ {0} /\ ReadLen \in Nat \ {0} /\ ring.count \in 0..Capacity
      /\ Len(old) <= ReadLen
  BY <1>1, RingFields DEF GotOK
<1>5. n \in Nat /\ n <= ring.count /\ n <= ReadLen - Len(old)
  BY <1>1, <1>4 DEF Least
<1> HIDE DEF n
<1>6. /\ k \in 0..n /\ RingOK(r) /\ r.count = ring.count - k /\ r.there = ring.there
      /\ a \in Seq(Int) /\ Len(a) = k
      /\ \A i \in 1..k : a[i] = ring.buf[Place(ring, i - 1)]
      /\ \A j \in 0..r.count-1 : r.buf[Place(r, j)] = ring.buf[Place(ring, j + k)]
  <2> DEFINE kk == k
  <2> DEFINE rr == r
  <2>1. kk = TakeRun(ring, n) /\ rr = Dropped(ring, kk)
    OBVIOUS
  <2> HIDE DEF kk, rr
  <2>2. /\ kk \in 0..n /\ RingOK(rr) /\ rr.count = ring.count - kk /\ rr.there = ring.there
        /\ BytesAt(ring, kk) \in Seq(Int) /\ Len(BytesAt(ring, kk)) = kk
        /\ \A i \in 1..kk : BytesAt(ring, kk)[i] = ring.buf[Place(ring, i - 1)]
        /\ \A j \in 0..rr.count-1 : rr.buf[Place(rr, j)] = ring.buf[Place(ring, j + kk)]
    BY <1>1, <1>5, <2>1, TakeTakes
  <2> QED BY <2>2 DEF kk, rr
<1> HIDE DEF k, r, a
<1>7. /\ l \in 0..n-k /\ RingOK(u) /\ u.count = r.count - l /\ u.there = r.there
      /\ b \in Seq(Int) /\ Len(b) = l
      /\ \A i \in 1..l : b[i] = r.buf[Place(r, i - 1)]
      /\ \A j \in 0..u.count-1 : u.buf[Place(u, j)] = r.buf[Place(r, j + l)]
  <2> DEFINE ll == l
  <2> DEFINE uu == u
  <2> DEFINE m == n - k
  <2>1. ll = TakeRun(r, m) /\ uu = Dropped(r, ll) /\ m \in Nat /\ m <= r.count
    BY <1>4, <1>5, <1>6
  <2> HIDE DEF ll, uu, m
  <2>2. /\ ll \in 0..m /\ RingOK(uu) /\ uu.count = r.count - ll /\ uu.there = r.there
        /\ BytesAt(r, ll) \in Seq(Int) /\ Len(BytesAt(r, ll)) = ll
        /\ \A i \in 1..ll : BytesAt(r, ll)[i] = r.buf[Place(r, i - 1)]
        /\ \A j \in 0..uu.count-1 : uu.buf[Place(uu, j)] = r.buf[Place(r, j + ll)]
    BY <1>6, <2>1, TakeTakes
  <2> QED BY <2>2 DEF ll, uu, m
<1> HIDE DEF l, u, b
<1>a. Read \in Nat /\ Read = Len(posted) + Len(old)
  BY <1>1 DEF Read
<1>8. /\ k \in Nat /\ l \in Nat /\ k + l <= n
      /\ ring.count \in Nat /\ r.count = ring.count - k /\ u.count = ring.count - (k + l)
      /\ u.count \in Nat /\ r.count \in Nat
  <2> DEFINE c == ring.count
  <2> DEFINE rc == r.count
  <2> DEFINE uc == u.count
  <2>1. /\ n \in Nat /\ c \in Nat /\ n <= c /\ k \in 0..n /\ l \in 0..n-k
        /\ rc = c - k /\ uc = rc - l
    BY <1>4, <1>5, <1>6, <1>7
  <2> HIDE DEF c, rc, uc
  <2>2. k \in Nat /\ l \in Nat /\ k + l <= n /\ rc \in Nat /\ uc = c - (k + l) /\ uc \in Nat
    BY <2>1
  <2> QED BY <2>1, <2>2 DEF c, rc, uc
<1>b. /\ Read \in Nat /\ k \in Nat /\ l \in Nat
      /\ ring.count \in Nat /\ r.count = ring.count - k /\ u.count = r.count - l
  BY <1>7, <1>8, <1>a
<1> HIDE DEF old
<1>9. \A j \in 0..ring.count-1 : ring.buf[Place(ring, j)] = Read + j + 1
  BY <1>2 DEF Follows
<1>10. \A j \in 0..r.count-1 : r.buf[Place(r, j)] = Read + k + j + 1
  <2> SUFFICES ASSUME NEW j \in 0..r.count-1
               PROVE  r.buf[Place(r, j)] = Read + k + j + 1
    OBVIOUS
  <2>1. j + k \in 0..ring.count-1 /\ Read + (j + k) + 1 = Read + k + j + 1
    BY <1>b
  <2> QED BY <1>6, <1>9, <2>1
<1>11. InOrderFrom(a, Read)
  <2>1. \A i \in 1..k : i - 1 \in 0..ring.count-1 /\ Read + (i - 1) + 1 = Read + i
    BY <1>8, <1>b
  <2> QED BY <1>6, <1>9, <2>1 DEF InOrderFrom
<1>12. InOrderFrom(b, Read + k)
  <2>1. \A i \in 1..l : i - 1 \in 0..r.count-1 /\ Read + k + (i - 1) + 1 = Read + k + i
    BY <1>8, <1>b
  <2> QED BY <1>7, <1>10, <2>1 DEF InOrderFrom
<1>13. \A j \in 0..u.count-1 : u.buf[Place(u, j)] = Read + k + l + j + 1
  <2> SUFFICES ASSUME NEW j \in 0..u.count-1
               PROVE  u.buf[Place(u, j)] = Read + k + l + j + 1
    OBVIOUS
  <2>1. j + l \in 0..r.count-1 /\ Read + k + (j + l) + 1 = Read + k + l + j + 1
    BY <1>8, <1>b
  <2> QED BY <1>7, <1>10, <2>1
<1>14. got \in Seq(Int) /\ Len(got) = Len(old) + k + l /\ InOrderFrom(got, Len(posted))
  <2> DEFINE one == old \o a
  <2> DEFINE p == Len(posted)
  <2>1. old \in Seq(Int) /\ InOrderFrom(old, p) /\ p \in Int /\ Read = p + Len(old) /\ Read \in Int
    BY <1>1, <1>2, <1>a DEF old
  <2> HIDE DEF p
  <2>2. one \in Seq(Int) /\ Len(one) = Len(old) + k /\ InOrderFrom(one, p)
    BY <1>6, <1>11, <2>1, JoinInOrder
  <2> DEFINE m == Read + k
  <2>3. InOrderFrom(b, m) /\ m \in Int /\ m = p + Len(one)
    <3>1. Len(old) \in Int /\ Len(one) = Len(old) + k /\ k \in Int
      BY <1>1, <1>8, <2>2 DEF old
    <3> HIDE DEF one
    <3>2. m \in Int /\ m = p + Len(one)
      BY <2>1, <3>1
    <3> QED BY <1>12, <3>2
  <2> HIDE DEF one, m
  <2>4. one \o b \in Seq(Int) /\ Len(one \o b) = Len(one) + Len(b) /\ InOrderFrom(one \o b, p)
    BY <1>7, <2>1, <2>2, <2>3, JoinInOrder
  <2>5. Len(one \o b) = Len(old) + k + l
    BY <1>7, <2>2, <2>4
  <2> QED BY <2>4, <2>5 DEF one, p
<1> HIDE DEF got
<1>15. at \in PostSteps /\ at \in {"empty", "return"}
  BY DEF PostSteps
<1> HIDE DEF at
<1>16. post'.at = at /\ post'.got = got
  BY <1>3
<1>17. GotOK'
  <2>1. Len(got) <= ReadLen
    <3>1. Len(old) \in Nat
      BY <1>1 DEF old
    <3> QED BY <1>4, <1>5, <1>8, <1>14, <3>1
  <2> QED BY <1>15, <1>16, <2>1 DEF GotOK
<1>18. RingOK(ring)' /\ ring'.there = ring.there /\ PostedInOrder' /\ posted' \in Seq(Int) /\ postThreadAborted' \in BOOLEAN
  BY <1>1, <1>3, <1>6, <1>7 DEF RingOK, Place, PostedInOrder, CapTypeOK
<1>19. BytesFollow'
  <2>1. Read' = Read + k + l
    <3>1. Read' = Len(posted) + Len(got)
      BY <1>3, <1>16 DEF Read
    <3>2. Len(old) \in Nat
      BY <1>1 DEF old
    <3> QED BY <1>1, <1>8, <1>14, <1>a, <3>1, <3>2
  <2>2. Follows(ring, Read)'
    <3> DEFINE m == Read'
    <3> DEFINE new == ring'
    <3>1. m = Read + k + l /\ new = u
      BY <1>3, <2>1
    <3> HIDE DEF m, new
    <3>2. \A j \in 0..new.count-1 : new.buf[Place(new, j)] = m + j + 1
      BY <1>13, <3>1
    <3> QED BY <3>2 DEF m, new, Follows, Place
  <2>3. InOrderFrom(post.got, Len(posted))'
    BY <1>3, <1>14, <1>16 DEF InOrderFrom
  <2>4. Pending' = Pending
    BY <1>3 DEF Pending
  <2>5. ~postThreadStopRequested' => offered' - Pending' = Read' + ring'.count
    <3>1. Read + k + l + u.count = Read + ring.count
      BY <1>8, <1>b
    <3>2. Read' + ring'.count = Read + ring.count
      BY <1>3, <2>1, <3>1
    <3> QED BY <1>2, <1>3, <2>4, <3>2
  <2> QED BY <1>2, <1>3, <2>2, <2>3, <2>5 DEF BytesFollow
<1>20. WakesHold /\ post.at # "none"
  BY <1>1, <1>3 DEF WakesHold
<1> QED BY <1>1, <1>3, <1>14, <1>15, <1>17, <1>18, <1>19, <1>20, PostMovesKeep

--------------------------------------------------------------------------------
\* Every step of a capture.
LEMMA CapStepInv == CapInv /\ [CapNext]_capVars => CapInv'
<1> SUFFICES ASSUME CapInv, [CapNext]_capVars PROVE CapInv'
  OBVIOUS
<1>1. CASE OutsideActions
  BY <1>1, OutsideKeeps
<1>2. CASE \E toFile \in BOOLEAN : StartCapture(toFile)
  BY <1>2, StartCaptureKeeps
<1>3. CASE \E t \in Callers : ProcessCaptureData(t) \/ StopBegin(t)
  BY <1>3, EmitActionsKeep
<1>4. CASE HoldActions
  BY <1>4, HoldActionsKeep
<1>5. CASE CopyIn
  BY <1>5, CopyInKeeps
<1>6. CASE ReleaseEndpoint
  BY <1>6, ReleaseKeeps
<1>7. CASE PostActions
  BY <1>7, PostActionsKeep
<1>8. CASE CallbackReturns
  BY <1>8, CallbackReturnsKeeps
<1>9. CASE CopyOut
  BY <1>9, CopyOutKeeps
<1>10. CASE UNCHANGED capVars
  <2>1. UNCHANGED <<pc, hold, captureActive, captureToFile, captureCompleteSent, ring, post,
                    postThreadStopRequested, postThreadAborted, offered, posted, completes, unjoined, broken>>
    BY <1>10 DEF capVars, flagVars, postVars, logVars
  <2>6. CapTypeOK'
    BY <2>1 DEF CapInv, CapTypeOK
  <2>7. RingOK(ring)'
    BY <2>1 DEF CapInv, RingOK, Place
  <2>2. GotOK' /\ PostedInOrder' /\ CompletesCounted' /\ FreedAfterUse'
    BY <2>1 DEF CapInv, GotOK, PostedInOrder, CompletesCounted, FreedAfterUse
  <2>3. Unbroken' => BytesFollow /\ NothingMore /\ RingThere
    BY <2>1 DEF CapInv, Unbroken
  <2>4. BytesFollow => BytesFollow'
    BY <2>1 DEF BytesFollow, StillReads, InOrderFrom, Follows, Place, Read, Pending
  <2>5. (NothingMore => NothingMore') /\ (RingThere => RingThere')
    BY <2>1 DEF NothingMore, RingThere, Busy
  <2> QED BY <2>2, <2>3, <2>4, <2>5, <2>6, <2>7 DEF CapInv
<1> QED BY <1>1, <1>2, <1>3, <1>4, <1>5, <1>6, <1>7, <1>8, <1>9, <1>10 DEF CapNext, OutsideActions, HoldActions, PostActions

\* What curl gets is what was offered, from the first byte on, in order and with none left out.
THEOREM BytesLeaveInOrder == CapSpec => []PostedInOrder
<1>1. CapInv => PostedInOrder
  BY DEF CapInv
<1> QED BY <1>1, CapInitInv, CapStepInv, PTL DEF CapSpec

\* A capture is complete once, and its ring is used no longer than it is there.
THEOREM CapturesEndOnce == CapSpec => []EndsOnce
<1>1. CapInv => EndsOnce
  BY DEF CapInv, CapTypeOK, CompletesCounted, EndsOnce, OneComplete
<1> QED BY <1>1, CapInitInv, CapStepInv, PTL DEF CapSpec

--------------------------------------------------------------------------------
Packet == [n : Nat, pts : Times \cup {None}]
Track == [packet : Seq(Packet), accumulator : Seq(Packet), accumTestPTS : Int,
          firstBlockLen : Nat, bufferCount : Nat, made : Nat, out : Nat]

\* A source's packets that have not left are the next in number, up to the last made.
Numbered(waiting, out, made) == Numbers(waiting, out) /\ out + Len(waiting) = made
Whole(t) == t \in Track /\ Numbered(t.accumulator \o t.packet, t.out, t.made)

\* Two lists, one behind the other.
LEMMA Behind ==
  ASSUME NEW S, NEW a \in Seq(S), NEW b \in Seq(S), NEW la, la = Len(a), NEW lb, lb = Len(b)
  PROVE  /\ a \o b \in Seq(S) /\ Len(a \o b) = la + lb /\ DOMAIN (a \o b) = 1..(la + lb)
         /\ \A i \in 1..la : (a \o b)[i] = a[i]
         /\ \A i \in 1..lb : (a \o b)[la + i] = b[i]
         /\ la \in Nat /\ lb \in Nat
BY ConcatProperties

\* Where the first n packets of a list are taken, the rest follow in number.
LEMMA RestNumbered ==
  ASSUME NEW acc \in Seq(Packet), NEW packet \in Seq(Packet), NEW out \in Nat, NEW made \in Nat,
         NEW n \in Nat, n <= Len(acc), Numbered(acc \o packet, out, made)
  PROVE  /\ KeepRest(acc, n) \in Seq(Packet) /\ Len(KeepRest(acc, n)) = Len(acc) - n
         /\ \A i \in 1..Len(acc) - n : KeepRest(acc, n)[i] = acc[i + n]
         /\ Numbered(KeepRest(acc, n) \o packet, out + n, made)
<1> DEFINE rest == KeepRest(acc, n)  la == Len(acc)  lp == Len(packet)  lr == la - n
           all == acc \o packet  now == rest \o packet
<1>1. rest \in Seq(Packet) /\ Len(rest) = lr /\ \A i \in 1..lr : rest[i] = acc[i + n]
  BY SubSeqProperties DEF KeepRest
<1>2. /\ Len(all) = la + lp /\ la \in Nat /\ lp \in Nat
      /\ \A i \in 1..la : all[i] = acc[i]
      /\ \A i \in 1..lp : all[la + i] = packet[i]
  BY Behind
<1> HIDE DEF rest
<1>3. /\ Len(now) = lr + lp /\ DOMAIN now = 1..lr + lp
      /\ \A i \in 1..lr : now[i] = rest[i]
      /\ \A i \in 1..lp : now[lr + i] = packet[i]
  <2> HIDE DEF lr, lp, now
  <2>1. packet \in Seq(Packet) /\ rest \in Seq(Packet) /\ lr = Len(rest) /\ lp = Len(packet)
    BY <1>1 DEF lp
  <2> DEFINE both == rest \o packet
  <2>2. /\ Len(both) = lr + lp /\ DOMAIN both = 1..lr + lp
        /\ \A i \in 1..lr : both[i] = rest[i]
        /\ \A i \in 1..lp : both[lr + i] = packet[i]
    BY ONLY <2>1, Behind
  <2> QED BY <2>2 DEF now
<1>4. /\ out + Len(all) = made
      /\ \A i \in 1..Len(all) : all[i].n = out + i
  <2>1. DOMAIN all = 1..Len(all)
    BY Behind
  <2> QED BY <2>1 DEF Numbered, Numbers
<1>5. n <= la /\ lr \in Nat
  BY <1>2
<1> HIDE DEF all, now, la, lp, lr
<1>6. lr + n = la
  BY <1>2 DEF lr
<1>7. out + n + Len(now) = made
  <2>1. Len(now) = lr + lp /\ out + (la + lp) = made
    BY <1>2, <1>3, <1>4
  <2>2. out \in Nat /\ n \in Nat /\ la \in Nat /\ lr \in Nat /\ lp \in Nat
    BY <1>2, <1>5
  <2> QED BY ONLY <2>1, <2>2, <1>6
<1>8. ASSUME NEW i \in 1..lr + lp
      PROVE  now[i].n = out + n + i
  <2>1. CASE i \in 1..lr
    <3>1. i + n \in 1..la /\ i + n \in 1..Len(all) /\ out + (i + n) = out + n + i
      BY <1>2, <1>5, <1>6, <2>1
    <3>2. now[i] = all[i + n]
      BY <1>1, <1>2, <1>3, <2>1, <3>1
    <3> QED BY <1>4, <3>1, <3>2
  <2>2. CASE i \notin 1..lr
    <3> DEFINE j == i - lr
    <3>1. /\ j \in 1..lp /\ i = lr + j /\ la + j \in 1..Len(all)
          /\ out + (la + j) = out + n + i
      BY <1>2, <1>5, <1>6, <2>2
    <3> HIDE DEF j
    <3>2. now[i] = packet[j] /\ all[la + j] = packet[j]
      BY <1>2, <1>3, <3>1
    <3> QED BY <1>4, <3>1, <3>2
  <2> QED BY <2>1, <2>2
<1>9. Numbers(now, out + n)
  BY <1>3, <1>8 DEF Numbers
<1> QED BY <1>1, <1>7, <1>9 DEF Numbered, rest, now, la, lr

\* A block leaves from the front, and what is left is the source's packets from there on.
LEMMA EmitBlockWhole ==
  ASSUME NEW t, Whole(t), NEW n \in Nat, n <= Len(t.accumulator)
  PROVE  /\ Whole(EmitBlock(t, n)) /\ EmitBlock(t, n).accumulator = KeepRest(t.accumulator, n)
         /\ EmitBlock(t, n).packet = t.packet
<1>1. t \in Track
  BY DEF Whole
<1> DEFINE acc == t.accumulator  rest == KeepRest(acc, n)  e == EmitBlock(t, n)
<1>2. /\ rest \in Seq(Packet) /\ Numbered(rest \o t.packet, t.out + n, t.made)
  <2>1. /\ acc \in Seq(Packet) /\ t.packet \in Seq(Packet) /\ t.out \in Nat /\ t.made \in Nat
        /\ Numbered(acc \o t.packet, t.out, t.made)
    BY DEF Whole, Track
  <2> QED BY <2>1, RestNumbered
<1> HIDE DEF acc, rest, e
<1>3. e = [t EXCEPT !.accumulator = rest, !.out = t.out + n]
  BY <1>1 DEF EmitBlock, acc, rest, Track, e
<1>4. e \in Track /\ e.accumulator = rest /\ e.packet = t.packet /\ e.out = t.out + n /\ e.made = t.made
  <2>1. rest \in Seq(Packet) /\ t.out + n \in Nat
    BY <1>1, <1>2 DEF Track
  <2> DEFINE S == Seq(Packet)
  <2>2. rest \in S
    BY <2>1
  <2>3. Track = [packet : S, accumulator : S, accumTestPTS : Int,
                 firstBlockLen : Nat, bufferCount : Nat, made : Nat, out : Nat]
    BY DEF Track
  <2> HIDE DEF S
  <2> QED BY <1>1, <1>3, <2>1, <2>2, <2>3
<1> QED BY <1>2, <1>4 DEF Whole, acc, rest, e

\* The fields of a source.
LEMMA TrackFields ==
  ASSUME NEW t, Whole(t)
  PROVE  /\ t \in Track /\ t.packet \in Seq(Packet) /\ t.accumulator \in Seq(Packet)
         /\ t.accumTestPTS \in Int /\ t.firstBlockLen \in Nat /\ t.bufferCount \in Nat
         /\ t.made \in Nat /\ t.out \in Nat
         /\ Numbered(t.accumulator \o t.packet, t.out, t.made)
BY DEF Whole, Track

\* What is noted of a source, or counted, moves none of its packets.
Note(t, a, b) == [t EXCEPT !.accumTestPTS = a, !.firstBlockLen = b]
Count(t, a) == [t EXCEPT !.bufferCount = a]

LEMMA NotesKeep ==
  ASSUME NEW t, Whole(t), NEW a \in Int, NEW b \in Nat
  PROVE  /\ Whole(Note(t, a, b)) /\ Note(t, a, b).accumulator = t.accumulator
         /\ Note(t, a, b).packet = t.packet /\ Note(t, a, b).firstBlockLen = b
<1> DEFINE S == Seq(Packet)  r == [t EXCEPT !.accumTestPTS = a, !.firstBlockLen = b]
<1>1. t \in Track /\ Track = [packet : S, accumulator : S, accumTestPTS : Int,
                              firstBlockLen : Nat, bufferCount : Nat, made : Nat, out : Nat]
  BY DEF Whole, Track
<1> HIDE DEF S
<1>2. /\ r \in Track /\ r.accumulator = t.accumulator /\ r.packet = t.packet
      /\ r.out = t.out /\ r.made = t.made /\ r.firstBlockLen = b
  BY <1>1
<1>3. Note(t, a, b) = r
  BY DEF Note
<1> HIDE DEF r
<1>4. Whole(r)
  BY <1>2 DEF Whole
<1> QED BY <1>2, <1>3, <1>4

LEMMA CountKeeps ==
  ASSUME NEW t, Whole(t), NEW a \in Nat
  PROVE  Whole(Count(t, a)) /\ Count(t, a).accumulator = t.accumulator /\ Count(t, a).packet = t.packet
<1> DEFINE S == Seq(Packet)  r == [t EXCEPT !.bufferCount = a]
<1>1. t \in Track /\ Track = [packet : S, accumulator : S, accumTestPTS : Int,
                              firstBlockLen : Nat, bufferCount : Nat, made : Nat, out : Nat]
  BY DEF Whole, Track
<1> HIDE DEF S
<1>2. /\ r \in Track /\ r.accumulator = t.accumulator /\ r.packet = t.packet
      /\ r.out = t.out /\ r.made = t.made
  BY <1>1
<1>3. Count(t, a) = r
  BY DEF Count
<1> HIDE DEF r
<1>4. Whole(r)
  BY <1>2 DEF Whole
<1> QED BY <1>2, <1>3, <1>4

\* flushPacket leaves no packet, and the packets in their order.
LEMMA FlushPacketWhole ==
  ASSUME NEW t, Whole(t)
  PROVE  /\ Whole(FlushPacket(t)) /\ FlushPacket(t).packet = <<>>
         /\ FlushPacket(t).accumulator \in Seq(Packet)
<1> DEFINE S == Seq(Packet)  all == t.accumulator \o t.packet  none == <<>>
           full == [t EXCEPT !.packet = none, !.accumulator = all]
<1>1. t \in Track /\ Track = [packet : S, accumulator : S, accumTestPTS : Int,
                              firstBlockLen : Nat, bufferCount : Nat, made : Nat, out : Nat]
  BY DEF Whole, Track
<1>2. all \in S /\ none \in S /\ all \o none = all
  <2>1. t.accumulator \in Seq(Packet) /\ t.packet \in Seq(Packet)
    BY TrackFields
  <2>2. all \in Seq(Packet)
    BY <2>1
  <2>3. \A X : <<>> \in Seq(X)
    BY EmptySeq
  <2> HIDE DEF all
  <2> QED BY <2>2, <2>3
<1>3. Numbered(all, t.out, t.made)
  BY TrackFields
<1> HIDE DEF S, all, none
<1>4. /\ full \in Track /\ full.accumulator = all /\ full.packet = none
      /\ full.out = t.out /\ full.made = t.made
  BY <1>1, <1>2
<1> HIDE DEF full
<1>5. Whole(full)
  BY <1>2, <1>3, <1>4 DEF Whole
<1>6. FlushPacket(t) = IF t.packet # none /\ Len(all) = AccumSize THEN EmitBlock(full, AccumSize) ELSE full
  BY <1>4 DEF FlushPacket, full, all, none
<1>7. CASE t.packet # none /\ Len(all) = AccumSize
  <2>1. AccumSize \in Nat /\ AccumSize <= Len(full.accumulator)
    BY <1>4, <1>7, MuxAssumption
  <2>2. Whole(EmitBlock(full, AccumSize)) /\ EmitBlock(full, AccumSize).packet = none
    BY <1>4, <1>5, <2>1, EmitBlockWhole
  <2>3. FlushPacket(t) = EmitBlock(full, AccumSize)
    BY <1>6, <1>7
  <2>4. Whole(FlushPacket(t)) /\ FlushPacket(t).packet = none
    BY <2>2, <2>3
  <2> QED BY <2>4, TrackFields DEF none
<1>8. CASE ~(t.packet # none /\ Len(all) = AccumSize)
  <2>1. FlushPacket(t) = full
    BY <1>6, <1>8
  <2>2. Whole(FlushPacket(t)) /\ FlushPacket(t).packet = none
    BY <1>4, <1>5, <2>1
  <2> QED BY <2>2, TrackFields DEF none
<1> QED BY <1>7, <1>8

\* flushCaptureData leaves nothing.
LEMMA FlushCaptureDataWhole ==
  ASSUME NEW t, Whole(t)
  PROVE  Whole(FlushCaptureData(t))
<1> DEFINE f == FlushPacket(t)
<1>1. Whole(f) /\ f.accumulator \in Seq(Packet)
  BY FlushPacketWhole
<1> HIDE DEF f
<1>2. Len(f.accumulator) \in Nat /\ Len(f.accumulator) <= Len(f.accumulator)
  BY <1>1
<1>3. Whole(EmitBlock(f, Len(f.accumulator)))
  BY <1>1, <1>2, EmitBlockWhole
<1> QED BY <1>3 DEF FlushCaptureData, f

\* A new packet is the next in number.
LEMMA StartPacketWhole ==
  ASSUME NEW t, Whole(t), t.packet = <<>>, NEW pts \in Times \cup {None}
  PROVE  Whole(StartPacket(t, pts))
<1> DEFINE S == Seq(Packet)  p == [n |-> t.made + 1, pts |-> pts]  one == <<p>>
           acc == t.accumulator  r == [t EXCEPT !.packet = one, !.made = t.made + 1]
<1>1. t \in Track /\ Track = [packet : S, accumulator : S, accumTestPTS : Int,
                              firstBlockLen : Nat, bufferCount : Nat, made : Nat, out : Nat]
  BY DEF Whole, Track
<1>2. /\ acc \in Seq(Packet) /\ t.made \in Nat /\ t.out \in Nat /\ acc \o <<>> = acc
      /\ Numbered(acc, t.out, t.made)
  <2>1. acc \in Seq(Packet) /\ t.made \in Nat /\ t.out \in Nat /\ Numbered(acc \o t.packet, t.out, t.made)
    BY TrackFields
  <2>2. acc \o <<>> = acc
    BY <2>1
  <2> QED BY <2>1, <2>2
<1>3. p \in Packet /\ p.n = t.made + 1
  BY <1>2 DEF Packet
<1> HIDE DEF p, acc
<1>4. one \in S
  BY <1>3
<1>5. Numbered(acc \o one, t.out, t.made + 1)
  <2>1. Len(acc \o one) = Len(acc) + 1 /\ t.out + Len(acc) = t.made
    BY <1>2 DEF Numbered
  <2>2. \A i \in 1..Len(acc) : (acc \o one)[i] = acc[i]
    BY <1>2, <1>3
  <2>3. (acc \o one)[Len(acc) + 1] = p
    BY <1>2, <1>3
  <2>4. ASSUME NEW i \in 1..Len(acc \o one)
        PROVE  (acc \o one)[i].n = t.out + i
    <3>1. CASE i \in 1..Len(acc)
      BY <1>2, <2>2, <3>1 DEF Numbered, Numbers
    <3>2. CASE i = Len(acc) + 1
      <4>1. (acc \o one)[i] = p
        BY <2>3, <3>2
      <4>2. t.out + i = t.made + 1
        BY <1>2, <2>1, <3>2
      <4> QED BY <1>3, <4>1, <4>2
    <3>3. i \in 1..Len(acc) \/ i = Len(acc) + 1
      BY <1>2, <2>1
    <3> QED BY <3>1, <3>2, <3>3
  <2>5. DOMAIN (acc \o one) = 1..Len(acc \o one)
    BY <1>2, <1>3
  <2>6. t.out + Len(acc \o one) = t.made + 1
    BY <1>2, <2>1
  <2> HIDE DEF one
  <2> QED BY <2>4, <2>5, <2>6 DEF Numbered, Numbers
<1> HIDE DEF S, one
<1>6. /\ r \in Track /\ r.accumulator = acc /\ r.packet = one
      /\ r.out = t.out /\ r.made = t.made + 1
  <2>1. t.made + 1 \in Nat
    BY <1>2
  <2> QED BY <1>1, <1>4, <2>1 DEF acc
<1> HIDE DEF r
<1>7. Whole(r)
  BY <1>5, <1>6 DEF Whole
<1> QED BY <1>7 DEF StartPacket, r, one, p

--------------------------------------------------------------------------------
(* The times in an accumulator.                                                 *)

\* A non-empty set of times, or of no time yet, has its least.
LEMMA LeastTime ==
  ASSUME NEW I \in SUBSET (Nat \cup {None}), I # {}
  PROVE  Min(I) \in I /\ \A j \in I : Min(I) <= j
<1>1. PICK i \in I : \A j \in I : i <= j
  <2>1. CASE None \in I
    BY <2>1 DEF None
  <2>2. CASE None \notin I
    <3>1. I \in SUBSET Nat
      BY <2>2
    <3>2. PICK i \in I : \A j \in I : <<j, i>> \notin OpToRel(<, Nat)
      BY <3>1, NatLessThanWellFounded, WFMin
    <3>3. \A j \in I : ~(j < i)
      BY <3>1, <3>2 DEF OpToRel
    <3> QED BY <3>1, <3>3
  <2> QED BY <2>1, <2>2
<1>2. \A i2 \in I : (\A j \in I : i2 <= j) => i2 = i
  BY <1>1 DEF None
<1> QED BY <1>1, <1>2 DEF Min

\* A non-empty set of places has its greatest.
LEMMA GreatestPlace ==
  ASSUME NEW n \in Nat, NEW I \in SUBSET (1..n), I # {}
  PROVE  Max(I) \in I /\ \A j \in I : Max(I) >= j
<1> DEFINE J == {n - i : i \in I}
<1>1. J \in SUBSET (Nat \cup {None}) /\ J # {}
  <2>1. \A i \in I : n - i \in Nat
    OBVIOUS
  <2> QED BY <2>1
<1>2. Min(J) \in J /\ \A j \in J : Min(J) <= j
  BY <1>1, LeastTime
<1>3. PICK i \in I : Min(J) = n - i
  BY <1>2
<1>4. ASSUME NEW j \in I PROVE i >= j
  <2>1. n - i <= n - j
    BY <1>2, <1>3
  <2> QED BY <2>1
<1>5. \A i2 \in I : (\A j \in I : i2 >= j) => i2 = i
  BY <1>4
<1> QED BY <1>4, <1>5 DEF Max

\* The first and the last time, of an accumulator that has one.
LEMMA StartsInAccumulator ==
  ASSUME NEW acc \in Seq(Packet)
  PROVE  /\ Starts(acc) \in SUBSET (1..Len(acc))
         /\ \A i \in Starts(acc) : acc[i].pts \in Times
         /\ Starts(acc) # {} =>
              /\ Min(Starts(acc)) \in Starts(acc) /\ \A i \in Starts(acc) : Min(Starts(acc)) <= i
              /\ Max(Starts(acc)) \in Starts(acc) /\ \A i \in Starts(acc) : Max(Starts(acc)) >= i
         /\ FirstPTS(acc) \in Times \cup {None} /\ LastPTS(acc) \in Times \cup {None}
         /\ Starts(acc) # {} => FirstPTS(acc) \in Times /\ LastPTS(acc) \in Times
<1>1. Starts(acc) \in SUBSET (1..Len(acc)) /\ Len(acc) \in Nat
  BY DEF Starts
<1>2. \A i \in Starts(acc) : acc[i].pts \in Times
  <2>1. \A i \in 1..Len(acc) : acc[i].pts \in Times \cup {None}
    <3> DEFINE T == Times \cup {None}
    <3>1. \A i \in 1..Len(acc) : acc[i] \in Packet
      OBVIOUS
    <3>2. Packet = [n : Nat, pts : T]
      BY DEF Packet
    <3> HIDE DEF T
    <3>3. \A i \in 1..Len(acc) : acc[i].pts \in T
      BY <3>1, <3>2
    <3> QED BY <3>3 DEF T
  <2> QED BY <1>1, <2>1 DEF Starts
<1>3. Starts(acc) # {} => /\ Min(Starts(acc)) \in Starts(acc) /\ \A i \in Starts(acc) : Min(Starts(acc)) <= i
                          /\ Max(Starts(acc)) \in Starts(acc) /\ \A i \in Starts(acc) : Max(Starts(acc)) >= i
  <2> DEFINE S == Starts(acc)
  <2>1. S \in SUBSET (1..Len(acc)) /\ S \in SUBSET (Nat \cup {None})
    BY <1>1
  <2> HIDE DEF S
  <2>2. S # {} => Min(S) \in S /\ \A i \in S : Min(S) <= i
    BY <2>1, LeastTime
  <2>3. S # {} => Max(S) \in S /\ \A i \in S : Max(S) >= i
    BY <1>1, <2>1, GreatestPlace
  <2> QED BY <2>2, <2>3 DEF S
<1> QED BY <1>1, <1>2, <1>3 DEF FirstPTS, LastPTS

\* A block ends in its accumulator, where the second buffer with a time begins; when it
\* has no end the first time is the last.
LEMMA BlockEnds ==
  ASSUME NEW acc \in Seq(Packet)
  PROVE  /\ BlockLen(acc) \in 0..Len(acc)
         /\ BlockLen(acc) > 0 => Starts(acc) # {} /\ BlockLen(acc) + 1 \in Starts(acc)
         /\ BlockLen(acc) = 0 /\ Starts(acc) # {} => FirstPTS(acc) = LastPTS(acc)
<1> DEFINE all == Starts(acc)  more == all \ {Min(all)}
<1>1. all \in SUBSET (1..Len(acc)) /\ Len(acc) \in Nat
  BY StartsInAccumulator
<1>2. CASE all = {}
  <2>1. BlockLen(acc) = 0
    BY <1>2 DEF BlockLen
  <2> QED BY <1>1, <1>2, <2>1
<1>3. CASE all # {} /\ more = {}
  <2>1. BlockLen(acc) = 0
    BY <1>3 DEF BlockLen
  <2>2. Min(all) \in all /\ Max(all) \in all
    BY <1>3, StartsInAccumulator
  <2>3. Max(all) = Min(all)
    BY <1>3, <2>2
  <2>4. FirstPTS(acc) = LastPTS(acc)
    BY <1>3, <2>3 DEF FirstPTS, LastPTS
  <2> QED BY <1>1, <2>1, <2>4
<1>4. CASE all # {} /\ more # {}
  <2>1. Min(all) \in all /\ \A i \in all : Min(all) <= i
    BY <1>4, StartsInAccumulator
  <2>2. more \in SUBSET (Nat \cup {None})
    BY <1>1
  <2>3. Min(more) \in more
    BY <1>4, <2>2, LeastTime
  <2>4. BlockLen(acc) = Min(more) - 1
    BY <1>4 DEF BlockLen
  <2>5. Min(more) \in all /\ Min(more) > Min(all) /\ Min(all) \in 1..Len(acc) /\ Min(more) \in 1..Len(acc)
    BY <1>1, <2>1, <2>3
  <2>6. BlockLen(acc) \in 0..Len(acc) /\ BlockLen(acc) > 0 /\ BlockLen(acc) + 1 = Min(more)
    BY <1>1, <2>4, <2>5
  <2> QED BY <1>4, <2>5, <2>6
<1> QED BY <1>2, <1>3, <1>4

\* When a block has left the last time is what it was.
LEMMA LastTimeStays ==
  ASSUME NEW acc \in Seq(Packet), Starts(acc) # {}, NEW n, n = 0 \/ n = BlockLen(acc)
  PROVE  Starts(KeepRest(acc, n)) # {} /\ LastPTS(KeepRest(acc, n)) = LastPTS(acc)
<1> DEFINE rest == KeepRest(acc, n)  last == Max(Starts(acc))
<1>1. n \in 0..Len(acc) /\ Len(acc) \in Nat /\ (n > 0 => n + 1 \in Starts(acc))
  BY BlockEnds
<1>2. rest \in Seq(Packet) /\ Len(rest) = Len(acc) - n /\ \A i \in 1..Len(acc) - n : rest[i] = acc[i + n]
  BY <1>1, SubSeqProperties DEF KeepRest
<1>3. last \in Starts(acc) /\ last \in 1..Len(acc) /\ \A i \in Starts(acc) : last >= i
  BY StartsInAccumulator
<1>4. last > n
  BY <1>1, <1>3
<1> HIDE DEF rest, last
<1>5. last - n \in 1..Len(acc) - n /\ rest[last - n] = acc[last]
  <2>1. last - n \in 1..Len(acc) - n /\ (last - n) + n = last
    BY <1>1, <1>3, <1>4
  <2> QED BY <1>2, <2>1
<1>6. last - n \in Starts(rest)
  BY <1>2, <1>3, <1>5 DEF Starts
<1>7. ASSUME NEW i \in Starts(rest) PROVE i <= last - n
  <2>1. i \in 1..Len(acc) - n /\ rest[i].pts # None
    BY <1>2 DEF Starts
  <2>2. i + n \in Starts(acc)
    <3>1. i + n \in 1..Len(acc)
      BY <1>1, <2>1
    <3>2. acc[i + n].pts # None
      BY <1>2, <2>1
    <3> QED BY <3>1, <3>2 DEF Starts
  <2>3. last >= i + n
    BY <1>3, <2>2
  <2> QED BY <1>1, <1>3, <2>1, <2>3
<1>8. Max(Starts(rest)) \in Starts(rest) /\ Max(Starts(rest)) >= last - n /\ Max(Starts(rest)) \in 1..Len(rest)
  BY <1>2, <1>6, StartsInAccumulator
<1>9. Max(Starts(rest)) <= last - n
  BY <1>7, <1>8
<1>10. Max(Starts(rest)) = last - n
  BY <1>1, <1>2, <1>3, <1>8, <1>9
<1>11. LastPTS(rest) = rest[last - n].pts /\ LastPTS(acc) = acc[last].pts
  BY <1>6, <1>10 DEF LastPTS, last
<1> QED BY <1>5, <1>6, <1>11 DEF rest

--------------------------------------------------------------------------------
(* The multiplexer.                                                             *)

Buffer == [s : Kinds, pts : Times \cup {None}, left : Int, ptsLimit : Int, nextPCR : Int, firstPCR : BOOLEAN]

MuxTypeOK ==
  /\ ToSet(streams) \subseteq Kinds /\ streams \in Seq(Kinds) /\ streams # <<>>
  /\ buffer \in Buffer /\ again \in BOOLEAN /\ needEmitPATPMT \in BOOLEAN
  /\ tracks = [s \in Kinds |-> tracks[s]]

\* While blocks are emitted every source still has a time, and its last is the limit or
\* later: the time that all sources had reached when the limit was taken.
ReachTheLimit ==
  ~again =>
    /\ doing # "fault"
    /\ doing = "emit" =>
         \A s \in ToSet(streams) :
           LET acc == tracks[s].accumulator IN Starts(acc) # {} /\ LastPTS(acc) >= buffer.ptsLimit

\* The packet of the source that brings a buffer has been flushed when the buffer begins.
HeaderOnly == doing \in {"emit", "clock"} => tracks[buffer.s].packet = <<>>

MuxInv == MuxTypeOK /\ (\A s \in Kinds : Whole(tracks[s])) /\ ReachTheLimit /\ HeaderOnly

LEMMA NoBufferTypes == NoBuffer \in Buffer
<1> DEFINE T == Times \cup {None}
<1>1. "video" \in Kinds /\ None \in T /\ 0 \in Int /\ FALSE \in BOOLEAN
  BY DEF Kinds
<1>2. Buffer = [s : Kinds, pts : T, left : Int, ptsLimit : Int, nextPCR : Int, firstPCR : BOOLEAN]
  BY DEF Buffer
<1> HIDE DEF T
<1> QED BY <1>1, <1>2 DEF NoBuffer

\* Nothing has been made.
LEMMA MuxInitInv == MuxInit => MuxInv
<1> SUFFICES ASSUME MuxInit PROVE MuxInv
  OBVIOUS
<1> DEFINE none == <<>>
           t0 == [packet |-> none, accumulator |-> none, accumTestPTS |-> 0,
                  firstBlockLen |-> 0, bufferCount |-> 0, made |-> 0, out |-> 0]
<1>1. PICK list \in {<<"video", "audio">>, <<"audio", "video">>, <<"video">>, <<"audio">>} :
         streams = list /\ tracks = [s \in Kinds |-> t0]
  BY DEF MuxInit, Prepare
<1>2. Whole(t0)
  <2>1. none \in Seq(Packet) /\ none \o none = none /\ Numbered(none, 0, 0)
    <3>1. \A X : <<>> \in Seq(X)
      BY EmptySeq
    <3> QED BY <3>1 DEF Numbered, Numbers
  <2> DEFINE S == Seq(Packet)
  <2>2. none \in S /\ Track = [packet : S, accumulator : S, accumTestPTS : Int,
                               firstBlockLen : Nat, bufferCount : Nat, made : Nat, out : Nat]
    BY <2>1 DEF Track
  <2> HIDE DEF none, S
  <2>3. t0 \in Track /\ t0.accumulator = none /\ t0.packet = none /\ t0.out = 0 /\ t0.made = 0
    BY <2>2
  <2> HIDE DEF t0
  <2> QED BY <2>1, <2>3 DEF Whole
<1> HIDE DEF t0
<1>3. ToSet(streams) \subseteq Kinds /\ streams \in Seq(Kinds) /\ streams # <<>>
  <2>1. /\ streams = list /\ list \in Seq(Kinds) /\ list # <<>>
    <3>1. "video" \in Kinds /\ "audio" \in Kinds
      BY DEF Kinds
    <3> HIDE DEF Kinds
    <3>2. /\ <<"video", "audio">> \in Seq(Kinds) /\ <<"audio", "video">> \in Seq(Kinds)
          /\ <<"video">> \in Seq(Kinds) /\ <<"audio">> \in Seq(Kinds)
      BY <3>1
    <3>3. /\ <<"video", "audio">> # <<>> /\ <<"audio", "video">> # <<>>
          /\ <<"video">> # <<>> /\ <<"audio">> # <<>>
      OBVIOUS
    <3> QED BY <1>1, <3>2, <3>3
  <2>2. ToSet(streams) \subseteq Kinds
    BY <2>1 DEF ToSet
  <2> QED BY <2>1, <2>2
<1>4. buffer \in Buffer /\ again \in BOOLEAN /\ needEmitPATPMT \in BOOLEAN /\ doing = "idle"
  <2>1. buffer = NoBuffer /\ again = FALSE /\ needEmitPATPMT = TRUE /\ doing = "idle"
    BY DEF MuxInit
  <2> QED BY <2>1, NoBufferTypes
<1>5. \A s \in Kinds : Whole(tracks[s])
  BY <1>1, <1>2
<1>6. tracks = [s \in Kinds |-> tracks[s]]
  BY <1>1
<1> QED BY <1>3, <1>4, <1>5, <1>6 DEF MuxInv, MuxTypeOK, ReachTheLimit, HeaderOnly

\* The sources as functions, and the types in them.
LEMMA SourceFacts ==
  ASSUME MuxInv, NEW s \in Kinds
  PROVE  /\ Whole(tracks[s]) /\ tracks[s].accumulator \in Seq(Packet)
         /\ tracks[s].firstBlockLen \in Nat /\ TestPTS(s) \in Int
<1>1. Whole(tracks[s])
  BY DEF MuxInv
<1>2. tracks[s].accumulator \in Seq(Packet) /\ tracks[s].firstBlockLen \in Nat
  BY <1>1, TrackFields
<1> DEFINE first == FirstPTS(tracks[s].accumulator)
<1>3. first \in Int
  <2>1. first \in Times \cup {None}
    BY <1>2, StartsInAccumulator
  <2> HIDE DEF first
  <2> QED BY <2>1, MuxAssumption DEF None
<1> HIDE DEF first
<1>4. (first + AudioLag) % TimeRange \in Int
  BY <1>3, MuxAssumption
<1>5. TestPTS(s) \in Int
  BY <1>3, <1>4 DEF TestPTS, first
<1> QED BY <1>1, <1>2, <1>5

\* Noting what was chosen.
LEMMA NotedKeeps ==
  ASSUME MuxInv, NEW s \in Kinds
  PROVE  /\ Whole(Noted(s)) /\ Noted(s).accumulator = tracks[s].accumulator /\ Noted(s).packet = tracks[s].packet
         /\ Noted(s).firstBlockLen = IF s \in Chosen THEN BlockLen(tracks[s].accumulator) ELSE tracks[s].firstBlockLen
         /\ Noted(s).firstBlockLen \in Nat
<1> DEFINE t == tracks[s]  a == TestPTS(s)  b == BlockLen(t.accumulator)
<1>1. Whole(t) /\ t.accumulator \in Seq(Packet) /\ t.firstBlockLen \in Nat /\ a \in Int
  BY SourceFacts
<1>2. b \in Nat
  <2>1. b \in 0..Len(t.accumulator) /\ Len(t.accumulator) \in Nat
    BY <1>1, BlockEnds
  <2> HIDE DEF b
  <2> QED BY <2>1
<1>3. Noted(s) = IF s \in Chosen THEN Note(t, a, b) ELSE t
  BY DEF Noted, Note
<1> HIDE DEF t, a, b
<1>4. /\ Whole(Noted(s)) /\ Noted(s).accumulator = t.accumulator /\ Noted(s).packet = t.packet
      /\ Noted(s).firstBlockLen = IF s \in Chosen THEN b ELSE t.firstBlockLen
  <2>1. CASE s \in Chosen
    BY <1>1, <1>2, <1>3, <2>1, NotesKeep
  <2>2. CASE s \notin Chosen
    BY <1>1, <1>3, <2>2
  <2> QED BY <2>1, <2>2
<1>5. Noted(s).firstBlockLen \in Nat
  BY <1>1, <1>2, <1>4
<1> QED BY <1>4, <1>5 DEF t, b

\* A number below the modulus is its own remainder.
LEMMA SmallRemainder == ASSUME NEW a \in Nat, NEW r \in Nat \ {0}, a < r PROVE a % r = a
OBVIOUS

\* A source that is chosen while it reaches the limit has a block with an end.
LEMMA ChosenHasEnd ==
  ASSUME NEW s \in Kinds, s \in Chosen, tracks[s].accumulator \in Seq(Packet), buffer.ptsLimit \in Int,
         Starts(tracks[s].accumulator) # {}, LastPTS(tracks[s].accumulator) >= buffer.ptsLimit
  PROVE  BlockLen(tracks[s].accumulator) > 0 \/ Wraps(s)
<1> DEFINE acc == tracks[s].accumulator  first == FirstPTS(acc)  limit == buffer.ptsLimit
<1>1. BlockLen(acc) \in Nat /\ (BlockLen(acc) = 0 => first = LastPTS(acc))
  <2>1. BlockLen(acc) \in 0..Len(acc) /\ Len(acc) \in Nat
    BY BlockEnds
  <2>2. BlockLen(acc) \in Nat
    BY <2>1
  <2> QED BY <2>2, BlockEnds
<1>2. first \in Nat /\ AudioLag \in Nat /\ TimeRange \in Nat \ {0}
  <2>1. first \in Times
    BY StartsInAccumulator
  <2> HIDE DEF first
  <2> QED BY <2>1, MuxAssumption
<1>3. SUFFICES ASSUME BlockLen(acc) = 0 PROVE Wraps(s)
  BY <1>1
<1>4. first >= limit /\ limit \in Int
  BY <1>1, <1>3
<1>5. TestPTS(s) < limit
  BY <1>3 DEF Chosen
<1>6. s # "video"
  BY <1>2, <1>4, <1>5 DEF TestPTS
<1>7. s = "audio"
  BY <1>6 DEF Kinds
<1>8. (first + AudioLag) % TimeRange < limit
  BY <1>5, <1>6 DEF TestPTS
<1> HIDE DEF first, limit
<1>9. ~(first + AudioLag < TimeRange)
  <2>1. SUFFICES ASSUME first + AudioLag < TimeRange PROVE FALSE
    OBVIOUS
  <2> DEFINE a == first + AudioLag
  <2>2. a \in Nat /\ a < TimeRange /\ first <= a
    BY <1>2, <2>1
  <2>3. a % TimeRange < limit
    BY <1>8
  <2> HIDE DEF a
  <2>4. a % TimeRange = a
    BY <1>2, <2>2, SmallRemainder
  <2> QED BY <1>2, <1>4, <2>2, <2>3, <2>4
<1>10. first + AudioLag >= TimeRange
  BY <1>2, <1>9
<1> QED BY <1>7, <1>10 DEF Wraps, first

\* A step into a position outside of the loop that emits blocks.
LEMMA OutsideTheLoop ==
  ASSUME MuxInv, UNCHANGED <<streams, again>>, buffer' \in Buffer, needEmitPATPMT' \in BOOLEAN,
         tracks' = [s \in Kinds |-> tracks'[s]], \A s \in Kinds : Whole(tracks'[s]),
         doing' \in {"idle", "data", "clock"}, HeaderOnly'
  PROVE  MuxInv'
<1>1. ReachTheLimit'
  <2>1. doing' # "fault" /\ doing' # "emit"
    OBVIOUS
  <2> QED BY <2>1 DEF ReachTheLimit
<1>2. MuxTypeOK'
  BY DEF MuxInv, MuxTypeOK
<1>3. \A s \in Kinds : Whole(tracks'[s])
  OBVIOUS
<1> QED BY <1>1, <1>2, <1>3 DEF MuxInv

\* The fields of the buffer in progress.
LEMMA BufferFields ==
  ASSUME MuxInv
  PROVE  buffer.s \in Kinds /\ buffer.pts \in Times \cup {None} /\ buffer.ptsLimit \in Int /\ buffer.left \in Int
<1> DEFINE T == Times \cup {None}
<1>1. buffer \in [s : Kinds, pts : T, left : Int, ptsLimit : Int, nextPCR : Int, firstPCR : BOOLEAN]
  BY DEF MuxInv, MuxTypeOK, Buffer
<1> HIDE DEF T
<1>2. buffer.s \in Kinds /\ buffer.pts \in T /\ buffer.ptsLimit \in Int /\ buffer.left \in Int
  BY <1>1
<1> QED BY <1>2 DEF T

\* startCapture in the middle of a late buffer moves nothing.
LEMMA StartMuxKeeps == ASSUME MuxInv, StartMux PROVE MuxInv'
<1>1. ASSUME NEW s \in Kinds
      PROVE  /\ Whole(tracks'[s]) /\ tracks'[s].accumulator = tracks[s].accumulator
             /\ tracks'[s].packet = tracks[s].packet
  <2> DEFINE n == IF doing # "idle" /\ s = buffer.s THEN 1 % PcrEvery ELSE 0
  <2>1. tracks'[s] = Count(tracks[s], n)
    BY DEF StartMux, Count
  <2>2. Whole(tracks[s])
    BY SourceFacts
  <2>3. n \in Nat
    <3>1. PcrEvery \in Nat \ {0}
      BY MuxAssumption
    <3>2. 1 % PcrEvery \in Nat
      BY <3>1
    <3> QED BY <3>2
  <2> HIDE DEF n
  <2> QED BY <2>1, <2>2, <2>3, CountKeeps
<1>2. tracks' = [s \in Kinds |-> tracks'[s]]
  BY DEF StartMux
<1>3. UNCHANGED <<streams, doing, buffer, again>> /\ needEmitPATPMT' \in BOOLEAN
  BY DEF StartMux, ctxVars
<1>4. /\ ToSet(streams) \subseteq Kinds
      /\ buffer \in Buffer /\ buffer.s \in Kinds
  BY BufferFields DEF MuxInv, MuxTypeOK
<1>5. MuxTypeOK'
  BY <1>2, <1>3 DEF MuxInv, MuxTypeOK
<1>6. ReachTheLimit'
  <2>1. \A s \in ToSet(streams) : tracks'[s].accumulator = tracks[s].accumulator
    BY <1>1, <1>4
  <2> QED BY <1>3, <2>1 DEF MuxInv, ReachTheLimit
<1>7. HeaderOnly'
  BY <1>1, <1>3, <1>4 DEF MuxInv, HeaderOnly
<1> QED BY <1>1, <1>5, <1>6, <1>7 DEF MuxInv

\* stopCapture flushes every source.
LEMMA StopFlushKeeps == ASSUME MuxInv, StopFlush PROVE MuxInv'
<1>1. ASSUME NEW s \in Kinds PROVE Whole(tracks'[s])
  <2>1. tracks'[s] = IF s \in ToSet(streams) THEN FlushCaptureData(tracks[s]) ELSE tracks[s]
    BY DEF StopFlush
  <2>2. Whole(tracks[s])
    BY SourceFacts
  <2>3. Whole(FlushCaptureData(tracks[s]))
    BY <2>2, FlushCaptureDataWhole
  <2> QED BY <2>1, <2>2, <2>3
<1>2. tracks' = [s \in Kinds |-> tracks'[s]]
  BY DEF StopFlush
<1>3. /\ UNCHANGED <<streams, again>> /\ buffer' \in Buffer /\ needEmitPATPMT' \in BOOLEAN
      /\ doing' \in {"idle", "data", "clock"} /\ HeaderOnly'
  BY DEF StopFlush, MuxInv, MuxTypeOK, ctxVars, needVars, HeaderOnly
<1> QED BY <1>1, <1>2, <1>3, OutsideTheLoop

\* Where nothing is chosen, the loop ends and what has been noted moves nothing.
LEMMA EmitEndsKeeps == ASSUME MuxInv, EmitEnds PROVE MuxInv'
<1>1. ASSUME NEW s \in Kinds PROVE Whole(tracks'[s])
  BY NotedKeeps DEF EmitEnds
<1>2. tracks' = [s \in Kinds |-> tracks'[s]]
  BY DEF EmitEnds
<1>3. /\ UNCHANGED <<streams, again>> /\ buffer' \in Buffer /\ needEmitPATPMT' \in BOOLEAN
      /\ doing' \in {"idle", "data", "clock"}
  BY DEF EmitEnds, MuxInv, MuxTypeOK, ctxVars, needVars
<1>4. HeaderOnly'
  <2>1. tracks'[buffer'.s] = Noted(buffer.s) /\ tracks[buffer.s].packet = <<>> /\ buffer.s \in Kinds
    BY BufferFields DEF EmitEnds, MuxInv, HeaderOnly
  <2>2. tracks'[buffer'.s].packet = <<>>
    BY <2>1, NotedKeeps
  <2> QED BY <2>2 DEF HeaderOnly
<1> QED BY <1>1, <1>2, <1>3, <1>4, OutsideTheLoop

\* The packet of the clock reference comes behind the others of its source.
LEMMA EmitClockKeeps == ASSUME MuxInv, EmitClock PROVE MuxInv'
<1> DEFINE fresh == StartPacket(tracks[buffer.s], None)
           clock(s) == IF s = buffer.s THEN FlushPacket(fresh) ELSE tracks[s]
<1>1. ASSUME NEW s \in Kinds PROVE Whole(clock(s))
  <2>1. CASE s = buffer.s
    <3>1. Whole(tracks[s]) /\ tracks[s].packet = <<>>
      BY <2>1, SourceFacts DEF MuxInv, HeaderOnly, EmitClock
    <3>2. Whole(fresh)
      BY <2>1, <3>1, StartPacketWhole
    <3> HIDE DEF fresh
    <3>3. Whole(FlushPacket(fresh))
      BY <3>2, FlushPacketWhole
    <3> QED BY <2>1, <3>3
  <2>2. CASE s # buffer.s
    BY <2>2, SourceFacts
  <2> QED BY <2>1, <2>2
<1>2. ASSUME NEW s \in Kinds PROVE Whole(tracks'[s])
  <2>1. tracks'[s] = IF buffer.firstPCR /\ s \in ToSet(streams) THEN FlushCaptureData(clock(s)) ELSE clock(s)
    BY DEF EmitClock
  <2>2. Whole(clock(s))
    BY <1>1
  <2> DEFINE c == clock(s)
  <2> HIDE DEF c
  <2>3. Whole(c) /\ tracks'[s] = IF buffer.firstPCR /\ s \in ToSet(streams) THEN FlushCaptureData(c) ELSE c
    BY <2>1, <2>2 DEF c
  <2>4. Whole(FlushCaptureData(c))
    BY <2>3, FlushCaptureDataWhole
  <2> QED BY <2>3, <2>4
<1>3. tracks' = [s \in Kinds |-> tracks'[s]]
  BY DEF EmitClock
<1>4. /\ UNCHANGED <<streams, again>> /\ buffer' \in Buffer /\ needEmitPATPMT' \in BOOLEAN
      /\ doing' \in {"idle", "data", "clock"} /\ HeaderOnly'
  BY DEF EmitClock, MuxInv, MuxTypeOK, ctxVars, HeaderOnly
<1> QED BY <1>2, <1>3, <1>4, OutsideTheLoop

\* So does each packet of the buffer.
LEMMA AddToPacketKeeps == ASSUME MuxInv, AddToPacket PROVE MuxInv'
<1> DEFINE b == buffer.s  flushed == FlushPacket(tracks[b])  next == StartPacket(flushed, buffer.pts)
<1>1. b \in Kinds /\ buffer.pts \in Times \cup {None}
  BY BufferFields
<1>2. Whole(flushed) /\ flushed.packet = <<>>
  BY <1>1, SourceFacts, FlushPacketWhole
<1> HIDE DEF flushed
<1>3. Whole(next)
  BY <1>1, <1>2, StartPacketWhole
<1>4. tracks' = [tracks EXCEPT ![b] = next]
  BY DEF AddToPacket, flushed
<1>5. tracks = [s \in Kinds |-> tracks[s]] /\ \A s \in Kinds : Whole(tracks[s])
  BY DEF MuxInv, MuxTypeOK
<1> HIDE DEF next
<1>6. tracks' = [s \in Kinds |-> tracks'[s]] /\ \A s \in Kinds : tracks'[s] = IF s = b THEN next ELSE tracks[s]
  BY <1>1, <1>4, <1>5
<1>7. \A s \in Kinds : Whole(tracks'[s])
  BY <1>3, <1>5, <1>6
<1>8. buffer' \in Buffer
  <2>1. CASE buffer.left > 1
    <3> DEFINE T == Times \cup {None}
    <3>1. buffer \in [s : Kinds, pts : T, left : Int, ptsLimit : Int, nextPCR : Int, firstPCR : BOOLEAN]
      BY DEF MuxInv, MuxTypeOK, Buffer
    <3> DEFINE m == buffer.left - 1  no == None
    <3>2. buffer' = [buffer EXCEPT !.pts = no, !.left = m]
      BY <2>1, <3>1 DEF AddToPacket
    <3>3. no \in T /\ m \in Int
      BY BufferFields
    <3> HIDE DEF T, m, no
    <3>4. buffer' \in [s : Kinds, pts : T, left : Int, ptsLimit : Int, nextPCR : Int, firstPCR : BOOLEAN]
      BY <3>1, <3>2, <3>3
    <3> QED BY <3>4 DEF T, Buffer
  <2>2. CASE ~(buffer.left > 1)
    <3>1. buffer' = NoBuffer
      BY <2>2 DEF AddToPacket
    <3> QED BY <3>1, NoBufferTypes
  <2> QED BY <2>1, <2>2
<1>9. /\ UNCHANGED <<streams, again>> /\ needEmitPATPMT' \in BOOLEAN
      /\ doing' \in {"idle", "data", "clock"} /\ HeaderOnly'
  BY DEF AddToPacket, MuxInv, MuxTypeOK, ctxVars, needVars, HeaderOnly
<1> QED BY <1>6, <1>7, <1>8, <1>9, OutsideTheLoop

\* A round of the loop.  What leaves of a source that reaches the limit is a block of it,
\* or nothing, unless it was noted in an earlier round.
LEMMA EmitRoundKeeps == ASSUME MuxInv, EmitRound PROVE MuxInv'
<1> DEFINE fits == \A s \in Leaving : Noted(s).firstBlockLen <= Len(tracks[s].accumulator)
           reused == \E s \in Leaving \ Chosen : tracks[s].firstBlockLen > 0
<1>1. /\ tracks' = [s \in Kinds |->
           IF fits /\ s \in Leaving THEN EmitBlock(Noted(s), Noted(s).firstBlockLen) ELSE Noted(s)]
      /\ ~fits => doing' = "fault"
      /\ fits => doing' # "fault"
      /\ doing' \in {"fault", "clock", "emit"}
      /\ again' = (again \/ reused)
      /\ UNCHANGED <<streams, buffer, needEmitPATPMT>> /\ doing = "emit"
  BY DEF EmitRound, ctxVars, needVars
<1>2. Leaving \subseteq ToSet(streams) /\ ToSet(streams) \subseteq Kinds
  BY DEF Leaving, MuxInv, MuxTypeOK
<1>3. ASSUME NEW s \in Kinds, ~(fits /\ s \in Leaving)
      PROVE  Whole(tracks'[s]) /\ tracks'[s].accumulator = tracks[s].accumulator /\ tracks'[s].packet = tracks[s].packet
  <2>1. tracks'[s] = Noted(s)
    BY <1>1, <1>3
  <2> QED BY <2>1, NotedKeeps
<1>4. ASSUME NEW s \in Kinds, fits, s \in Leaving
      PROVE  /\ Whole(tracks'[s]) /\ tracks'[s].packet = tracks[s].packet
             /\ tracks'[s].accumulator = KeepRest(tracks[s].accumulator, Noted(s).firstBlockLen)
  <2> DEFINE t == Noted(s)  n == t.firstBlockLen
  <2>1. tracks'[s] = EmitBlock(t, n)
    BY <1>1, <1>4
  <2>2. Whole(t) /\ t.accumulator = tracks[s].accumulator /\ t.packet = tracks[s].packet /\ n \in Nat
    BY NotedKeeps
  <2>3. n <= Len(tracks[s].accumulator)
    BY <1>4
  <2> HIDE DEF t, n
  <2>4. n <= Len(t.accumulator)
    BY <2>2, <2>3
  <2>5. /\ Whole(EmitBlock(t, n)) /\ EmitBlock(t, n).accumulator = KeepRest(t.accumulator, n)
        /\ EmitBlock(t, n).packet = t.packet
    BY <2>2, <2>4, EmitBlockWhole
  <2>6. Whole(tracks'[s]) /\ tracks'[s].packet = tracks[s].packet /\ tracks'[s].accumulator = KeepRest(tracks[s].accumulator, n)
    BY <2>1, <2>2, <2>5
  <2> QED BY <2>6 DEF n, t
<1>5. \A s \in Kinds : Whole(tracks'[s]) /\ tracks'[s].packet = tracks[s].packet
  BY <1>3, <1>4
<1>6. ~reused => fits
  <2> SUFFICES ASSUME ~reused, NEW s \in Leaving PROVE Noted(s).firstBlockLen <= Len(tracks[s].accumulator)
    OBVIOUS
  <2> DEFINE acc == tracks[s].accumulator
  <2>1. s \in Kinds
    BY <1>2
  <2>2. acc \in Seq(Packet) /\ tracks[s].firstBlockLen \in Nat
    BY <2>1, SourceFacts
  <2>3. Len(acc) \in Nat /\ BlockLen(acc) \in 0..Len(acc)
    BY <2>2, BlockEnds
  <2>4. CASE s \in Chosen
    <3>1. Noted(s).firstBlockLen = BlockLen(acc)
      BY <2>1, <2>4, NotedKeeps
    <3> HIDE DEF acc
    <3>2. Noted(s).firstBlockLen <= Len(acc)
      BY <2>3, <3>1
    <3> QED BY <3>2 DEF acc
  <2>5. CASE s \notin Chosen
    <3>1. ~(tracks[s].firstBlockLen > 0)
      BY <2>5
    <3>2. Noted(s).firstBlockLen = tracks[s].firstBlockLen
      BY <2>1, <2>5, NotedKeeps
    <3> HIDE DEF acc
    <3>3. Noted(s).firstBlockLen <= Len(acc)
      BY <2>2, <2>3, <3>1, <3>2
    <3> QED BY <3>3 DEF acc
  <2> QED BY <2>4, <2>5
<1>7. ASSUME ~again', NEW s \in ToSet(streams)
      PROVE  Starts(tracks'[s].accumulator) # {} /\ LastPTS(tracks'[s].accumulator) >= buffer.ptsLimit
  <2> DEFINE acc == tracks[s].accumulator
  <2>1. ~again /\ ~reused
    BY <1>1, <1>7 DEF MuxInv, MuxTypeOK
  <2>2. Starts(acc) # {} /\ LastPTS(acc) >= buffer.ptsLimit
    BY <1>1, <2>1 DEF MuxInv, ReachTheLimit
  <2>3. s \in Kinds /\ acc \in Seq(Packet) /\ tracks[s].firstBlockLen \in Nat
    BY <1>2, SourceFacts
  <2>4. CASE s \in Leaving
    <3> DEFINE n == Noted(s).firstBlockLen
    <3>1. tracks'[s].accumulator = KeepRest(acc, n)
      BY <1>4, <1>6, <2>1, <2>3, <2>4
    <3>2. n = 0 \/ n = BlockLen(acc)
      <4>1. CASE s \in Chosen
        BY <2>3, <4>1, NotedKeeps
      <4>2. CASE s \notin Chosen
        <5>1. ~(tracks[s].firstBlockLen > 0)
          BY <2>1, <2>4, <4>2
        <5>2. tracks[s].firstBlockLen = 0
          BY <2>3, <5>1
        <5> QED BY <2>3, <4>2, <5>2, NotedKeeps
      <4> QED BY <4>1, <4>2
    <3> HIDE DEF n, acc
    <3>3. Starts(KeepRest(acc, n)) # {} /\ LastPTS(KeepRest(acc, n)) = LastPTS(acc)
      BY <2>2, <2>3, <3>2, LastTimeStays
    <3> QED BY <2>2, <3>1, <3>3
  <2>5. CASE s \notin Leaving
    <3>1. tracks'[s].accumulator = acc
      BY <1>3, <2>3, <2>5
    <3> QED BY <2>2, <3>1
  <2> QED BY <2>4, <2>5
<1>8. ~again' => doing' # "fault"
  BY <1>1, <1>6 DEF MuxInv, MuxTypeOK
<1>9. ReachTheLimit'
  BY <1>1, <1>7, <1>8 DEF ReachTheLimit
<1>10. HeaderOnly'
  <2>1. buffer.s \in Kinds /\ tracks[buffer.s].packet = <<>> /\ buffer' = buffer
    BY <1>1, BufferFields DEF MuxInv, HeaderOnly
  <2>2. tracks'[buffer'.s].packet = <<>>
    BY <1>5, <2>1
  <2> QED BY <2>2 DEF HeaderOnly
<1>11. MuxTypeOK'
  <2>1. again' \in BOOLEAN
    BY <1>1 DEF MuxInv, MuxTypeOK
  <2>2. tracks' = [s \in Kinds |-> tracks'[s]]
    BY <1>1
  <2> QED BY <1>1, <2>1, <2>2 DEF MuxInv, MuxTypeOK
<1> QED BY <1>5, <1>9, <1>10, <1>11 DEF MuxInv

\* The beginning of a buffer.  The limit is the least of the last times.
LEMMA PerformEncapsulationKeeps ==
  ASSUME MuxInv, NEW s \in Kinds, NEW pts \in Times \cup {None}, NEW left \in 1..MaxBlock,
         PerformEncapsulation(s, pts, left)
  PROVE  MuxInv'
<1> DEFINE due == needEmitPCR \/ (s = pcrPid /\ tracks[s].bufferCount = PcrEvery - 1)
           flushed(r) == IF r = s \/ (due /\ r \in ToSet(streams)) THEN FlushPacket(tracks[r]) ELSE tracks[r]
           counted(r) == IF r = s THEN [flushed(r) EXCEPT !.bufferCount = (@ + 1) % PcrEvery] ELSE flushed(r)
           accs == {flushed(r).accumulator : r \in ToSet(streams)}
           lasts == {LastPTS(acc) : acc \in accs}
           limit == IF due THEN Min(lasts) ELSE 0
           clock == IF pts = None THEN 0 ELSE (pts - PtsOffset) % TimeRange
<1>1. /\ s \in ToSet(streams)
      /\ tracks' = [r \in Kinds |-> counted(r)]
      /\ buffer' = [s |-> s, pts |-> pts, left |-> left, ptsLimit |-> limit, nextPCR |-> clock,
                    firstPCR |-> needEmitPATPMT]
      /\ doing' = IF ~due THEN "data" ELSE IF BlocksDue(accs) THEN "emit" ELSE "clock"
      /\ needEmitPATPMT' = FALSE /\ UNCHANGED <<streams, again>>
  BY DEF PerformEncapsulation, ctxVars
<1>2. ASSUME NEW r \in Kinds PROVE Whole(flushed(r)) /\ (r = s => flushed(r).packet = <<>>)
  <2>1. Whole(tracks[r])
    BY SourceFacts
  <2>2. Whole(FlushPacket(tracks[r])) /\ FlushPacket(tracks[r]).packet = <<>>
    BY <2>1, FlushPacketWhole
  <2> QED BY <2>1, <2>2
<1>3. ASSUME NEW r \in Kinds
      PROVE  /\ Whole(tracks'[r]) /\ tracks'[r].accumulator = flushed(r).accumulator
             /\ r = s => tracks'[r].packet = <<>>
  <2> DEFINE t == flushed(r)  n == (t.bufferCount + 1) % PcrEvery
  <2>1. tracks'[r] = IF r = s THEN Count(t, n) ELSE t
    BY <1>1 DEF Count
  <2>2. Whole(t) /\ (r = s => t.packet = <<>>)
    BY <1>2
  <2> HIDE DEF t
  <2>3. n \in Nat
    BY <2>2, TrackFields, MuxAssumption
  <2> HIDE DEF n
  <2>4. Whole(Count(t, n)) /\ Count(t, n).accumulator = t.accumulator /\ Count(t, n).packet = t.packet
    BY <2>2, <2>3, CountKeeps
  <2>5. Whole(tracks'[r]) /\ tracks'[r].accumulator = t.accumulator /\ (r = s => tracks'[r].packet = <<>>)
    BY <2>1, <2>2, <2>4
  <2> QED BY <2>5 DEF t
<1>4. ToSet(streams) \subseteq Kinds
  BY DEF MuxInv, MuxTypeOK
<1>5. \A acc \in accs : acc \in Seq(Packet)
  <2>1. ASSUME NEW r \in ToSet(streams) PROVE flushed(r).accumulator \in Seq(Packet)
    BY <1>2, <1>4, TrackFields
  <2> QED BY <2>1
<1>6. lasts \in SUBSET (Nat \cup {None}) /\ lasts # {}
  <2>1. \A acc \in accs : LastPTS(acc) \in Times \cup {None}
    BY <1>5, StartsInAccumulator
  <2>2. accs # {}
    BY <1>1
  <2>3. Times \subseteq Nat
    BY MuxAssumption
  <2> HIDE DEF accs
  <2> QED BY <2>1, <2>2, <2>3
<1>7. Min(lasts) \in Int /\ \A t \in lasts : Min(lasts) <= t
  <2> HIDE DEF lasts
  <2>1. Min(lasts) \in lasts /\ \A t \in lasts : Min(lasts) <= t
    BY <1>6, LeastTime
  <2> DEFINE m == Min(lasts)
  <2> HIDE DEF m
  <2>2. m \in Nat \cup {None}
    BY <1>6, <2>1 DEF m
  <2>3. m \in Int
    BY <2>2 DEF None
  <2> QED BY <2>1, <2>3 DEF m
<1>8. limit \in Int /\ clock \in Int
  <2>1. limit \in Int
    <3> HIDE DEF lasts
    <3> QED BY <1>7
  <2>2. pts # None => pts \in Int
    BY MuxAssumption
  <2>3. clock \in Int
    BY <2>2, MuxAssumption
  <2> QED BY <2>1, <2>3
<1> HIDE DEF limit, clock
<1>9. buffer' \in Buffer /\ buffer'.s = s /\ buffer'.ptsLimit = limit
  <2> DEFINE T == Times \cup {None}  first == needEmitPATPMT
  <2>1. pts \in T /\ first \in BOOLEAN /\ left \in Int
    BY DEF MuxInv, MuxTypeOK
  <2>2. /\ buffer' = [s |-> s, pts |-> pts, left |-> left, ptsLimit |-> limit, nextPCR |-> clock, firstPCR |-> first]
        /\ Buffer = [s : Kinds, pts : T, left : Int, ptsLimit : Int, nextPCR : Int, firstPCR : BOOLEAN]
    BY <1>1 DEF Buffer
  <2> HIDE DEF T, first
  <2>3. s \in Kinds
    OBVIOUS
  <2> QED BY <1>8, <2>1, <2>2, <2>3
<1>10. ASSUME doing' = "emit", NEW r \in ToSet(streams)
       PROVE  Starts(tracks'[r].accumulator) # {} /\ LastPTS(tracks'[r].accumulator) >= buffer'.ptsLimit
  <2> DEFINE acc == flushed(r).accumulator
  <2>1. due /\ BlocksDue(accs)
    BY <1>1, <1>10
  <2>2. acc \in accs /\ LastPTS(acc) \in lasts
    OBVIOUS
  <2>3. Starts(acc) # {}
    BY <2>1, <2>2 DEF BlocksDue
  <2>4. limit = Min(lasts)
    BY <2>1 DEF limit
  <2>5. LastPTS(acc) \in Int
    BY <1>6, <2>2 DEF None
  <2> HIDE DEF lasts
  <2>6. LastPTS(acc) >= limit
    BY <1>7, <2>2, <2>4, <2>5
  <2>7. tracks'[r].accumulator = acc
    BY <1>3, <1>4
  <2> HIDE DEF acc
  <2> QED BY <1>9, <2>3, <2>6, <2>7
<1>11. ReachTheLimit'
  <2>1. doing' # "fault"
    BY <1>1
  <2>2. streams' = streams
    BY <1>1
  <2> QED BY <1>10, <2>1, <2>2 DEF ReachTheLimit
<1>12. HeaderOnly'
  BY <1>3, <1>9 DEF HeaderOnly
<1>13. MuxTypeOK'
  <2>1. tracks' = [r \in Kinds |-> tracks'[r]]
    BY <1>1
  <2>2. UNCHANGED <<streams, again>> /\ needEmitPATPMT' \in BOOLEAN
    BY <1>1
  <2> QED BY <1>9, <2>1, <2>2 DEF MuxInv, MuxTypeOK
<1>14. \A r \in Kinds : Whole(tracks'[r])
  BY <1>3
<1> QED BY <1>11, <1>12, <1>13, <1>14 DEF MuxInv

\* Every step keeps the invariant.
LEMMA MuxStepInv == MuxInv /\ [MuxNext]_muxVars => MuxInv'
<1> SUFFICES ASSUME MuxInv, [MuxNext]_muxVars PROVE MuxInv'
  OBVIOUS
<1>1. CASE StartMux
  BY <1>1, StartMuxKeeps
<1>2. CASE StopFlush
  BY <1>2, StopFlushKeeps
<1>3. ASSUME NEW s \in Kinds, NEW pts \in Times \cup {None}, NEW left \in 1..MaxBlock,
             PerformEncapsulation(s, pts, left)
      PROVE  MuxInv'
  BY <1>3, PerformEncapsulationKeeps
<1>4. CASE EmitRound
  BY <1>4, EmitRoundKeeps
<1>5. CASE EmitEnds
  BY <1>5, EmitEndsKeeps
<1>6. CASE EmitClock
  BY <1>6, EmitClockKeeps
<1>7. CASE AddToPacket
  BY <1>7, AddToPacketKeeps
<1>8. CASE UNCHANGED muxVars
  BY <1>8 DEF muxVars, ctxVars, needVars, MuxInv, MuxTypeOK, ReachTheLimit, HeaderOnly
<1> QED BY <1>1, <1>2, <1>3, <1>4, <1>5, <1>6, <1>7, <1>8 DEF MuxNext

\* It says what the property says.
LEMMA MuxInvImplies == MuxInv => PacketsInOrder
<1> SUFFICES ASSUME MuxInv PROVE PacketsInOrder
  OBVIOUS
<1>1. LeaveInOrder
  <2>1. ASSUME NEW s \in Kinds
        PROVE  Numbered(tracks[s].accumulator \o tracks[s].packet, tracks[s].out, tracks[s].made)
    BY SourceFacts, TrackFields
  <2> QED BY <2>1 DEF LeaveInOrder, Numbered
<1>2. BlocksEnd
  <2> SUFFICES ASSUME ~again
               PROVE  doing # "fault" /\ (doing = "emit" =>
                        \A s \in Chosen : BlockLen(tracks[s].accumulator) > 0 \/ Wraps(s))
    BY DEF BlocksEnd
  <2>1. doing # "fault"
    BY DEF MuxInv, ReachTheLimit
  <2>2. ASSUME doing = "emit", NEW s \in Chosen
        PROVE  BlockLen(tracks[s].accumulator) > 0 \/ Wraps(s)
    <3>1. s \in ToSet(streams) /\ s \in Kinds
      BY DEF Chosen, MuxInv, MuxTypeOK
    <3>2. Starts(tracks[s].accumulator) # {} /\ LastPTS(tracks[s].accumulator) >= buffer.ptsLimit
      BY <2>2, <3>1 DEF MuxInv, ReachTheLimit
    <3>3. tracks[s].accumulator \in Seq(Packet) /\ buffer.ptsLimit \in Int
      BY <3>1, SourceFacts, BufferFields
    <3> QED BY <3>1, <3>2, <3>3, ChosenHasEnd
  <2> QED BY <2>1, <2>2
<1> QED BY <1>1, <1>2 DEF PacketsInOrder

\* Each packet of a source leaves the multiplexer once and in order, whatever the times of
\* the buffers, by flushPacket, flushCaptureDataByTime or flushCaptureData; and
\* flushCaptureDataByTime emits what is there and its blocks have an end, until a source
\* leaves with what an earlier round has noted of it.
THEOREM PacketsLeaveInOrder == MuxSpec => []PacketsInOrder
<1>1. MuxInit => MuxInv
  BY MuxInitInv
<1>2. MuxInv /\ [MuxNext]_muxVars => MuxInv'
  BY MuxStepInv
<1>3. MuxInv => PacketsInOrder
  BY MuxInvImplies
<1> QED BY <1>1, <1>2, <1>3, PTL DEF MuxSpec
================================================================================

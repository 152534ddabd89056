---------------------------- MODULE CompositorLoop -----------------------------
(***************************************************************************)
(* The frame loop of the Westeros compositor (westeros-compositor.cpp)     *)
(* while it is running: the display timer and its handler                  *)
(* wstCompositorDisplayTimeOut, repaint scheduling, frame callbacks,       *)
(* output resizing, and the event queue that carries input to the loop.    *)
(*                                                                         *)
(* Threads:                                                                *)
(*  - the compositor thread, whose position in wstCompositorDisplayTimeOut *)
(*    is pc; client requests run on it too, between two timer dispatches   *)
(*    (pc = "idle");                                                       *)
(*  - the embedder's threads, which call the Wst* API; every call works    *)
(*    under ctx->mutex and is one step, except ResolutionChangeEnd, which  *)
(*    takes the mutex twice with an unlocked write in between;             *)
(*  - for a nested compositor, the nested connection's thread, whose input *)
(*    handlers read ctx->eventIndex before they take the mutex.            *)
(***************************************************************************)
EXTENDS Integers, Sequences

CONSTANTS
  QueueSize,     \* WST_EVENT_QUEUE_SIZE
  Surfaces,      \* client surfaces
  Sizes,         \* output sizes
  IsNested,      \* ctx->isNested
  IsEmbedded,    \* ctx->isEmbedded
  HasRenderer,   \* ctx->renderer is set (a plain repeater has none)
  MaxEvents,     \* bound on the number of events posted
  MaxCallbacks   \* bound on the frame callbacks pending on one surface

ASSUME LoopAssumption ==
  /\ QueueSize \in Nat \ {0}
  /\ IsNested \in BOOLEAN
  /\ IsEmbedded \in BOOLEAN
  /\ HasRenderer \in BOOLEAN
  /\ MaxEvents \in Nat
  /\ MaxCallbacks \in Nat
  /\ Sizes # {}

VARIABLES
  pc,                    \* position of the compositor thread in its timer handler
  timerArmed,            \* ctx->displayTimer will fire
  needRepaint,           \* ctx->needRepaint
  allowImmediateRepaint, \* ctx->allowImmediateRepaint
  running,               \* ctx->running, which WstCompositorStart sets when it sees the thread ready
  outputSizeChanged,     \* ctx->outputSizeChanged
  outputSize,            \* ctx->outputWidth, outputHeight
  rendererSize,          \* ctx->renderer->outputWidth, outputHeight
  announcedSize,         \* ctx->output->width, height, as sent in wl_output.mode
  unheard,               \* the last size set was not marked as a change (history)
  resEnd,                \* progress of a WstCompositorResolutionChangeEnd call
  callbacks,             \* number of callbacks in each surface's frameCallbackList
  queue,                 \* ctx->eventQueue
  eventIndex,            \* ctx->eventIndex
  claimed,               \* the nested thread's local eventIndex, or Unclaimed
  posted,                \* number of events handed to the compositor (history)
  delivered,             \* the events dispatched, in order (history)
  raced                  \* a nested handler wrote a slot other than the next (history)

sizeVars  == <<running, outputSizeChanged, outputSize, unheard, rendererSize, announcedSize,
               resEnd>>
queueVars == <<queue, eventIndex, claimed, posted, delivered, raced>>
paintVars == <<timerArmed, needRepaint, allowImmediateRepaint, callbacks>>
vars      == <<pc, paintVars, sizeVars, queueVars>>

--------------------------------------------------------------------------------
Unclaimed == -1

\* "move" stands for pointer motion, the one input event whose dispatch may
\* schedule a repaint; "input" for every other key and pointer event.
Kinds == {"input", "move", "resolutionChangeBegin", "resolutionChangeEnd"}

Event == [id : 0..MaxEvents, kind : Kinds]

\* The zeroed slot of a fresh WstCompositor.
NoEvent == [id |-> 0, kind |-> "input"]

Alive == pc # "aborted"

--------------------------------------------------------------------------------
(* Repaint scheduling. *)

\* wstCompositorScheduleRepaint, given the value the caller leaves in
\* allowImmediateRepaint.
ScheduleRepaint(immediate) ==
  /\ needRepaint' = TRUE
  /\ timerArmed' = (timerArmed \/ (~needRepaint /\ immediate))

\* WstCompositorInvalidateScene, from any embedder thread.
InvalidateScene ==
  /\ Alive
  /\ ScheduleRepaint(allowImmediateRepaint)
  /\ UNCHANGED <<pc, allowImmediateRepaint, callbacks, sizeVars, queueVars>>

\* wl_surface.frame
SurfaceFrame(s) ==
  /\ pc = "idle"
  /\ callbacks[s] < MaxCallbacks
  /\ callbacks' = [callbacks EXCEPT ![s] = @ + 1]
  /\ UNCHANGED <<pc, timerArmed, needRepaint, allowImmediateRepaint, sizeVars, queueVars>>

\* The end of wl_surface.commit.
SurfaceCommit ==
  /\ pc = "idle"
  /\ ScheduleRepaint(allowImmediateRepaint)
  /\ UNCHANGED <<pc, allowImmediateRepaint, callbacks, sizeVars, queueVars>>

\* wstSurfaceDestroy drops the surface's callbacks without sending done.  The
\* surface's slot stands for a fresh surface afterwards.
SurfaceDestroy(s) ==
  /\ pc = "idle"
  /\ callbacks' = [callbacks EXCEPT ![s] = 0]
  /\ ScheduleRepaint(allowImmediateRepaint)
  /\ UNCHANGED <<pc, allowImmediateRepaint, sizeVars, queueVars>>

--------------------------------------------------------------------------------
(* The event queue: producers. *)

\* Store an event in a slot, count it, and assert that the queue has room for
\* another one.
Post(slot, kind, id) ==
  /\ queue' = [queue EXCEPT ![slot] = [id |-> id, kind |-> kind]]
  /\ eventIndex' = eventIndex + 1
  /\ pc' = IF eventIndex' < QueueSize THEN pc ELSE "aborted"

\* WstCompositorKeyEvent, PointerEnter, PointerLeave, PointerMoveEvent and
\* PointerButtonEvent: ignored by a nested compositor.
ApiInput(kind) ==
  /\ Alive
  /\ ~IsNested
  /\ posted < MaxEvents
  /\ posted' = posted + 1
  /\ Post(eventIndex, kind, posted')
  /\ UNCHANGED <<claimed, delivered, raced, paintVars, sizeVars>>

ResolutionChangePost(kind) ==
  /\ posted < MaxEvents
  /\ posted' = posted + 1
  /\ Post(eventIndex, kind, posted')
  /\ IF eventIndex' < QueueSize
     THEN allowImmediateRepaint' = TRUE /\ ScheduleRepaint(TRUE)
     ELSE UNCHANGED <<allowImmediateRepaint, needRepaint, timerArmed>>
  /\ UNCHANGED <<claimed, delivered, raced, callbacks>>

ResolutionChangeBegin ==
  /\ Alive
  /\ ~IsNested /\ ~IsEmbedded
  /\ ResolutionChangePost("resolutionChangeBegin")
  /\ UNCHANGED sizeVars

\* WstCompositorSetOutputSize: the change is marked for the loop only when ctx->running.
StoreSize(z) ==
  /\ outputSize' = z
  /\ outputSizeChanged' = (outputSizeChanged \/ running)
  /\ unheard' = ~outputSizeChanged'

\* WstCompositorResolutionChangeEnd with a renderer that handles resolution
\* changes: first WstCompositorSetOutputSize ...
ResolutionChangeEndSize(z) ==
  /\ Alive
  /\ resEnd = "none" /\ HasRenderer
  /\ StoreSize(z)
  /\ resEnd' = "sized"
  /\ UNCHANGED <<pc, running, rendererSize, announcedSize, paintVars, queueVars>>

\* ... then outputSizeChanged is set again, without the mutex ...
ResolutionChangeEndFlag ==
  /\ Alive
  /\ resEnd = "sized"
  /\ outputSizeChanged' = TRUE /\ unheard' = FALSE
  /\ resEnd' = IF IsNested \/ IsEmbedded THEN "none" ELSE "flagged"
  /\ UNCHANGED <<pc, running, outputSize, rendererSize, announcedSize, paintVars, queueVars>>

\* ... and then the event is queued.
ResolutionChangeEndPost ==
  /\ Alive
  /\ resEnd = "flagged"
  /\ ResolutionChangePost("resolutionChangeEnd")
  /\ resEnd' = "none"
  /\ UNCHANGED <<running, outputSizeChanged, outputSize, unheard, rendererSize, announcedSize>>

\* Variant: the index after the one of the next free slot.
NestedClaimOffByOne ==
  /\ Alive
  /\ IsNested
  /\ claimed = Unclaimed
  /\ posted < MaxEvents
  /\ posted' = posted + 1
  /\ claimed' = IF eventIndex + 1 < QueueSize THEN eventIndex + 1 ELSE eventIndex
  /\ UNCHANGED <<pc, queue, eventIndex, delivered, raced, paintVars, sizeVars>>

\* A handler of the nested connection (keyboard key and modifiers, pointer
\* enter, leave, motion, button) copies ctx->eventIndex without the mutex ...
NestedClaim ==
  /\ Alive
  /\ IsNested
  /\ claimed = Unclaimed
  /\ posted < MaxEvents
  /\ posted' = posted + 1
  /\ claimed' = eventIndex
  /\ UNCHANGED <<pc, queue, eventIndex, delivered, raced, paintVars, sizeVars>>

\* ... and fills that slot under the mutex.
NestedPost(kind) ==
  /\ Alive
  /\ claimed # Unclaimed
  /\ Post(claimed, kind, posted)
  /\ raced' = (raced \/ claimed # eventIndex)
  /\ claimed' = Unclaimed
  /\ UNCHANGED <<posted, delivered, paintVars, sizeVars>>

--------------------------------------------------------------------------------
(* Output size. *)

\* WstCompositorStart returns.  The thread's loop runs already, and the mutex is free
\* while Start waits for it.
Started ==
  /\ Alive
  /\ ~running
  /\ running' = TRUE
  /\ UNCHANGED <<pc, outputSizeChanged, outputSize, unheard, rendererSize, announcedSize, resEnd,
                 paintVars, queueVars>>

SetOutputSize(z) ==
  /\ Alive
  /\ StoreSize(z)
  /\ UNCHANGED <<pc, running, rendererSize, announcedSize, resEnd, paintVars, queueVars>>

\* A wl_output.mode from the parent compositor also stores the size in ctx->output.
NestedMode(z) ==
  /\ Alive
  /\ IsNested
  /\ outputSize' = z /\ announcedSize' = z
  /\ outputSizeChanged' = TRUE /\ unheard' = FALSE
  /\ UNCHANGED <<pc, running, rendererSize, resEnd, paintVars, queueVars>>

\* WstCompositorComposeEmbedded draws a frame for the embedder at a size of its own.
ComposeEmbedded(z) ==
  /\ Alive
  /\ IsEmbedded /\ HasRenderer /\ running
  /\ rendererSize' = z
  /\ UNCHANGED <<pc, running, outputSizeChanged, outputSize, unheard, announcedSize, resEnd, paintVars, queueVars>>

--------------------------------------------------------------------------------
(* wstCompositorDisplayTimeOut, step by step. *)

\* The timer fires.  wstOutputChangeSize clears its flag before it reads sizes.
TimerFires ==
  /\ pc = "idle"
  /\ timerArmed
  /\ timerArmed' = FALSE
  /\ pc' = IF outputSizeChanged THEN "resizeRenderer" ELSE "processEvents"
  /\ outputSizeChanged' = FALSE
  /\ UNCHANGED <<needRepaint, allowImmediateRepaint, callbacks, running, outputSize, unheard,
                 rendererSize, announcedSize, resEnd, queueVars>>

\* wstOutputChangeSize runs without the mutex: the size is read once for the
\* renderer ...
ResizeRenderer ==
  /\ pc = "resizeRenderer"
  /\ IF HasRenderer
     THEN ScheduleRepaint(allowImmediateRepaint) /\ rendererSize' = outputSize
     ELSE UNCHANGED <<needRepaint, timerArmed, rendererSize>>
  /\ pc' = "resizeOutput"
  /\ UNCHANGED <<allowImmediateRepaint, callbacks, running, outputSizeChanged, outputSize,
                 unheard, announcedSize, resEnd, queueVars>>

\* Variant: the flag is cleared after the sizes have been read.
ResizeOutputThenClearFlag ==
  /\ pc = "resizeOutput"
  /\ announcedSize' = outputSize
  /\ outputSizeChanged' = FALSE
  /\ pc' = "processEvents"
  /\ UNCHANGED <<paintVars, running, outputSize, unheard, rendererSize, resEnd, queueVars>>

\* ... and once more for ctx->output and the modes sent to the clients.
ResizeOutput ==
  /\ pc = "resizeOutput"
  /\ announcedSize' = outputSize
  /\ pc' = "processEvents"
  /\ UNCHANGED <<paintVars, running, outputSizeChanged, outputSize, unheard, rendererSize, resEnd,
                 queueVars>>

Pending == [i \in 1..eventIndex |-> queue[i - 1].id]

\* Variant: eventIndex is not reset.
ProcessEventsKeepsIndex ==
  /\ pc = "processEvents"
  /\ delivered' = delivered \o Pending
  /\ pc' = "checkRepaint"
  /\ UNCHANGED <<paintVars, sizeVars, queue, eventIndex, claimed, posted, raced>>

\* wstCompositorProcessEvents: the whole loop holds the mutex.
ProcessEvents ==
  /\ pc = "processEvents"
  /\ delivered' = delivered \o Pending
  /\ eventIndex' = 0
  /\ \/ UNCHANGED <<needRepaint, timerArmed>>
     \/ /\ HasRenderer
        /\ \E i \in 0..(eventIndex - 1) : queue[i].kind = "move"
        /\ ScheduleRepaint(allowImmediateRepaint)
  /\ pc' = "checkRepaint"
  /\ UNCHANGED <<allowImmediateRepaint, callbacks, sizeVars, queue, claimed, posted, raced>>

CheckRepaint ==
  /\ pc = "checkRepaint"
  /\ allowImmediateRepaint' = ~needRepaint
  /\ pc' = IF needRepaint THEN "composeFrame" ELSE "rearm"
  /\ UNCHANGED <<timerArmed, needRepaint, callbacks, sizeVars, queueVars>>

\* wstCompositorComposeFrame: every pending frame callback is answered.
ComposeFrame ==
  /\ pc = "composeFrame"
  /\ needRepaint' = FALSE
  /\ callbacks' = [s \in Surfaces |-> 0]
  /\ pc' = "rearm"
  /\ UNCHANGED <<timerArmed, allowImmediateRepaint, sizeVars, queueVars>>

\* Variant: the timer is armed again only when a repaint is already due.
RearmTimerIfDirty ==
  /\ pc = "rearm"
  /\ timerArmed' = (timerArmed \/ needRepaint)
  /\ pc' = "idle"
  /\ UNCHANGED <<needRepaint, allowImmediateRepaint, callbacks, sizeVars, queueVars>>

RearmTimer ==
  /\ pc = "rearm"
  /\ timerArmed' = TRUE
  /\ pc' = "idle"
  /\ UNCHANGED <<needRepaint, allowImmediateRepaint, callbacks, sizeVars, queueVars>>

--------------------------------------------------------------------------------
\* The state in which wstCompositorThread enters wl_display_run.
Init ==
  /\ pc = "idle"
  /\ timerArmed = TRUE
  /\ needRepaint = TRUE
  /\ allowImmediateRepaint = FALSE
  /\ running = FALSE
  /\ outputSizeChanged = FALSE
  /\ outputSize \in Sizes
  /\ unheard = FALSE
  /\ rendererSize = outputSize
  /\ announcedSize = outputSize
  /\ resEnd = "none"
  /\ callbacks = [s \in Surfaces |-> 0]
  /\ queue = [i \in 0..(QueueSize - 1) |-> NoEvent]
  /\ eventIndex = 0
  /\ claimed = Unclaimed
  /\ posted = 0
  /\ delivered = << >>
  /\ raced = FALSE

Timer == \/ TimerFires \/ ResizeRenderer \/ ResizeOutput \/ ProcessEvents
         \/ CheckRepaint \/ ComposeFrame \/ RearmTimer

ResolutionChange == \/ ResolutionChangeBegin
                    \/ \E z \in Sizes : ResolutionChangeEndSize(z)
                    \/ ResolutionChangeEndFlag
                    \/ ResolutionChangeEndPost

Input == \/ \E kind \in {"input", "move"} : ApiInput(kind) \/ NestedPost(kind)
         \/ NestedClaim

Clients == \/ SurfaceCommit
           \/ \E s \in Surfaces : SurfaceFrame(s) \/ SurfaceDestroy(s)

Next == \/ Timer
        \/ ResolutionChange
        \/ Input
        \/ Clients
        \/ InvalidateScene
        \/ Started
        \/ \E z \in Sizes : SetOutputSize(z) \/ NestedMode(z) \/ ComposeEmbedded(z)

\* The compositor thread keeps running, and the kernel delivers its timer.
Spec == Init /\ [][Next]_vars /\ WF_vars(Timer)

--------------------------------------------------------------------------------
(* Properties. *)

\* Types of the loop's state.
TypeOK ==
  /\ pc \in {"idle", "resizeRenderer", "resizeOutput", "processEvents", "checkRepaint",
             "composeFrame", "rearm", "aborted"}
  /\ timerArmed \in BOOLEAN
  /\ needRepaint \in BOOLEAN
  /\ allowImmediateRepaint \in BOOLEAN
  /\ running \in BOOLEAN
  /\ outputSizeChanged \in BOOLEAN
  /\ outputSize \in Sizes
  /\ unheard \in BOOLEAN
  /\ rendererSize \in Sizes
  /\ announcedSize \in Sizes
  /\ resEnd \in {"none", "sized", "flagged"}
  /\ callbacks \in [Surfaces -> 0..MaxCallbacks]
  /\ queue \in [0..(QueueSize - 1) -> Event]
  /\ eventIndex \in 0..QueueSize
  /\ claimed \in {Unclaimed} \cup 0..(QueueSize - 1)
  /\ posted \in 0..MaxEvents
  /\ delivered \in Seq(0..MaxEvents)
  /\ raced \in BOOLEAN

\* Events a nested handler is about to store.
InFlight == IF claimed = Unclaimed THEN 0 ELSE 1

\* As long as no nested handler has written a slot other than the next one, the
\* events dispatched and the events waiting, put together, are all the events
\* handed to the compositor in the order of the calls: nothing is lost, repeated
\* or reordered by the queue, the batch dispatch and the reset of eventIndex.
\* (An event that a nested handler is about to store is not waiting yet.)
InOrder == ~raced => delivered \o Pending = [i \in 1..(posted - InFlight) |-> i]

\* The race of the nested handlers can lose and repeat events, but the loop in
\* wstCompositorProcessEvents never dispatches a slot that no handler has filled.
NoGarbageDispatched ==
  \A i \in 0..(eventIndex - 1) : queue[i].id # 0

\* The frame clock never stops: whenever the compositor thread waits in its event
\* loop, the display timer is armed.
FrameClockRuns == pc = "idle" => timerArmed

\* Every repaint request (a commit, a destroyed surface, a resize, a pointer
\* motion, WstCompositorInvalidateScene) is answered by a composed frame, however
\* it interleaves with the timer handler, unless a full queue aborts the process.
RepaintHappens == needRepaint ~> (~needRepaint \/ ~Alive)

\* A client that asked for a frame callback and committed hears back.
CallbacksAnswered ==
  \A s \in Surfaces :
    (callbacks[s] > 0 /\ needRepaint) ~> (callbacks[s] = 0 \/ ~Alive)

\* z is the size the renderer uses and the one the clients were told.
InUse(z) == announcedSize = z /\ (HasRenderer /\ ~IsEmbedded => rendererSize = z)

\* When output sizes stop changing, the size the renderer uses and the size the
\* clients were told are both the last one that was set, although
\* wstOutputChangeSize reads it without the mutex; except for a size that was set
\* while WstCompositorStart had not seen that the thread's loop runs.
SizeSettles ==
  \A z \in Sizes : <>[](outputSize = z /\ ~unheard /\ Alive) => <>[]InUse(z)

\* Not so (the size is set between the thread's reading it and Start's setting
\* ctx->running, and is not marked as a change): the exception is not needed.
EverySizeSettles ==
  \A z \in Sizes : <>[](outputSize = z /\ running /\ Alive) => <>[]InUse(z)

\* The abstract queue, for a compositor whose input comes through the API.
Fifo == INSTANCE EventFifo WITH
          sent <- posted, received <- delivered, halted <- ~Alive

ImplementsFifo == Fifo!FifoSpec

\* Not so (the counterexample posts a queue's worth of events between two dispatches):
\* what the assertion after every ++ctx->eventIndex states.
QueueHasRoom == eventIndex < QueueSize

\* Not so (a dispatch falls between the handler's read of eventIndex and its use):
\* by default the nested compositor forwards input events to its clients: the
\* events dispatched so far are the first ones received, in the order received.
NestedInputForwarded == \A i \in 1..Len(delivered) : delivered[i] = i
================================================================================

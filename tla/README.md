# A TLA+ model of Westeros

Westeros (`src/westeros`) is a Wayland compositor library, meant to be embedded in an
application, with the libraries around it: a nested client connection, renderer
modules, a GStreamer video sink, the Essos application framework, and a media capture
tool.  This directory models the parts of it whose correctness depends on the order
in which threads, clients and callbacks act, model-checks them with TLC on small
instances, and proves with TLAPS, for every instance, all safety properties that the
runs check.

`C` below stands for `src/westeros/westeros-compositor.cpp`, `N` for
`src/westeros/westeros-nested.cpp`.

## 1. The system

### Components

| Component | State | Operations | Modelled by |
|---|---|---|---|
| Compositor lifecycle (`C`, `westeros-main.cpp`) | `running`, `compositorReady`, `compositorThreadId`, `display`, `displayTimer`; the settings; the status callback, the pipe and the process of each launched client | `WstCompositorCreate`, setters, `Start`, `Stop`, `Destroy`, `LaunchClient`, the compositor thread | `Lifecycle`, `Settings`, `LaunchClient` (partly: not the command line of `westeros-main.cpp`) |
| Frame loop, repaint and input queue (`C`) | `needRepaint`, `allowImmediateRepaint`, the one-shot display timer, `frameCallbackList`s, `outputSizeChanged` and three copies of the size, `eventQueue[64]`, `eventIndex` | the timer handler, commits, frame requests, input and resize calls of the API, the nested input handlers | `EventFifo`, `CompositorLoop` |
| Keyboard focus (`C`) | `keyboard->focus`, `focusResourceList`, `resourceList`, `clientInfoMap`, surface roles | `create_surface`, `get_keyboard`, shells, `simple_shell.set_focus`, `FocusClientBy*`, destruction of each object and of a client | `KeyboardFocus` |
| Pointer focus and cursor (`C`) | `pointer->focus`, two lists, cursor surface, default cursor client, the surface in each queued event | motion, enter, leave, `get_pointer`, `set_cursor`, `SetDefaultCursor`, destructions | `PointerFocus` |
| Surfaces, buffers, shm pools (`C`, `N`, `simplebuffer/`) | attached buffers, clones, `buffersToRelease`, `surfaceInfoMap`, pool reference counts | attach, commit, destroy, release; `wl_shm` in a repeater; `wl_sb` | `SurfaceBuffers` |
| Video path control (`C`, `vpc.xml`) | `useHWPath`, `useHWPathNext`, `pathTransitionPending` | hints of `ComposeEmbedded`, the client's commit | `VideoPath` |
| xdg_shell, wl_shell (`C`) | shell surface objects | requests that mostly store or ignore a value | role and focus in `KeyboardFocus` and `PointerFocus` |
| Nested connection and repeater (`N`) | `started`, `stopRequested`, the connection's thread | connect, disconnect, destroy, end of the connection | `NestedConnection`; input in `CompositorLoop`, buffers in `SurfaceBuffers` |
| simple shell (`simpleshell/`) | surface list, pending announcements, broadcast resources, z-order | bind, set name/visible/geometry/…, `set_focus` | `SimpleShell`, `SceneOrder` |
| Renderers (`westeros-render-gl.cpp`, `-embedded.cpp`, `rpi/…-dispmanx.cpp`) | per surface: textures, images, copies, resources and elements; list by z; the fast path | create, destroy, commit, z-order, visibility, `UpdateScene`, resolution change | `SurfaceContent`, `GlRenderer`, `EmbRenderer`, `DmxRenderer` (partly: nexus not) |
| Essos (`essos/`) | context mode, running flag, table of input descriptors with inotify | setters, `Start`, `Stop`, `RunEventLoopOnce`, listeners | `Essos` (partly) |
| westeros-sink, common (`westeros-sink/`) | state, `eosEventSeen`, `eosDetected`, `flushStarted`, segment | state changes, flush, segment, EOS, render | `SinkElement` (partly) |
| westeros-sink, platforms (`rpi`, `brcm`, `syna`, `drm`) | decoder buffers and semaphore; tunnels; capture surfaces and thread | the platform's part of each state change, capture, path switch | `RpiBuffers`, `RpiPath`, `NexusCapture` (partly: not `syna`, `drm`) |
| mediacapture (`tools/`) | capture contexts, ring, post thread; two sources and a transport stream | start, stop, probes, post, multiplexing | `MediaCapture`, `TsMux` (partly) |
| westeros-gl, applications, probes, build files | | | not modelled (section 6) |

### How they interact

* The embedder calls the `Wst*` API from its own threads.  Almost every call takes
  `ctx->mutex`; some do not look at whether the compositor runs.
* The *compositor thread* runs `wl_display_run`: client requests, destruction of client
  objects, and the display timer are all handled on it, one at a time.  The timer is a
  one-shot event source; its handler `wstCompositorDisplayTimeOut` applies a pending
  output size, dispatches the queued input, composes a frame if a repaint is due, and
  arms the timer again.
* A nested compositor has a further thread, which reads the connection to the parent
  compositor and calls the nested listener.  Its handlers put input into the same queue,
  queue the parent's buffer releases, and report the end of the connection, upon which the
  embedder may call `WstCompositorStop` on that very thread.
* A commit goes from the client through the compositor to the renderer module, or, in a
  repeater, to the parent; the release of the buffer comes the same way back.
* A thread of the embedder that launches a client forks, may read the client's output
  through a pipe until it is closed everywhere, and waits for the process.
* The sink is a GStreamer element: state changes and flushes come on the application's
  thread, data and segments on the streaming thread, and the platform adds a decoder's
  and a capture thread.  The compositor asks it to change its video path through `wl_vpc`.
* mediacapture probes a pipeline's pads on their streaming threads, and posts what they
  see from a thread of its own, which `stopCapture` joins.

### What is hard

The list with one line of code for each entry is `hazards` in `PROJECT.json`.  The main
families are

* *interleavings with unlocked state*: the timer handler's `needRepaint` and sizes;
  `eventIndex` in nested handlers; `nc->started`; the status callback; `soc.rend`; the two
  copies of `videoPlaying` in Nexus' capture thread; the waits for mediacapture's ring;
* *liveness*: the frame clock is re-armed only by its own handler; a repaint or a frame
  callback requested in the wrong moment could be forgotten; `Stop` joins threads;
* *limits*: 64 events between two frames, the decoder's input buffers, the ring;
* *request sequences*: focus is a pointer plus two lists changed by a dozen requests and
  destructors; a video surface's path is changed by the second of two commits; two lists
  order the same surfaces;
* *raw pointers* to surfaces, buffers and clients, in destruction orders that libwayland
  chooses;
* *failures half way*: a thread that fails during set-up, a fast renderer that cannot
  create a surface, a commit that fails, a device that cannot be opened.

### What makes each component correct

* Frame loop: input is dispatched once and in order; a repaint that was asked for
  happens; clients hear back about their frames; everybody ends up with the last output
  size; the clock never stops.
* Keyboard focus: keys go to all keyboards of one client, the client of the focused
  surface; no reference to a dead surface; what a client is told about focus is true;
  focus cannot be taken by creating things.
* Pointer focus: motion and buttons follow an enter; a leave comes before the next enter;
  a client's cursor leaves with the focus.
* Lifecycle: one thread per context; the context outlives it; a successful start
  leaves a serving compositor with its own display and timer; a stop leaves nothing.
  What the embedder hears of a launched client is true, and it hears of its end.
* Nested connection: no use of the connection after it is freed; stops return; the end of
  the connection is reported.
* Buffers: a buffer is released exactly once per attach, to a client that has it; pools
  live as long as their buffers.
* Scene: every shell client hears of every surface once and in order; the pointer looks
  for surfaces in the order in which they are painted; a video surface changes its path
  only with the buffer that belongs to it.
* Renderers: a surface shows what was committed last; nothing outlives its handle.
* Sink: the end of a stream is posted; no input buffer is lost; a frame finds a complete
  path; a captured surface is in one place, and no stale frame is shown.
* Essos: each device that is there is followed, and no descriptor is forgotten.
* mediacapture: bytes and packets leave once and in order; a capture ends once.

## 2. Plan

| # | Module | Composes / refines | State |
|---|---|---|---|
| 1 | `EventFifo`, `CompositorLoop` | `CompositorLoop` implements `EventFifo` | checked, proved |
| 2 | `KeyboardFocus` | | checked, proved |
| 3 | `Lifecycle`; `LaunchClient` | one instance, `MCLifecycle` | checked, proved |
| 4 | `PointerFocus` | its surfaces and roles are those of 2 | checked, proved |
| 5 | `SurfaceBuffers` | | checked, proved |
| 6 | `Settings`, `NestedConnection` | `NestedConnection` extends `Settings` | checked, proved |
| 7 | `SurfaceIds`, `SimpleShell`, `SceneOrder`, `VideoPath`, `Scene` | `Scene` joins the requests of the three | checked, proved |
| 8 | `RpiBuffers`, `SinkElement`, `RpiPath`, `NexusCapture` | `SinkElement` extends `RpiBuffers`; one instance, `MCSink` | checked, proved |
| 9 | `Essos`, `MediaCapture`, `TsMux` | one instance, `MCHelpers` | checked, proved |
| 10 | `SurfaceContent`, `GlRenderer`, `EmbRenderer`, `DmxRenderer` | the first two renderers use `SurfaceContent`; one instance, `MCRenderers` | checked, proved |

*Proved* is safety: every safety property that a run checks has a theorem.  What could come next
is the nexus renderer, once the behaviour of the video server it calls is known.

## 3. Modules

In every module one action is one handler, request or call, unless the code gives up a lock or
runs on without one in between; then it is several, with the position of the thread in a
variable.  *Variant* marks a copy of an action with a plausible mistake (a missing
reset, a dropped guard, a swapped order); each property is known to fail for one of them.
*Not so* marks a formula that states what a comment, a header or an assertion says and that
TLC refutes.

### `EventFifo`

What the input path promises: `Send` numbers an event, `DispatchAll` delivers everything
sent so far, in order.  `halted` is the abort by a failed assertion.

### `CompositorLoop`

The compositor between the start and the end of `wl_display_run`.  It begins when the thread
enters its loop, and `WstCompositorStart` may still be waiting (`Started` sets `ctx->running`).

* `pc` is the position of the compositor thread in `wstCompositorDisplayTimeOut`
  (`TimerFires`, `ResizeRenderer`, `ResizeOutput`, `ProcessEvents`, `CheckRepaint`,
  `ComposeFrame`, `RearmTimer`); client requests (`SurfaceFrame`, `SurfaceCommit`,
  `SurfaceDestroy`) need `pc = "idle"` because they are dispatched by the same thread.
* API calls are steps of their own and may fall between any two steps of the handler.
  `WstCompositorResolutionChangeEnd` is three steps, as it takes the mutex twice with an
  unlocked write in between.
* A nested handler is two steps: `NestedClaim` copies `ctx->eventIndex`, `NestedPost`
  stores the event under the mutex.
* `posted`, `delivered`, `raced` and `unheard` are history variables; `unheard` says that the size
  set last was not marked as a change, because `ctx->running` was not set yet (C:1118).

Abstractions: an event is its number and its kind; width and height are one value, read
and written at once; a test of `needRepaint` or `allowImmediateRepaint` and the write
that depends on it are one step; what dispatching an event does, beyond scheduling a
repaint, is left to the focus modules.  The renderer of the resolution-change calls is
one that handles them (`resolutionChangeBegin` and `resolutionChangeEnd` set).

### `KeyboardFocus`

One action per request that moves focus or destroys what focus refers to.  A list of
keyboards is the set of its members: only the workaround at the end of
`wstISeatGetKeyboard` looks at the order, and it takes the keyboard just created.
`clientInfo` is `clientInfoMap`; an entry has the client's latest surface and
`usesXdgShell`.  `entered` records the last enter event each client holds valid.  `hung` is
set when a loop of `wstKeyboardCheckFocus` does not end: libwayland's
`wl_resource_for_each_safe` fetches the next element before the body runs, and the body
moves the elements of the list to another one.  All
actions run on the compositor thread; the two `FocusClientBy*` calls do not take the
mutex in the code and are modelled as if they did.  `Disconnect` removes all objects of
a client in one step: the compositor thread does nothing else in between.

### `PointerFocus`

The pointer's focus follows geometry, of which the model keeps that any set of surfaces may be
under the pointer when the code looks.  `ptr` is the `WstPointer` with what each `wl_pointer` was
last told; `Slots` are those places of the event queue whose stored surface a nested leave
reads although it does not write it; a dying client's objects go one at a time in any order
(`Disconnect`, then `SurfaceDestroy` and `ReleasePointer`, then `ClientGone`), as libwayland does
it.  `mode` chooses between a compositor, a nested one and a repeater.
`WstCompositorSetDefaultCursor` runs on the embedder's thread and is modelled as if it ran on the
compositor's.

### `SurfaceBuffers`

`kind` tells what a buffer is; `owned` which buffers the client may use; `onto` the surface a
buffer was last attached to; `clone` the proxies a repeater has with its parent, `toRelease` the
queue `buffersToRelease`; `pool` and `poolOf` the counted shm pools.  `mode` is the compositor's
configuration: local, repeater, or cloning repeater.  In `toRelease` each surface has the number of
times that each buffer is queued, as the order of the queue decides nothing.

`buffer_release` runs on the connection's thread and has a lock for its push only.  So it is
several steps, and `releasing` is where it is: the walk of `surfaceInfoMap` (`ParentReleases`,
`FindSurface`, `SurfaceNotFound`), the write to what it found (`ForgetClone`), the push
(`QueueRelease`).  A surface that is created or destroyed meanwhile tears the walk, and a surface that is
destroyed after it was found leaves the thread with freed memory and its release in a purged queue:
`raced` marks both, and with them the properties about releases end.  They are checked for every
other interleaving; `QueuedForLiving` and `ClonesDestroyedOnce` show what comes of these.

Two constants say what the environment
does: `Careful` clients destroy only buffers they own and are not cut off between attach and
commit, and without `AddressReuse` a new surface does not get the address of a destroyed one.
Both assumptions are the code's own: `attachedBufferResource`, `surfaceInfoMap` and
`buffersToRelease` are raw pointers, and without either assumption TLC shows
`ReleasesReachLiveBuffers` violated.  A failing pool creation is left out: the parent always
has `wl_shm`.

### `SurfaceIds`, `SimpleShell`, `SceneOrder`, `VideoPath`, `Scene`

`SimpleShell` has what each client that has bound the shell has been told, and the list of
announcements that wait for a name or for two seconds.  `SceneOrder` has `ctx->surfaces` and the
renderer's list side by side.  `VideoPath` has, for each surface with a `wl_vpc_surface`, the two
flags and the pending transition, with what is on the plane and in graphics.  They are written
without each other's variables; `Scene` joins their operations into the handlers of the code, one
action each.  `clients` never changes: in a behaviour the clients restack surfaces or show video,
not both, as no handler reads both.

### `Settings`, `NestedConnection`

`Settings` has the setters and what `WstCompositorStart` refuses; platforms differ in whether their
EGL can repeat and whether `WAYLAND_DISPLAY` is set.  `NestedConnection` adds the connection's
thread, created with `wl_display_connect`'s result, its loop and its last words
(`connectionEnded`), against `Disconnect`, `Destroy` and a `Stop` that holds `ctx->mutex`.  `mutex
= "leaked"` after a setter of nested listeners has returned without unlocking (C:1805).  `parent`
never changes: it stays, closes, or sends.  Threads the code does not wait for (`unbegun`: not
yet begun when `Disconnect` looks; or past the loop) are excused in `FreedAfterThread`, and there
are no others.

### `Lifecycle`

`call` is the position of the embedder's controlling thread in `Start`, `Stop` and
`Destroy`; `stage[t]` the position of each compositor thread ever created.  The display
and the timer a thread creates are named by the thread's number, so a pointer left over
from an earlier thread is visible.  `displayRun` is libwayland's `display->run`, which
`wl_display_run` sets when it starts and `wl_display_terminate` clears (external: modelled
from its use at `C:3095` and `C:2124`).  Every set-up step may fail.  `SlowStart` says
whether a thread may need longer than the five seconds `Start` waits.

What `Start` returns is not whether it has started: a compositor that is not nested has `result` true
from the key map on (C:2052), and a thread that could not be created or was not seen ready
(C:2091) leaves it so.  `granted` is what the caller was told, `detailed` whether
`lastErrorDetail` says otherwise.  `RunningMeansServing` says what the caller can rely on, and
`StartTellsTrue`, which TLC refutes, what it cannot.

### `LaunchClient`

`launch[l]` is the position of the thread that launches, `child[l]` the process it has forked,
`writers[l]` who holds the writing end of the pipe for its output: the embedder from the
creation of the pipe to the start of the monitor, the child, and every child another launch forks
in between.  `told[l]` is the last report of the status callback, with whether it came with the
data it was set with.  `forwards` (`WESTEROS_FORWARD_CLIENT_STDOUT`) never changes.
The callback is set once; the context outlives the launches.

### `RpiBuffers`, `SinkElement`, `RpiPath`

The sink on a Raspberry Pi.  `sem` is `semInputBuffers`; `stream` is where the streaming thread is in
`processFrame` or in the end-of-stream event, with a token or with a buffer; a flush and a stop post
the semaphore to wake it, so it may count more than there is in `pool`.  `spoiled`: a stop has taken the pool down
against a buffer that was on its way.

`RpiPath` has the tunnels, the flags the code keeps of them, and the renderers.  `at` is the position
of the streaming and of the capture thread.  Each dispatches the requests of the compositor after a picture
(`PathAsked`, `SetVideoPath`), and whichever meets a request moves the scheduler's output under
the lock (`StartCapture`, `LeaveRenderer`, `JoinRenderer`); the streaming thread gives its
frame to the decoder without the lock (`FrameBegins`, `FrameGiven`), so that the capture thread may switch
under it.  A tunnel may fail to be made: `gst_westeros_sink_soc_setup_tunnel` returns TRUE all the same
(1016-1021, 1062), so that the failure branches of its callers are dead code, and the model has none.
`FrameHasPath` therefore speaks of what has been set up; that a flag tells of a tunnel that is there is
`FlagsTellTrue`, which TLC refutes.

It is assumed, as GStreamer has it, that the pipeline stops its streaming thread between
PAUSED_TO_READY of the sink and its next change of state.

### `NexusCapture`

The capture of frames on a Nexus platform.  `dec[s]` is where the decoder has surface `s`;
`nxThread` the position of the capture thread, `nxLocal` its copies of `videoPlaying`, `eosDetected` and
`segmentNumber` and the surface in its hands; `nxApp` is in the middle of a stop or of a flush.
`lost` are the surfaces that `processFrame` takes and never gives back (no memory; a frame from
before the segment's start, 1298; no `wl_sb`, 1323).  `disturbed` marks the behaviours for
which nothing is claimed, since the code does not look: the surfaces are replaced, or the capture
started anew with all of them, while the compositor shows some; a link starts the video of an
element that has been stopped (`startAfterLink` survives the stop).

### `Essos`

One application thread, the event loop with its position in the table of descriptors, devices
with one or several nodes that come and go, the notifications of inotify in order, and listeners
that may stop the context in the middle of the loop.  `excused`: a device could not be opened, or
its notification was read behind another one and skipped.

### `MediaCapture`, `TsMux`

`MediaCapture` has the control of a capture from whichever thread, the ring between the probes and
the post thread, and the two unguarded waits; `posted` is what curl got.

`TsMux` is the multiplexer, on packets, accumulators and times.  `performEncapsulation` has
`ctx->mutex` for as long as it runs, and only `startCapture` (which does not take it) can come in
between; but it is a loop in a loop, and so it is a machine of several steps, with the
place where it is in `doing`: it looks at the buffer (`PerformEncapsulation`), emits blocks round after round
(`EmitRound`, `EmitEnds`), writes the clock (`EmitClock`) and then the buffer (`AddToPacket`).  A
packet is its number among those of its source and the time that begins in it; `made` and `out` count
what has been made and emitted.  Times may be equal and may wrap (the code's range is 2^33).  A source keeps
`accumTestPTS` and `firstBlockLen` from the round in which it was chosen last; `again` holds once a
source has left by those of an earlier round.  There is at most one source of each kind, and
the list of sources does not change after `prepareForCapture`.

### `SurfaceContent`, `GlRenderer`, `EmbRenderer`, `DmxRenderer`

`SurfaceContent` has as operators on one surface's record what the GL and the embedded renderer share as copied
code: commit of shm, of planes, of an image, the null commit, and texture creation.  Counters of textures and images go up and down
with the calls, whatever the handles say, so that a leak is a difference.  `EmbRenderer` adds the
fast path; `embFollows` says of a behaviour whether it follows the contents of one surface
(by dispmanx resources or by images) or the order of several; `glBuild` is the same for `GlRenderer`.  `DmxRenderer`
has front and back resource of each surface and the update that completes on another thread;
`dropped` holds from a commit that could not be shown, or from a flush that leaves a client's
resource in its slot, to the next commit that succeeds, and excuses what the surface shows in between.
Assumed: updates of the display can always be started; a surface that was created for EGL has a
context; the contents of one surface do not depend on those of others.

### `MC*` and `*Proofs`

The `MC` modules instantiate the others for TLC.  `MCLifecycle`, `MCSink`, `MCHelpers` and
`MCRenderers` hold several parts that share no state worth it: `part` says which of them a behaviour is of
and never changes, so that one instance explores each in turn.  The theorems are in

| Module | About |
|---|---|
| `CompositorLoopProofs` | `CompositorLoop` and its refinement of `EventFifo` |
| `KeyboardFocusProofs` | `KeyboardFocus` |
| `PointerFocusProofs` | `PointerFocus` |
| `SurfaceBuffersProofs` | `SurfaceBuffers` |
| `LifecycleProofs` | `Lifecycle`; then `LaunchClient`, `Essos`, `MediaCapture`, `TsMux` |
| `NestedConnectionProofs` | `NestedConnection` with its `Settings` |
| `SceneProofs` | `SimpleShell`, `SceneOrder`, `VideoPath` joined in `Scene`; then the three renderers |
| `SinkProofs` | `SinkElement`, `RpiPath`, `NexusCapture` |

The sink's modules, the renderers, `Essos`, `MediaCapture` and `TsMux` have their type invariants there.

## 4. Runs

| Run | Instance | Shows |
|---|---|---|
| `loop_api` | queue of 3, 3 events, 1 surface with 1 callback, 2 sizes | input arrives in order (`ImplementsFifo`), the clock runs (`FrameClockRuns`), repaints and callbacks are answered (`RepaintHappens`, `CallbacksAnswered`), sizes settle (`SizeSettles`), except for one set before Start has seen the thread run |
| `loop_nested` | the same, nested and embedded, 4 events | order is kept while no handler uses a stale index (`InOrder`); no unfilled slot is dispatched, stale index or not (`NoGarbageDispatched`) |
| `keyboard_focus` | 2 clients, 3 surfaces, 3 keyboards, symmetric | `PointersLive`, `FocusListMatchesFocus`, `EnterIsTrue`, `NoFocusStealing` |
| `pointer_focus` | 2 clients, 3 surfaces, 2 pointers, 2 event slots, in every mode, symmetric | `PointersLive`, `EventsFollowEnter`, `LeaveBeforeEnter`, `CursorLeavesWithFocus` |
| `surface_buffers` | 2 surfaces, 3 buffers, 2 clones, 1 pool, in every mode, symmetric | `BuffersAndPoolsLive`, `ReleasedPerAttach` |
| `scene` | 2 shell clients, 3 surfaces of which 1 with video, 2 levels, symmetric | `Announced`, `HitOrderIsPaintOrder`, `PathHandshake` |
| `nested_connection` | 2 connections, 2 platforms, 3 parents | `FreedAfterThread`, `QuietStopReturns`, `EndReported` |
| `lifecycle` | 3 threads; 2 launches | `ContextOutlivesThreads`, `RunningMeansServing`, `StopOfRunningReturns`; `ReportsTrue`, `EndReturns` |
| `lifecycle_stop` | 1 thread | **violated**: a Stop right after Start may wait for ever (`StopHalts`) |
| `sink` | 2 buffers and 4 tokens; the five components; 2 capture surfaces, symmetric | `BuffersAccounted`, `EosNotLost`; `FrameHasPath`; `FramesCaptured` |
| `helpers` | 2 devices; 2 sources, 2 captures, a ring of 3; 1 or 2 sources, accumulators of 4, 3 times of 6 | `DevicesFollowed`; `PostedInOrder`, `EndsOnce`; `PacketsInOrder` |
| `renderers` | 2 pictures; 1 surface for contents, 2 for the order of the fast path's | `GlContentKept`; `FastPathMirrors`, `EmbContentKept`; `DmxContentKept` |

**Where the code does not do what it says.**  `findings` in `PROJECT.json` quotes each comment,
header or assertion with the line that goes against it.  One has a run, `lifecycle_stop`.  The
others are formulas of the modules: put the name into the configuration of the run of that
module, in place of what is there, to see the counterexample.

| Formula | Module | As | What TLC shows |
|---|---|---|---|
| `QueueHasRoom` | `CompositorLoop` | INVARIANT | the assertion behind every post fails when a queue's worth of events comes between two frames |
| `NestedInputForwarded` | `CompositorLoop` (`LoopNested.cfg`) | INVARIANT | a nested compositor loses and repeats input when a dispatch falls between a handler's read of `eventIndex` and its use |
| `EverySizeSettles` | `CompositorLoop` | PROPERTY | a size set while Start has not yet seen that the thread runs is never announced |
| `ListenerGetsFocus` | `KeyboardFocus` | PROPERTY | a client with two keyboards and no surface does not get the focus |
| `FocusComesBack` | `KeyboardFocus` | PROPERTY | such a client that replaces its surface sends the compositor thread into an endless loop |
| `InvalidateHarmless` | `Lifecycle` | INVARIANT | a repaint request after Stop hands libwayland a null timer |
| `StartTellsTrue` | `Lifecycle` | INVARIANT | Start returns true when its thread could not be created or did not get ready |
| `QueuedForLiving` | `SurfaceBuffers` | INVARIANT | a release is queued for a surface that was destroyed under `buffer_release`, after its queue was purged |
| `ClonesDestroyedOnce` | `SurfaceBuffers` | PROPERTY | a surface's destruction destroys the clone that `buffer_release` has just destroyed |
| `ReturnsWithClient` | `LaunchClient` | PROPERTY | a launch does not return before a sibling that has inherited its pipe |
| `BlocksUntilEnd` | `LaunchClient` | INVARIANT | a signal ends the call while the client runs |
| `NestedStopHalts` | `NestedConnection` | PROPERTY | Stop holds the mutex that the parent's next event needs |
| `LoopDoesNotBlock` | `Essos` | INVARIANT | the event loop reads a descriptor that has nothing to read |
| `AwakenedByStop` | `MediaCapture` | INVARIANT | the signal to the post thread comes before its wait |
| `OnlyChosenLeave` | `TsMux` | INVARIANT | with two audio buffers of one time, video that has left with the first leaves again with the second |
| `DataRemains` | `TsMux` | INVARIANT | so does a block longer than what is left: a negative length for `memmove` |
| `RoundsMove` | `TsMux` | INVARIANT | the last audio time wraps to one before the limit: the loop emits nothing, for ever, with `ctx->mutex` |
| `FlagsTellTrue` | `RpiPath` | INVARIANT | a tunnel that could not be made counts as made, and is not tried again |
| `FrameMeetsNoSwitch` | `RpiPath` | INVARIANT | the capture thread is between two renderers while the streaming thread gives a frame to the decoder (no line says otherwise: not a finding) |
| `RendererIsTunnelled` | `RpiPath` | INVARIANT | `setupGfx` stores `soc.rend` before `transitionToRenderer` compares it (no line says otherwise: not a finding) |
| `StopReturns` | `NexusCapture` | INVARIANT | a pause between two copies of `videoPlaying` leaves `processFrame` looking for ever |

**Bounds.**  A queue of three has a first slot, a last slot and one in between, so a batch
can be empty, partial and (with three events) full; four events in the nested instance
let a reset fall between two posts and a stale slot be replayed.  Repaint liveness and
the sizes do not depend on the number of surfaces; two sizes are needed for a change
to be seen.  Focus moves between at most two parties; three surfaces and keyboards let
one client have two of each while the other has one.  Three threads are a start after a
failed start after a stop; two launches are enough for one to inherit the other's pipe, two
connections for a second start over what the first has left.  Three buffers and two clones let a
surface be committed twice before the first release, with another surface in between, and
be destroyed under the release; a pool can outlive its resource by a buffer and the other way round.  Three surfaces on two levels have every relative position, with the
cursor above.  Two input buffers are one with the decoder and one to come, and four tokens two
more than that; two capture surfaces are one shown and one in the thread's hands.  A ring of
three wraps around with data of two and four.  An accumulator of four packets fills up between
two clocks, and holds blocks of two packets as well as two blocks; of three times one is
before a limit, one is the limit, and one is audio's that wraps.  `MCHelpers` leaves out the list
with the audio first: the order of the list decides only where a time to emit is -1, which no
source has in the loop before `again` (the theorem has both orders).  `MaxEvents`, `MaxCallbacks`, `MaxThreads`,
`MaxConnections`, `MaxTokens`, `MaxNews`, `MaxWindows`, `MaxData`, `MaxCaptures`, `MaxBlock` and
`MaxPackets` are the bounds of what could go on for ever, each in the guard of the action that
counts.

**Rigid variables.**  `part`, `mode`, `clients`, `parent`, `forwards`, `embFollows` and `glBuild`
are chosen in `Init` and never change: one instance has the configurations side by side without
multiplying their states.

**Symmetry** is used where a run has only invariants and action properties, in sets whose
members are alike: `keyboard_focus`, `pointer_focus`, `surface_buffers`, `scene`, `sink`.

**Fairness.**  `CompositorLoop` assumes `WF(Timer)`: the compositor thread is not stopped
and the kernel delivers an armed timer.  While the handler runs no client request can be
dispatched, so weak fairness of the whole handler is what the code has.  Nothing is
assumed of clients, the embedder or the nested connection.  `Lifecycle` assumes that
each compositor thread, and each call that can return, goes on; `NestedConnection` the same
of the compositor's and each connection's thread, and nothing of the parent.  For `LaunchClient`
the threads that launch go on, each by itself; nothing is assumed of clients, which may run for
ever.  (`MCLifecycle` states the fairness of its two parts.)  The other modules state safety
only: their threads wait for clients, decoders or pipelines of which nothing is promised.

**Deadlock** is not checked where the system may stop: in `CompositorLoop` an assertion
aborts the process; in `KeyboardFocus` the compositor thread may loop for ever; in
`Lifecycle` and `NestedConnection` nothing is left after `WstCompositorDestroy` or, within
the bound, once all threads have been used; in `LaunchClient` all clients have ended; in
`PointerFocus` and `Essos` a null or freed pointer ends the behaviour, in `RpiBuffers`, `RpiPath`,
`MediaCapture` and `GlRenderer` a use of freed memory or a wait that never ends; in `SurfaceBuffers`,
`Scene`, `TsMux` and the renderers names, ids or packets are used up (and a negative length
ends `TsMux`); in `NexusCapture` the sink is over.

## 5. Proofs

Every theorem holds for all values of the constants that satisfy the modules' assumptions, so for
any number of clients, surfaces, buffers, threads, captures or bytes; the bounds of section 4 are
those of TLC's instances only.

| Module | Theorem | Says |
|---|---|---|
| `CompositorLoopProofs` | `TypeCorrect` | no event is stored outside the queue, for any queue size and number of events |
| | `InputInOrder`, `NoGarbage`, `ClockNeverStops` | `[]InOrder`, `[]NoGarbageDispatched`, `[]FrameClockRuns` |
| | `LoopImplementsFifo` | `~IsNested => (Spec => ImplementsFifo)` |
| `KeyboardFocusProofs` | `FocusNeverDangles`, `KeysFollowFocus`, `KeysReachOneClient` | `[]PointersLive`, `[]FocusListMatchesFocus`, `[]OneRecipient` |
| | `EntersAreTrue`, `FocusIsNotStolen` | the action properties `EnterIsTrue`, `NoFocusStealing` |
| `PointerFocusProofs` | `PointersNeverDangle`, `EventsReachWhoEntered`, `EntersAreAnswered` | `[]PointersLive`, `[]EventsFollowEnter`, `[]LeaveBeforeEnter` |
| | `CursorGoesWithFocus` | the action property `CursorLeavesWithFocus` |
| `SurfaceBuffersProofs` | `PoolsAreCounted` | `[]PoolCounted`, whatever clients do |
| | `BuffersAndPoolsStayLive`, `ReleasesMatchAttaches` | `[]BuffersAndPoolsLive`, `[]ReleasedPerAttach`, under `Careful` and `~AddressReuse` |
| `LifecycleProofs` | `OnlyOneThread`, `FreedAfterThreads`, `ServesWhileRunning`, `StopLeavesNothing`, `TimerForRequests` | the lifecycle's safety, under `~SlowStart` |
| | `ReportsAreTrue` | `[]ReportsTrue` of `LaunchClient` |
| | `DevicesAreFollowed` | `[]DevicesFollowed` of `Essos` |
| | `BytesLeaveInOrder`, `CapturesEndOnce` | `[]PostedInOrder`, `[]EndsOnce` of `MediaCapture` |
| | `PacketsLeaveInOrder` | `[]PacketsInOrder` of `TsMux` |
| `NestedConnectionProofs` | `ThreadsOutliveNothing` | `[]FreedAfterThread` |
| `SceneProofs` | `EverySurfaceAnnounced`, `HitsWhatIsSeen`, `ClientKnowsItsPath` | `[]Announced`, `[]HitOrderIsPaintOrder`, `[]PathHandshake` |
| | `DmxKept`, `GlKept`, `EmbKept` | `[]DmxContentKept`, `[]GlContentKept`, `[]EmbContentKept` |
| | `FastPathMirrored` | `[]FastPathMirrors` |
| `SinkProofs` | `EndIsPosted`, `BuffersAreAccounted` | `[]EosNotLost`, `[]BuffersAccounted` |
| | `FramesFindThePath` | `[]FrameHasPath` of `RpiPath` |
| | `FramesAreCaptured` | `[]FramesCaptured` of `NexusCapture` |

A module that has a type invariant of its own has it proved as `TypeCorrect`, and the
inductive invariant is stated as `InvariantHolds` or, for the pools, `PoolsHold`.  Each
proof has the same shape: the inductive invariant holds initially, each action keeps it, and it
implies the property.  What makes the properties inductive:

*Loop.*  `InOrder` alone is not inductive: a nested handler that holds an index writes a
slot later.  The inductive invariant adds that `eventIndex < QueueSize` unless the process
has been aborted, that every slot below `eventIndex` and below a claimed index has been
filled, and that `eventIndex` never passes a claimed index (a dispatch may only take it
back to 0).  `InOrder` itself is kept slot by slot (`Ordered`) and turned into the equation
of sequences at the end.  The refinement is proved from the same invariant: a post maps to
`Send`, `ProcessEvents` to `DispatchAll`, everything else to a stutter.

*Keyboard focus.*  The conjunction of the type invariant and the three focus invariants is
inductive.  `OneRecipient` is needed for states without focus, in which the list may
still hold the keyboards of the client that lost its last surface.

*Pointer focus.*  A leave goes to the members of `focusResourceList` only, so whoever holds an
enter has to be in it (`ListTold`; a repeater's pointers hear from the parent).  And the leave of
a repeater spares the cursor, so a repeater must never have one (`RepeaterHasNoCursor`).  The
proofs speak of a `WstPointer` that an action has not yet stored (`Consistent`, `Answered`),
since the handlers change it several times.

*Buffers.*  The pools are counted whatever clients do (`PoolInv`).  For the releases, a buffer
that the client may not use has exactly one *debtor* as long as the surface it was last attached to
lives: that surface, a clone that the parent has or `buffer_release` has in its hands, or one place in a queue of releases; a buffer that
the client may use has none, and what is gone has none while nobody dies (`DebtInv`, with `HoldersLive`: debtors are of live
surfaces).  That needs `Careful` and `~AddressReuse`: without them the raw pointers do get stale,
as TLC shows.  And it is kept only until `raced`: before that, what `buffer_release` goes by is as
it was found (`ReleaseInHand`).

*Lifecycle.*  The inductive invariant says which thread is alive for each position of the
controlling thread (none, or `threadId`), which stages are possible in it, and that
`display` and `timer` are those of the live thread from the stage on in which it sets
them.  It needs `~SlowStart`: if Start may give up on a thread that is still coming up,
a second thread can be created and Destroy can free the context under the first one.
With `SlowStart = TRUE` TLC finds both.

*Launches.*  A callback is not there before its data, and a launch that has got to a report of an
end has reaped its process (`DataBeforeCallback`, `LaunchedReaped`).

*Nested connection.*  `FreedAfterThread` reads the thread's stage when the connection is freed;
the code reads `nc->started` earlier.  So a thread that dispatches has `started` set
(`DispatchingIsStarted`), nobody makes a new connection while one is released, because the
compositor thread is done (`ReleaseAfterHost`), and between the join and the free the thread
does not come back (`AboutToFree`).  `FreedIsPast` says for each connection what the property says
of the one freed last.

*Scene.*  The order in which surfaces are painted and that in which the pointer looks for them agree
because both lists have each surface once, are ascending in their levels, insert a new
surface above its equals, and have equal levels except for cursors, which are above all others
(`OrderInv`).  For the announcements, what each client knows is right for each surface that has
been, lives or is to come, and what waits is listed once (`ShellInv`).  `PathHandshake` is
inductive with its types.  A step of `Scene` is a step of each part or leaves it alone; that is
proved once (three lemmas), and the parts' invariants follow.

*Renderers.*  A surface's handles name exactly the resources there are (`CountsOK`, and in `DmxOK` the
count of the owned slots), and where the last picture is depends on the kind of the surface's
buffers (`ContentOK`).  The GL renderer keeps the latter until it uses freed memory
(`glBroken`), which it does where a client destroys a pool before the frame.  For the fast
path both lists have each surface once and in the order of the same levels (`Stacks`), the fast
one is within the other, and has all of it while the path is active and has not failed
(`FastPathOK`).  The lists are made by recursive functions over other lists; that these exist and what
they are after each step is proved from the least place at which it would fail
(`RecursionAlong`), as the library's induction theorems cannot be used.

*Sink.*  `EosNotLost` is inductive: each thread looks at the other's flag under the lock under which it
sets its own.  `BuffersAccounted` needs where the streaming thread holds what (`StreamHolds`),
that buffers of the pool are not out (`PoolApart`), what there is before PAUSED (`ReadyPool`) and
what each step of a stop relies on (`Stopping`); and that no token is lost (`TokensKept`).
`FrameHasPath` needs that whoever makes or moves a tunnel does it under the lock (`WorkIsLocked`), that
nothing begins a frame between the signal of a stop and its end (`Quiet`), that the decoder's reports
are forgotten while the path is down (`ReportsForgotten`), and that its two ends are there once
they are joined, or the thread that moves one is in the middle (`Joined`).  `FramesCaptured` needs which frames may be
stale when (`NoStaleQueued`, `StaleIsTold`), and that the thread holds a surface exactly while it
passes one on (`HandsFull`).

*Essos.*  A hotplug keeps the last entry of the table as the watch, so the watch is always last and
no descriptor is there twice (`WellListed`); and a context that does not run devices has an
empty table, since a start appends to what there is (`OnlyWhileRunning`).

*mediacapture.*  As long as the post thread reads, the ring holds, from its tail on, the bytes that follow
what curl has and what the callback has read (`Follows`), and until a stop is requested what has
been offered and put in ends where the ring does: so the next byte put in follows, and no byte
is skipped (`BytesFollow`).  After a stop nothing is put in (`NothingMore`).  The ring is there as
long as somebody is in a capture (`RingThere`).  Bytes go in and out in at most two runs
around the end of the ring; two lemmas say what a run does.

*Multiplexer.*  That packets leave in order is kept source by source (`Whole`: what is in the accumulator
and the packet being filled has the next numbers, up to the last made), once each operator on a source is known to keep
it; the reference to the clock needs that its source's packet was flushed before (`HeaderOnly`).  That
blocks are there and have an end needs more: while blocks leave, every source still has a
time, and its last is the limit or later (`ReachTheLimit`).  A source is chosen when its first time is before
the limit, so that its last time is another one and the first block ends there; when that
block leaves, the last time stays.  It holds until `again`; and where the audio's time, which is shifted,
wraps while the limit does not, the first may be the last (`Wraps`).  That both exceptions
are needed TLC shows (`OnlyChosenLeave`, `RoundsMove`).

**Assumptions.**  `LoopAssumption`, `FocusAssumption`, `LifecycleAssumption`, `LaunchAssumption`,
`PointerAssumption`, `BufferAssumption`, `ConnectionAssumption`, `PlatformAssumption`,
`LevelAssumption`, `VideoAssumption`, `BuffersAssumption`, `ContentAssumption`, `NothingAssumption`,
`ZAssumption`, `EssosAssumption`, `CaptureAssumption` and `MuxAssumption` of the modules say what the constants
are: sizes are positive, names that stand for nothing are no members of the sets they are added to, the
cursor's level is above the others, the devices of a machine are finitely many.  TLC evaluates them in the
runs.  Beyond them, theorems of three kinds have a hypothesis: `~SlowStart`, `~IsNested`, and
`Careful` with `~AddressReuse`, all explained above, and all satisfied by a run's instance.

`OneRecipient`, `OneThread`, `StopReleases`, `TimerThereWhileRunning` and `PoolCounted` are
proved and not in a run's configuration by themselves; neither are the type invariants.

**Only model-checked** are

* the liveness properties (`RepaintHappens`, `CallbacksAnswered`, `SizeSettles`,
  `StopOfRunningReturns`, `EndReturns`, `QuietStopReturns`, `EndReported`), as liveness under fairness
  is outside the prover's reach;
* the formulas marked *Not so*, which are refuted and not proved.

## 6. Not modelled

* Within the modelled components: the command line of `westeros-main.cpp`, the contents of
  events, geometry, drawing, shaders; the parsing of elementary streams and the discovery of a
  pipeline's elements in mediacapture; native windows and key translation of Essos; properties,
  queries and the Wayland objects of the sink.
* Reads of plain variables by two threads without a lock are steps in some order; tearing
  and compiler reordering are not modelled.  Condition waits have no spurious wake-ups.
* Two API calls of the embedder at the same time, except where a module says so (repaint requests,
  launches, input).
* The nexus renderer and the syna and drm sinks: sequences of calls into vendor libraries and
  into an external video server whose behaviour is not in this repository.
* westeros-gl: wrappers over vendor calls; drm waits for each flip before it returns, so that no
  state outlives a call.
* Vendor libraries (OpenMAX, Nexus, AMP, dispmanx), GL, EGL, GStreamer and libwayland,
  except for what the modelled code needs of them: those definitions are external in the map.
* Applications, probes, build and service files.

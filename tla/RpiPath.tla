------------------------------- MODULE RpiPath -------------------------------
(* The path of the decoded pictures in the Raspberry Pi part of westeros-sink:
   OpenMAX components joined by tunnels, decoder to scheduler to a renderer, which
   is the hardware's video plane or, on the graphics path, a texture that a capture
   thread draws (rpi/westeros-sink/westeros-sink-soc.c).

   The streaming thread makes the tunnels when the decoder knows the format.  It
   and the capture thread both dispatch the requests of the compositor (wl_vpc),
   each after what it has done with a picture, and whichever meets a request to
   move to the other renderer does so.  Tunnels are made with the sink's lock, and
   frames are given to the decoder without it.  The application's thread takes
   everything down and joins the capture thread without it.  The OpenMAX thread
   reports.  setupGfx stores soc.rend on the capture thread, with no lock.

   gst_westeros_sink_soc_setup_tunnel logs that OMX_SetupTunnel fails, goes on, and
   returns TRUE: what its callers do when it does not succeed they never do.      *)
EXTENDS Integers, Sequences

VARIABLES
    open,           \* OpenMAX components with a handle, in the order they are got
    st,             \* "null", "ready" or "running", the part of the state that matters here
    videoOn,        \* soc.playingVideo
    lock,           \* the sink's lock: "free", the thread that has it, or "leaked" by an error path
    decoderReady, outChanged, frameSize,    \* outChanged is videoOutputChanged
    tunClock, tunDec, tunSched,    \* the flags soc.tunnelActive*
    decTunnel,      \* the tunnel from the decoder to the scheduler: "none", "made" or "failed"
    schedTunnel,    \* where the scheduler's output goes: "none", "vid", "egl" or "failed"
    rend,           \* soc.rend
    useGfx,         \* soc.useGfxPath
    image,          \* soc.eglImage has been made
    eglBuffer,      \* soc.pEGLBufferHeader: "none", "image", or "noimage" if made of no image
    captureRef,     \* soc.captureThread # NULL
    quit, newFrame, \* soc.quitCaptureThread, soc.newFrame
    caller,         \* where the application's thread is
    at,             \* where the streaming and the capture thread are
    asked           \* of each of them, whether the request it works on is for the graphics path

tunVars == <<tunClock, tunDec, tunSched, decTunnel, schedTunnel>>
repVars == <<decoderReady, outChanged, frameSize>>
gfxVars == <<rend, useGfx, image, eglBuffer>>
capVars == <<captureRef, quit, newFrame>>
threadVars == <<at, asked>>
pathVars == <<open, st, videoOn, lock, repVars, tunVars, gfxVars, capVars, caller, threadVars>>

Threads == {"stream", "capture"}

Components == <<"decoder", "video renderer", "egl renderer", "clock", "scheduler">>

PathInit ==
    /\ open = 0 /\ st = "null" /\ videoOn = FALSE /\ lock = "free"
    /\ decoderReady = FALSE /\ outChanged = TRUE /\ frameSize = FALSE
    /\ tunClock = FALSE /\ tunDec = FALSE /\ tunSched = FALSE
    /\ decTunnel = "none" /\ schedTunnel = "none"
    /\ rend = "vid" /\ useGfx = FALSE /\ image = FALSE /\ eglBuffer = "none"
    /\ captureRef = FALSE /\ quit = TRUE /\ newFrame = FALSE
    /\ caller = "idle"
    /\ at = [stream |-> "idle", capture |-> "none"] /\ asked = [t \in Threads |-> FALSE]

Goes(t, place) == at' = [at EXCEPT ![t] = place]

\* A request is done with.
Dispatches(t) == Goes(t, "dispatch") /\ asked' = [asked EXCEPT ![t] = FALSE]

\* A signal that finds nobody waiting is lost.
WakeCapture == IF at["capture"] = "wait" THEN Goes("capture", "woken") ELSE UNCHANGED at

\* gst_westeros_sink_soc_setup_tunnel: what there is afterwards.
SetUpTunnel(made) == {made, "failed"}

-----------------------------------------------------------------------------
(* gst_westeros_sink_soc_get_component gets a handle and disables the component's
   ports; null_to_ready stops at the first component it does not get.          *)
GetComponents(n) ==
    /\ caller = "idle" /\ st = "null"
    /\ n \in open..Len(Components)
    /\ open' = n
    /\ st' = IF n = Len(Components) THEN "ready" ELSE "null"
    /\ UNCHANGED <<videoOn, lock, repVars, tunVars, gfxVars, capVars, caller, threadVars>>

(* The clock drives the scheduler from here on.                                *)
PathReadyToPaused ==
    /\ caller = "idle" /\ st = "ready" /\ at["stream"] = "idle"
    /\ tunClock' = TRUE
    /\ videoOn' = TRUE /\ st' = "running"
    /\ UNCHANGED <<open, lock, repVars, tunDec, tunSched, decTunnel, schedTunnel, gfxVars, capVars, caller, threadVars>>

(* gst_westeros_sink_soc_flush, and PAUSED_TO_PLAYING after it.                *)
Interrupt == caller = "idle" /\ st = "running" /\ videoOn' = FALSE
             /\ UNCHANGED <<open, st, lock, repVars, tunVars, gfxVars, capVars, caller, threadVars>>
Resume == caller = "idle" /\ st = "running" /\ lock = "free" /\ videoOn' = TRUE
          /\ UNCHANGED <<open, st, lock, repVars, tunVars, gfxVars, capVars, caller, threadVars>>

(* gst_westeros_sink_soc_paused_to_ready: the reports are forgotten, the capture
   thread is told to quit and joined, with the lock given up for that, and the
   tunnels that the flags tell of are taken down.                              *)
StopReports ==
    /\ caller = "idle" /\ st = "running"
    /\ videoOn' = FALSE /\ decoderReady' = FALSE
    /\ caller' = "capture"
    /\ UNCHANGED <<open, st, lock, outChanged, frameSize, tunVars, gfxVars, capVars, threadVars>>

StopCapture ==
    /\ caller = "capture" /\ lock = "free"
    /\ IF captureRef THEN quit' = TRUE /\ caller' = "signal" ELSE caller' = "tunnels" /\ UNCHANGED quit
    /\ UNCHANGED <<open, st, videoOn, lock, repVars, tunVars, gfxVars, captureRef, newFrame, threadVars>>

SignalCapture ==
    /\ caller = "signal"
    /\ WakeCapture
    /\ caller' = "join"
    /\ UNCHANGED <<open, st, videoOn, lock, repVars, tunVars, gfxVars, capVars, asked>>

JoinCapture ==
    /\ caller = "join" /\ at["capture"] = "ended" /\ lock = "free"
    /\ Goes("capture", "none") /\ captureRef' = FALSE
    /\ caller' = "tunnels"
    /\ UNCHANGED <<open, st, videoOn, lock, repVars, tunVars, gfxVars, quit, newFrame, asked>>

TunnelDecDown ==
    /\ caller = "tunnels"
    /\ eglBuffer' = "none"
    /\ decTunnel' = IF tunDec THEN "none" ELSE decTunnel
    /\ tunDec' = FALSE
    /\ caller' = "renderer"
    /\ UNCHANGED <<open, st, videoOn, lock, repVars, tunClock, tunSched, schedTunnel, rend, useGfx, image, capVars, threadVars>>

TunnelSchedDown ==
    /\ caller = "renderer"
    /\ schedTunnel' = IF tunSched THEN "none" ELSE schedTunnel
    /\ tunSched' = FALSE /\ tunClock' = FALSE
    /\ st' = "ready" /\ caller' = "idle"
    /\ UNCHANGED <<open, videoOn, lock, repVars, tunDec, decTunnel, gfxVars, capVars, threadVars>>

(* gst_westeros_sink_soc_ready_to_null frees the handles.                      *)
FreeComponents ==
    /\ caller = "idle" /\ st = "ready" /\ at["stream"] = "idle"
    /\ videoOn' = FALSE /\ open' = 0 /\ st' = "null"
    /\ UNCHANGED <<lock, repVars, tunVars, gfxVars, capVars, caller, threadVars>>

-----------------------------------------------------------------------------
(* gst_westeros_sink_soc_render.  A format that changed disables the decoder's
   output, and the tunnels count as gone; when the decoder's port cannot be read
   the function returns with the lock held.                                    *)
FormatNews == (decoderReady /\ ~tunSched) \/ (tunSched /\ outChanged)

RenderBegins ==
    /\ at["stream"] = "idle" /\ st # "null" /\ videoOn /\ lock = "free"
    /\ \/ /\ FormatNews
          /\ frameSize' = TRUE /\ outChanged' = FALSE /\ tunSched' = FALSE
          /\ lock' = "stream" /\ Goes("stream", "decoder")
       \/ /\ FormatNews
          /\ lock' = "leaked"
          /\ UNCHANGED <<frameSize, outChanged, tunSched, at>>
       \/ /\ ~FormatNews
          /\ lock' = "stream" /\ Goes("stream", "decoder")
          /\ UNCHANGED <<frameSize, outChanged, tunSched>>
    /\ UNCHANGED <<open, st, videoOn, decoderReady, tunClock, tunDec, decTunnel, schedTunnel, gfxVars, capVars, caller, asked>>

RenderJoinsDecoder ==
    /\ at["stream"] = "decoder"
    /\ IF decoderReady /\ ~tunSched
       THEN decTunnel' \in SetUpTunnel("made") /\ tunDec' = TRUE /\ Goes("stream", "renderer")
       ELSE Goes("stream", "unlock") /\ UNCHANGED <<decTunnel, tunDec>>
    /\ UNCHANGED <<open, st, videoOn, lock, repVars, tunClock, tunSched, schedTunnel, gfxVars, capVars, caller, asked>>

(* Then to the renderer.  Before that schedReady is waited for, which the scheduler
   reports, but not longer than two seconds, and nothing else looks at it.      *)
RenderJoinsRenderer ==
    /\ at["stream"] = "renderer"
    /\ schedTunnel' \in SetUpTunnel(rend) /\ tunSched' = TRUE
    /\ Goes("stream", "unlock")
    /\ UNCHANGED <<open, st, videoOn, lock, repVars, tunClock, tunDec, decTunnel, gfxVars, capVars, caller, asked>>

RenderUnlocks ==
    /\ at["stream"] = "unlock"
    /\ lock' = "free" /\ Goes("stream", "frame")
    /\ UNCHANGED <<open, st, videoOn, repVars, tunVars, gfxVars, capVars, caller, asked>>

(* processFrame has the lock for a moment, to look for a change of the window, and
   gives the frame to the decoder when it has it no longer.                     *)
FrameBegins ==
    /\ at["stream"] = "frame"
    /\ IF videoOn THEN lock = "free" /\ Goes("stream", "give") ELSE Goes("stream", "dispatch")
    /\ UNCHANGED <<open, st, videoOn, lock, repVars, tunVars, gfxVars, capVars, caller, asked>>

FrameGiven ==
    /\ at["stream"] = "give"
    /\ Goes("stream", "dispatch")
    /\ UNCHANGED <<open, st, videoOn, lock, repVars, tunVars, gfxVars, capVars, caller, asked>>

-----------------------------------------------------------------------------
(* The requests of the compositor that have arrived, by whichever thread dispatches. *)
NoRequest(t) ==
    /\ at[t] = "dispatch"
    /\ Goes(t, IF t = "stream" THEN "idle" ELSE "look")
    /\ UNCHANGED <<open, st, videoOn, lock, repVars, tunVars, gfxVars, capVars, caller, asked>>

(* gst_westeros_sink_soc_set_video_path reads useGfxPath, stores the new value, and
   acts if it is another; without a frame size the graphics path is noted and
   nothing else.  What it does at its end is to dispatch again.                 *)
PathAsked(t, gfx) ==
    /\ at[t] = "dispatch"
    /\ asked' = [asked EXCEPT ![t] = gfx]
    /\ Goes(t, IF gfx = useGfx THEN "same" ELSE "other")
    /\ UNCHANGED <<open, st, videoOn, lock, repVars, tunVars, gfxVars, capVars, caller>>

SetVideoPath(t) ==
    /\ at[t] \in {"same", "other"}
    /\ useGfx' = asked[t]
    /\ IF at[t] = "other" /\ (asked[t] => frameSize) THEN Goes(t, "transition") /\ UNCHANGED asked
       ELSE Dispatches(t)
    /\ UNCHANGED <<open, st, videoOn, lock, repVars, tunVars, rend, image, eglBuffer, capVars, caller>>

(* transitionToRenderer, with the lock.  First the capture thread.             *)
StartCapture(t) ==
    /\ at[t] = "transition" /\ lock = "free"
    /\ lock' = t
    /\ IF asked[t] /\ ~captureRef
       THEN quit' = FALSE /\ captureRef' = TRUE /\ at' = [at EXCEPT ![t] = "switch", !["capture"] = "setup"]
       ELSE Goes(t, "switch") /\ UNCHANGED <<quit, captureRef>>
    /\ UNCHANGED <<open, st, videoOn, repVars, tunVars, gfxVars, newFrame, caller, asked>>

(* Then the scheduler's output leaves its renderer, unless soc.rend says that it
   goes to the right one,                                                      *)
LeaveRenderer(t) ==
    LET to == IF asked[t] THEN "egl" ELSE "vid" IN
    /\ at[t] = "switch"
    /\ IF rend = to
       THEN lock' = "free" /\ Dispatches(t) /\ UNCHANGED <<rend, schedTunnel, tunSched>>
       ELSE /\ rend' = to /\ schedTunnel' = "none" /\ tunSched' = FALSE
            /\ Goes(t, "between") /\ UNCHANGED <<lock, asked>>
    /\ UNCHANGED <<open, st, videoOn, repVars, tunClock, tunDec, decTunnel, useGfx, image, eglBuffer, capVars, caller>>

(* and is led to the one that soc.rend names by then; the texture is given to it
   once, which may fail.                                                       *)
JoinRenderer(t) ==
    /\ at[t] = "between"
    /\ schedTunnel' \in SetUpTunnel(rend) /\ tunSched' = TRUE
    /\ \/ eglBuffer' = eglBuffer
       \/ asked[t] /\ eglBuffer = "none" /\ eglBuffer' = IF image THEN "image" ELSE "noimage"
    /\ lock' = "free" /\ Dispatches(t)
    /\ UNCHANGED <<open, st, videoOn, repVars, tunClock, tunDec, decTunnel, rend, useGfx, image, capVars, caller>>

-----------------------------------------------------------------------------
DecoderReportsOnce ==
    /\ st = "running"
    /\ decoderReady' = TRUE
    /\ UNCHANGED <<open, st, videoOn, lock, outChanged, frameSize, tunVars, gfxVars, capVars, caller, threadVars>>

(* omxEventHandler and omxFillBufferDone.                                      *)
DecoderReports ==
    /\ st = "running"
    /\ decoderReady' = TRUE /\ outChanged' = TRUE
    /\ UNCHANGED <<open, st, videoOn, lock, frameSize, tunVars, gfxVars, capVars, caller, threadVars>>

FillBufferDone ==
    /\ eglBuffer # "none" /\ schedTunnel = "egl" /\ decTunnel = "made"
    /\ newFrame' = TRUE
    /\ WakeCapture
    /\ UNCHANGED <<open, st, videoOn, lock, repVars, tunVars, gfxVars, captureRef, quit, caller, asked>>

-----------------------------------------------------------------------------
(* The capture thread.  setupGfx, which may fail, also stores the renderer; what
   it looks at before it waits may have changed when it waits.                 *)
SetupGfx ==
    /\ at["capture"] = "setup"
    /\ \/ image' = TRUE /\ rend' = "egl"
       \/ UNCHANGED <<image, rend>>
    /\ Goes("capture", "look")
    /\ UNCHANGED <<open, st, videoOn, lock, repVars, tunVars, useGfx, eglBuffer, capVars, caller, asked>>

CaptureLooks ==
    /\ at["capture"] = "look"
    /\ Goes("capture", IF quit THEN "ended" ELSE "wait")
    /\ image' = (image /\ ~quit)
    /\ UNCHANGED <<open, st, videoOn, lock, repVars, tunVars, rend, useGfx, eglBuffer, capVars, caller, asked>>

\* A picture that was drawn is followed by the requests of the compositor.
DrawImage ==
    /\ at["capture"] = "woken"
    /\ IF useGfx /\ newFrame THEN newFrame' = FALSE /\ Goes("capture", "dispatch")
       ELSE Goes("capture", "look") /\ UNCHANGED newFrame
    /\ UNCHANGED <<open, st, videoOn, lock, repVars, tunVars, gfxVars, captureRef, quit, caller, asked>>

PathNext ==
    \/ \E n \in 0..Len(Components) : GetComponents(n)
    \/ PathReadyToPaused \/ Interrupt \/ Resume
    \/ StopReports \/ StopCapture \/ SignalCapture \/ JoinCapture
    \/ TunnelDecDown \/ TunnelSchedDown \/ FreeComponents
    \/ RenderBegins \/ RenderJoinsDecoder \/ RenderJoinsRenderer \/ RenderUnlocks
    \/ FrameBegins \/ FrameGiven
    \/ \E t \in Threads :
          \/ NoRequest(t) \/ SetVideoPath(t)
          \/ \E gfx \in BOOLEAN : PathAsked(t, gfx)
          \/ StartCapture(t) \/ LeaveRenderer(t) \/ JoinRenderer(t)
    \/ DecoderReports \/ FillBufferDone
    \/ SetupGfx \/ CaptureLooks \/ DrawImage

-----------------------------------------------------------------------------
\* The streaming thread gives a frame to a decoder whose format is known and handled.
GivesFrame == at["stream"] = "give" /\ decoderReady /\ st = "running" /\ ~outChanged

(* A frame that is given to a decoder whose format is known finds that the whole
   path has been set up, whatever was stopped, switched and reported before, with
   flags that a stop or a switch leaves set for one tunnel and clear for the other.
   Only while the capture thread is between two renderers does it end at the
   scheduler.                                                                  *)
FrameHasPath ==
    GivesFrame =>
        /\ decTunnel # "none"
        /\ schedTunnel # "none" \/ at["capture"] = "between"

(* Not claimed, and not so: the capture thread does not switch under a frame.  The
   frame is given without the lock that a switch is made under.                 *)
FrameMeetsNoSwitch == GivesFrame => at["capture"] # "between"

(* Nor this: a tunnel that the flags tell of is there.  OMX_SetupTunnel may have
   failed, and the flag is set all the same.                                    *)
FlagsTellTrue == (tunDec => decTunnel = "made") /\ (tunSched => schedTunnel # "failed")

(* Nor this: the scheduler's output goes to the renderer soc.rend names.  setupGfx
   may store it before transitionToRenderer compares, and then nothing is switched. *)
RendererIsTunnelled == tunSched /\ at["stream"] = "idle" => schedTunnel \in {rend, "failed"}
=============================================================================

----------------------------- MODULE NexusCapture -----------------------------
(* westeros-sink on a Nexus platform (brcm/westeros-sink/westeros-sink-soc.c): the
   capture of decoded frames into surfaces, which a capture thread takes from the
   decoder, shows through wl_sb buffers and gives back.

   The application's thread changes the element's state, flushes and sets
   properties, one thing at a time; a segment comes on the streaming thread; the
   capture thread runs its loop and, inside it, the listeners of the Wayland
   connection.  mutex is held where LOCK and UNLOCK enclose an action.

   The decoder and the compositor are external: the decoder writes only to surfaces
   it has been given with StartCapture or by recycling, and captures nothing after
   a flush until a segment, nor while the video does not play.                  *)
EXTENDS FiniteSets

CONSTANTS Surface  \* captureSurface

VARIABLES
    nxState,     \* the element's state
    nxApp,       \* the application's thread: "idle", "join", "flush" or "drop"
    nxThread,    \* position of the capture thread
    nxLocal,     \* its copies of videoPlaying and eosDetected, whether segmentNumber is
                 \* still what it has read, and the surface it has taken, if any
    captureThread, quitCaptureThread, captureEnabled, videoPlaying, videoStarted,
    startAfterLink, nxFlushStarted, nxEosDetected,
    size,        \* of the capture surfaces: as asked for, another, or "none" as long as
                 \* there are none
    dec,         \* where the decoder has each surface: "none", "free", "queued" or "out"
    shown,       \* surfaces in buffers that the compositor has not released
    lost,        \* surfaces the sink has forgotten to give back
    stale,       \* surfaces with a frame that a flush has made stale (history)
    disturbed,   \* surfaces have been replaced or handed out again while they were in
                 \* use, or the video started after a stop: nothing is claimed (history)
    staleShown,  \* a stale frame has been shown (history)
    twice        \* a surface has been given back that the decoder had (history)

nxFlags == <<captureThread, quitCaptureThread, captureEnabled, videoPlaying, videoStarted,
             startAfterLink, nxFlushStarted, nxEosDetected>>
nxFrames == <<dec, shown, lost, stale>>
mishaps == <<disturbed, staleShown, twice>>
nxVars == <<nxState, nxApp, nxThread, nxLocal, nxFlags, size, nxFrames, mishaps>>

NoSurface == {}
NxOutside == [playing |-> FALSE, eos |-> FALSE, current |-> TRUE, taken |-> NoSurface]

\* gst_westeros_sink_soc_init
NxInit ==
    /\ nxState = "null" /\ nxApp = "idle" /\ nxThread = "none" /\ nxLocal = NxOutside
    /\ captureThread = FALSE /\ quitCaptureThread = TRUE /\ captureEnabled = FALSE
    /\ videoPlaying = FALSE /\ videoStarted = FALSE /\ startAfterLink = FALSE
    /\ nxFlushStarted = FALSE /\ nxEosDetected = FALSE
    /\ size = "none" /\ dec = [s \in Surface |-> "none"]
    /\ shown = {} /\ lost = {} /\ stale = {}
    /\ disturbed = FALSE /\ staleShown = FALSE /\ twice = FALSE

NxAppFree == nxApp = "idle"
Out == {s \in Surface : dec[s] = "out"}

\* allocCaptureSurfaces: a new size replaces all surfaces, whoever has the old ones, by
\* others or, without the memory for them, by none.
AllocCaptureSurfaces ==
    /\ size' \in IF size = "asked" THEN {"asked"} ELSE {"asked", "none"}
    /\ disturbed' = (disturbed \/ (size = "other" /\ (captureEnabled \/ Out # {})))

\* queryPeerHandles: without a peer, or without all of its answers, nothing is allocated.
QueryPeerHandles == AllocCaptureSurfaces \/ UNCHANGED <<size, disturbed>>

-----------------------------------------------------------------------------
(* The element's states *)

NxNullToReady ==
    /\ NxAppFree /\ nxState = "null"
    /\ nxEosDetected' = FALSE
    /\ nxState' \in {"null", "ready"}
    /\ UNCHANGED <<nxApp, nxThread, nxLocal, captureThread, quitCaptureThread, captureEnabled, videoPlaying,
                   videoStarted, startAfterLink, nxFlushStarted, size, nxFrames, mishaps>>

NxReadyToPaused ==
    /\ NxAppFree /\ nxState = "ready"
    /\ nxState' = "paused"
    /\ QueryPeerHandles
    /\ UNCHANGED <<nxApp, nxThread, nxLocal, nxFlags, nxFrames, staleShown, twice>>

\* gst_westeros_sink_soc_start_video, past queryPeerHandles and the calls of the decoder
\* that may fail.  A capture thread that is there is used again.
StartVideo ==
    /\ quitCaptureThread' = FALSE
    /\ captureThread' = TRUE
    /\ nxThread' = IF captureThread THEN nxThread ELSE "begin"
    /\ videoStarted' = TRUE
NothingStarts == UNCHANGED <<quitCaptureThread, captureThread, nxThread, videoStarted>>

\* The video starts; it plays already, or a call of the decoder fails; or its channel or its
\* codec is not known, and a link has to start it.
NxPausedToPlaying ==
    /\ NxAppFree /\ nxState = "paused"
    /\ nxState' = "playing"
    /\ videoPlaying' = TRUE
    /\ QueryPeerHandles
    /\ \/ ~videoStarted /\ StartVideo /\ UNCHANGED startAfterLink
       \/ NothingStarts /\ startAfterLink' \in {startAfterLink, TRUE}
    /\ UNCHANGED <<nxApp, nxLocal, captureEnabled, nxFlushStarted, nxEosDetected, nxFrames, staleShown, twice>>

\* gst_westeros_sink_link: the start that had to wait for a peer, in whatever state.
Link ==
    /\ NxAppFree /\ startAfterLink /\ nxState \notin {"null", "gone"}
    /\ startAfterLink' = FALSE
    /\ \/ QueryPeerHandles /\ nxState # "ready" /\ StartVideo
       \/ nxState = "ready" /\ StartVideo /\ disturbed' = TRUE /\ size' \in {size, "asked"}
       \/ QueryPeerHandles /\ NothingStarts
    /\ UNCHANGED <<nxState, nxApp, nxLocal, captureEnabled, videoPlaying, nxFlushStarted, nxEosDetected, nxFrames,
                   staleShown, twice>>

NxPlayingToPaused ==
    /\ NxAppFree /\ nxState = "playing"
    /\ nxState' = "paused"
    /\ videoPlaying' = FALSE
    /\ UNCHANGED <<nxApp, nxThread, nxLocal, captureThread, quitCaptureThread, captureEnabled, videoStarted,
                   startAfterLink, nxFlushStarted, nxEosDetected, size, nxFrames, mishaps>>

NxPausedToReady ==
    /\ NxAppFree /\ nxState = "paused"
    /\ nxEosDetected' = FALSE
    /\ quitCaptureThread' = (quitCaptureThread \/ captureThread)
    /\ nxApp' = "join"
    /\ UNCHANGED <<nxState, nxThread, nxLocal, captureThread, captureEnabled, videoPlaying, videoStarted,
                   startAfterLink, nxFlushStarted, size, nxFrames, mishaps>>

\* Variant: the thread is not joined.
NxStopsUnjoined ==
    /\ nxApp = "join"
    /\ nxApp' = "idle" /\ nxState' = "ready"
    /\ videoStarted' = FALSE
    /\ UNCHANGED <<nxThread, nxLocal, captureThread, quitCaptureThread, captureEnabled, videoPlaying,
                   startAfterLink, nxFlushStarted, nxEosDetected, size, nxFrames, mishaps>>

\* The thread has been joined, or there was none.
NxStops ==
    /\ nxApp = "join" /\ nxThread = "none"
    /\ nxApp' = "idle" /\ nxState' = "ready"
    /\ videoStarted' = FALSE
    /\ UNCHANGED <<nxThread, nxLocal, captureThread, quitCaptureThread, captureEnabled, videoPlaying,
                   startAfterLink, nxFlushStarted, nxEosDetected, size, nxFrames, mishaps>>

\* The surfaces, the decoder and the connection are released, and the sink is over.
NxReadyToNull ==
    /\ NxAppFree /\ nxState = "ready"
    /\ nxState' = "gone"
    /\ dec' = [s \in Surface |-> "none"]
    /\ shown' = {} /\ lost' = {} /\ stale' = {}
    /\ UNCHANGED <<nxApp, nxThread, nxLocal, nxFlags, size, mishaps>>

\* capture-size
SetCaptureSize ==
    /\ NxAppFree /\ size = "asked"
    /\ size' = "other"
    /\ UNCHANGED <<nxState, nxApp, nxThread, nxLocal, nxFlags, nxFrames, mishaps>>

\* server-play-speed, and the rate of a segment while the video does not play: the
\* decoder is stopped until the element plays again.
SetPlaySpeed ==
    /\ nxApp # "join" /\ videoStarted
    /\ videoStarted' = FALSE
    /\ UNCHANGED <<nxState, nxApp, nxThread, nxLocal, captureThread, quitCaptureThread, captureEnabled, videoPlaying,
                   startAfterLink, nxFlushStarted, nxEosDetected, size, nxFrames, mishaps>>

-----------------------------------------------------------------------------
(* Flushes and segments *)

NxFlushStart ==
    /\ NxAppFree /\ nxState \in {"paused", "playing"}
    /\ nxFlushStarted' = TRUE
    /\ nxApp' = "flush"
    /\ UNCHANGED <<nxState, nxThread, nxLocal, captureThread, quitCaptureThread, captureEnabled, videoPlaying,
                   videoStarted, startAfterLink, nxEosDetected, size, nxFrames, mishaps>>

\* gst_westeros_sink_soc_flush: the decoder is flushed, ...
NxFlush ==
    /\ nxApp = "flush"
    /\ nxApp' = IF captureThread THEN "drop" ELSE "idle"
    /\ stale' = {s \in Surface : dec[s] = "queued"} \cup nxLocal.taken
    /\ UNCHANGED <<nxState, nxThread, nxLocal, nxFlags, size, dec, shown, lost, mishaps>>

\* ... and the frames captured before are given back, those that the capture thread has
\* not taken meanwhile.
NxFlushDrops ==
    /\ nxApp = "drop"
    /\ \/ \E s \in Surface : dec[s] = "queued" /\ dec' = [dec EXCEPT ![s] = "free"] /\ UNCHANGED nxApp
       \/ (\A s \in Surface : dec[s] # "queued") /\ nxApp' = "idle" /\ UNCHANGED dec
    /\ UNCHANGED <<nxState, nxThread, nxLocal, nxFlags, size, shown, lost, stale, mishaps>>

\* Only a segment of time that does not begin at zero as the one before is counted; after
\* another the sink cannot tell a frame from before the flush from one after it.
NxSegment(counted) ==
    /\ nxState \in {"paused", "playing"} /\ nxApp \notin {"flush", "drop", "join"}
    /\ nxFlushStarted' = FALSE
    /\ nxLocal' = IF counted THEN [nxLocal EXCEPT !.current = FALSE] ELSE nxLocal
    /\ nxEosDetected' = (nxEosDetected /\ ~counted)
    /\ stale' = IF nxFlushStarted /\ ~counted THEN {} ELSE stale
    /\ UNCHANGED <<nxState, nxApp, nxThread, captureThread, quitCaptureThread, captureEnabled, videoPlaying,
                   videoStarted, startAfterLink, size, dec, shown, lost, mishaps>>

\* gst_westeros_sink_render
NxRender ==
    /\ nxState \in {"paused", "playing"} /\ nxEosDetected
    /\ nxEosDetected' = FALSE
    /\ UNCHANGED <<nxState, nxApp, nxThread, nxLocal, captureThread, quitCaptureThread, captureEnabled, videoPlaying,
                   videoStarted, startAfterLink, nxFlushStarted, size, nxFrames, mishaps>>

-----------------------------------------------------------------------------
(* gst_westeros_sink_soc_set_video_path, on the capture thread.  StartCapture hands the
   decoder every surface, those too that the compositor still shows; when it fails the
   capture counts as enabled all the same.                                      *)
NxSetVideoPath(useGfxPath) ==
    /\ captureEnabled' = useGfxPath
    /\ \/ /\ useGfxPath /\ ~captureEnabled
          /\ dec' = [s \in Surface |-> IF size = "none" THEN "none" ELSE "free"]
          /\ disturbed' = (disturbed \/ Out # {})
       \/ useGfxPath /\ UNCHANGED <<dec, disturbed>>
       \/ /\ ~useGfxPath
          /\ dec' = [s \in Surface |-> IF captureEnabled /\ dec[s] # "out" THEN "none" ELSE dec[s]]
          /\ UNCHANGED disturbed
    /\ UNCHANGED <<staleShown, twice>>

Step(from, to) == nxThread = from /\ nxThread' = to

\* WESTEROS_SINK_USE_GFX begins with the capture.
ThreadStarts ==
    /\ Step("begin", "top")
    /\ \/ NxSetVideoPath(TRUE)
       \/ UNCHANGED <<captureEnabled, dec, mishaps>>
    /\ UNCHANGED <<nxState, nxApp, nxLocal, captureThread, quitCaptureThread, videoPlaying, videoStarted,
                   startAfterLink, nxFlushStarted, nxEosDetected, size, shown, lost, stale>>

LoopTop ==
    /\ nxThread = "top"
    /\ nxThread' = IF quitCaptureThread THEN "end" ELSE "work"
    /\ nxLocal' = [nxLocal EXCEPT !.playing = videoPlaying, !.eos = nxEosDetected]
    /\ UNCHANGED <<nxState, nxApp, nxFlags, size, nxFrames, mishaps>>

\* Nothing to do, or no frames to look for (the window is hidden).
LoopWork ==
    /\ nxThread = "work"
    /\ \/ captureEnabled /\ nxLocal.playing /\ ~nxLocal.eos /\ nxThread' = "process"
       \/ nxThread' = "dispatch"
    /\ nxLocal' = NxOutside
    /\ UNCHANGED <<nxState, nxApp, nxFlags, size, nxFrames, mishaps>>

\* updateVideoStatus, with no frame for too long.
StatusDetectsEos ==
    /\ Step("work", "dispatch") /\ ~captureEnabled /\ nxLocal.playing /\ ~nxLocal.eos
    /\ nxEosDetected' = TRUE
    /\ nxLocal' = NxOutside
    /\ UNCHANGED <<nxState, nxApp, captureThread, quitCaptureThread, captureEnabled, videoPlaying,
                   videoStarted, startAfterLink, nxFlushStarted, size, nxFrames, mishaps>>

ProcessFrame ==
    /\ Step("process", "get")
    /\ nxLocal' = [nxLocal EXCEPT !.playing = videoPlaying, !.eos = nxEosDetected, !.current = TRUE]
    /\ IF size = "none" THEN AllocCaptureSurfaces ELSE UNCHANGED <<size, disturbed>>
    /\ UNCHANGED <<nxState, nxApp, nxFlags, nxFrames, staleShown, twice>>

GetFrame(s) ==
    /\ nxThread = "get" /\ dec[s] = "queued"
    /\ dec' = [dec EXCEPT ![s] = "out"]
    /\ \/ nxThread' = "check" /\ nxLocal' = [nxLocal EXCEPT !.taken = {s}] /\ UNCHANGED lost
       \/ lost' = lost \cup {s} /\ UNCHANGED <<nxThread, nxLocal>>   \* no memory for bufferInfo
    /\ UNCHANGED <<nxState, nxApp, nxFlags, size, shown, stale, mishaps>>

\* Without a frame the loop is left only when the copies say that frames are due:
\* otherwise it goes on looking.
GetNothing ==
    /\ Step("get", "dispatch") /\ \A s \in Surface : dec[s] # "queued"
    /\ ~nxLocal.eos /\ nxLocal.playing
    /\ \/ nxEosDetected' = TRUE
       \/ UNCHANGED nxEosDetected
    /\ nxLocal' = NxOutside
    /\ UNCHANGED <<nxState, nxApp, captureThread, quitCaptureThread, captureEnabled, videoPlaying,
                   videoStarted, startAfterLink, nxFlushStarted, size, nxFrames, mishaps>>

\* Under the mutex: a frame from before a flush or a segment is given back; one from
\* before the segment's start is not.
PassFrame(fresh) ==
    /\ nxThread = "check"
    /\ IF ~fresh
       THEN /\ nxThread' = "dispatch"
            /\ dec' = [s \in Surface |-> IF s \in nxLocal.taken THEN "free" ELSE dec[s]]
            /\ nxLocal' = NxOutside
            /\ UNCHANGED <<lost, staleShown>>
       ELSE \/ /\ nxThread' = "show"
               /\ staleShown' = (staleShown \/ nxLocal.taken \subseteq stale)
               /\ UNCHANGED <<dec, nxLocal, lost>>
            \/ /\ nxThread' = "dispatch"
               /\ lost' = lost \cup nxLocal.taken
               /\ nxLocal' = NxOutside
               /\ UNCHANGED <<dec, staleShown>>
    /\ UNCHANGED <<nxState, nxApp, nxFlags, size, shown, stale, disturbed, twice>>

\* Variant: the number of the segment is not compared.
CheckFrameFlushOnly == PassFrame(~nxFlushStarted)

CheckFrame == PassFrame(~nxFlushStarted /\ nxLocal.current)

\* Without wl_sb the surface is not given back.
ShowFrame ==
    /\ Step("show", "get")
    /\ \/ shown' = shown \cup nxLocal.taken /\ UNCHANGED lost
       \/ lost' = lost \cup nxLocal.taken /\ UNCHANGED shown
    /\ nxLocal' = [nxLocal EXCEPT !.taken = NoSurface]
    /\ UNCHANGED <<nxState, nxApp, nxFlags, size, dec, stale, mishaps>>

\* The connection's listeners: buffer_release, and the change of the video path.
BufferRelease(s) ==
    /\ nxThread = "dispatch" /\ s \in shown
    /\ shown' = shown \ {s}
    /\ twice' = (twice \/ (dec[s] # "out" /\ ~disturbed))
    /\ dec' = [dec EXCEPT ![s] = IF captureEnabled THEN "free" ELSE "none"]
    /\ UNCHANGED <<nxState, nxApp, nxThread, nxLocal, nxFlags, size, lost, stale, disturbed, staleShown>>

VideoPathChange(useGfxPath) ==
    /\ nxThread = "dispatch"
    /\ NxSetVideoPath(useGfxPath)
    /\ UNCHANGED <<nxState, nxApp, nxThread, nxLocal, captureThread, quitCaptureThread, videoPlaying, videoStarted,
                   startAfterLink, nxFlushStarted, nxEosDetected, size, shown, lost, stale>>

LoopAgain ==
    /\ Step("dispatch", "top")
    /\ UNCHANGED <<nxState, nxApp, nxLocal, nxFlags, size, nxFrames, mishaps>>

ThreadStopsCapture ==
    /\ Step("end", "leave")
    /\ captureEnabled' = FALSE
    /\ dec' = [s \in Surface |-> IF dec[s] = "out" THEN "out" ELSE "none"]
    /\ UNCHANGED <<nxState, nxApp, nxLocal, captureThread, quitCaptureThread, videoPlaying, videoStarted,
                   startAfterLink, nxFlushStarted, nxEosDetected, size, shown, lost, stale, mishaps>>

ThreadLeaves ==
    /\ Step("leave", "none")
    /\ captureThread' = FALSE
    /\ nxLocal' = NxOutside
    /\ UNCHANGED <<nxState, nxApp, quitCaptureThread, captureEnabled, videoPlaying, videoStarted,
                   startAfterLink, nxFlushStarted, nxEosDetected, size, nxFrames, mishaps>>

-----------------------------------------------------------------------------
\* The decoder writes a frame into a surface it has.
DecoderCaptures(s) ==
    /\ captureEnabled /\ videoStarted /\ videoPlaying /\ ~nxFlushStarted /\ dec[s] = "free"
    /\ dec' = [dec EXCEPT ![s] = "queued"]
    /\ stale' = stale \ {s}
    /\ UNCHANGED <<nxState, nxApp, nxThread, nxLocal, nxFlags, size, shown, lost, mishaps>>

NxNext ==
    /\ nxState # "gone"
    /\ \/ NxNullToReady \/ NxReadyToPaused \/ NxPausedToPlaying \/ Link \/ NxPlayingToPaused
       \/ NxPausedToReady \/ NxStops \/ NxReadyToNull \/ SetCaptureSize \/ SetPlaySpeed
       \/ NxFlushStart \/ NxFlush \/ NxFlushDrops \/ NxRender
       \/ \E b \in BOOLEAN : NxSegment(b) \/ VideoPathChange(b)
       \/ ThreadStarts \/ LoopTop \/ LoopWork \/ StatusDetectsEos \/ ProcessFrame
       \/ GetNothing \/ CheckFrame \/ ShowFrame \/ LoopAgain \/ ThreadStopsCapture \/ ThreadLeaves
       \/ \E s \in Surface : GetFrame(s) \/ BufferRelease(s) \/ DecoderCaptures(s)

NxSpec == NxInit /\ [][NxNext]_nxVars

-----------------------------------------------------------------------------
(* A surface is with the decoder, in the capture thread's hands, or with the compositor,
   and nowhere twice, over flushes, segments, stops and changes of the path; one that
   has been taken and is nowhere has been lost in one of three places of processFrame
   that forget it.                                                              *)
EachSurfaceOnce ==
    ~disturbed => /\ Out = nxLocal.taken \cup shown \cup lost
                  /\ nxLocal.taken \cap shown = {} /\ lost \cap (nxLocal.taken \cup shown) = {}
                  /\ ~twice

(* A frame that the capture thread held during a flush is not shown after the segment that
   ends it: gst_westeros_sink_event and processFrame compare under the mutex.   *)
NoStaleFrame == ~staleShown

(* The decoder and the surfaces are not released under the capture thread, unless a link
   has started the video of an element that had been stopped.                   *)
ReleasedAfterThread == nxState = "gone" /\ ~disturbed => nxThread = "none"

FramesCaptured == EachSurfaceOnce /\ NoStaleFrame /\ ReleasedAfterThread

(* Not so: pause the element between the loop's copy of videoPlaying and that of
   processFrame, and processFrame looks for a frame for ever; the stop that follows
   joins the thread.                                                            *)
StopReturns ==
    ~(/\ nxApp = "join" /\ nxThread = "get" /\ ~(nxLocal.playing /\ ~nxLocal.eos)
      /\ \A s \in Surface : dec[s] # "queued")
=============================================================================

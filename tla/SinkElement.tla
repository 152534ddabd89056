----------------------------- MODULE SinkElement -----------------------------
(* The GStreamer element of westeros-sink (westeros-sink/westeros-sink.c) on the
   Raspberry Pi: its states, the events of its pad, and the end of the stream,
   which is posted when the end-of-stream event has come down the pipeline and
   the decoder has met the end of the data, in whichever order.

   The application's thread changes the state and sends FLUSH_START; it does one
   thing at a time.  Events that travel with the data, and the data, come on the
   streaming thread.  The decoder reports on a thread of its own.  The pipeline
   stops its streaming thread between PAUSED_TO_READY of the sink and the next
   change of its state: GStreamer does so for the elements before the sink.     *)
EXTENDS RpiBuffers

VARIABLES
    loaded,          \* gst_westeros_sink_soc_init found the platform's libraries
    initialized,     \* gst_westeros_sink_term has not run
    active,          \* the pad has been activated: data and events may come
    eosEventSeen, eosDetected, flushStarted,
    startPTS,        \* startPTS # 0
    omx,             \* the decoder's thread: "idle", or "post" past eos_detected's lock
    answered         \* the end of the stream has been posted since both flags are set

elementVars == <<loaded, initialized, active, eosEventSeen, eosDetected, flushStarted, startPTS,
                 omx, answered>>
sinkVars == <<state, bufVars, stream, app, crashed, elementVars>>

SinkInit ==
    /\ state = "null" /\ BuffersInit /\ stream = Outside /\ app = "idle" /\ crashed = "no"
    /\ loaded \in BOOLEAN /\ initialized = TRUE /\ active = FALSE
    /\ eosEventSeen = FALSE /\ eosDetected = FALSE /\ flushStarted = FALSE /\ startPTS = FALSE
    /\ omx = "idle" /\ answered = FALSE

(* The lock of the sink, which a segment keeps while the decoder is flushed.   *)
Locked == stream.pc = "segment"
AppFree == app = "idle" /\ crashed = "no"
StreamFree == stream.pc = "idle" /\ active /\ crashed = "no"

ClearEos == eosEventSeen' = FALSE /\ eosDetected' = FALSE /\ answered' = FALSE

-----------------------------------------------------------------------------
(* gst_westeros_sink_change_state.  An element whose platform was never
   loaded, or is gone since it was in NULL before, calls functions that are not
   there.                                                                      *)
NullToReady ==
    /\ AppFree /\ state = "null"
    /\ ClearEos
    /\ IF loaded /\ initialized
       THEN state' \in {"null", "ready"} /\ UNCHANGED crashed
       ELSE Crash("a platform that is not there") /\ UNCHANGED state
    /\ UNCHANGED <<bufVars, stream, app, loaded, initialized, active, flushStarted, startPTS, omx>>

(* A decoder that still has buffers of the last time has given them back by now. *)
ReadyToPaused(k, ok) ==
    /\ AppFree /\ state = "ready" /\ stream.pc = "idle" /\ decoder = {}
    /\ BuffersSetUp(k, ok)
    /\ state' = IF ok THEN "paused" ELSE "ready"
    /\ active' = (active \/ ok)
    /\ UNCHANGED <<stream, app, loaded, initialized, eosEventSeen, eosDetected, flushStarted, startPTS,
                   omx, answered>>

PausedToPlaying ==
    /\ AppFree /\ state = "paused" /\ ~Locked
    /\ playing' = TRUE
    /\ state' = "playing"
    /\ UNCHANGED <<semActive, sem, pool, hasArray, decoder, eosQueued, freeing, spoiled, stream, app, crashed,
                   loaded, initialized, active, eosEventSeen, eosDetected, flushStarted, startPTS,
                   omx, answered>>

PlayingToPaused ==
    /\ AppFree /\ state = "playing" /\ ~Locked
    /\ state' = "paused"
    /\ UNCHANGED <<bufVars, stream, app, crashed, loaded, initialized, active, eosEventSeen, eosDetected,
                   flushStarted, startPTS, omx, answered>>

PausedToReady ==
    /\ AppFree /\ state = "paused"
    /\ ClearEos
    /\ app' = "stop"
    /\ UNCHANGED <<state, bufVars, stream, crashed, loaded, initialized, active, flushStarted, startPTS, omx>>

ReadyToNull ==
    /\ AppFree /\ state = "ready" /\ stream.pc = "idle" /\ omx = "idle"
    /\ playing' = FALSE
    /\ initialized' = FALSE /\ active' = FALSE
    /\ state' = "null"
    /\ UNCHANGED <<semActive, sem, pool, hasArray, decoder, eosQueued, freeing, spoiled, stream, app, crashed,
                   loaded, eosEventSeen, eosDetected, flushStarted, startPTS, omx, answered>>

-----------------------------------------------------------------------------
(* gst_westeros_sink_event.  Only a segment ends flushStarted.                 *)
FlushStart ==
    /\ AppFree /\ state \in {"paused", "playing"} /\ ~Locked /\ sem < MaxTokens
    /\ flushStarted' = TRUE
    /\ app' = "flush"
    /\ UNCHANGED <<state, bufVars, stream, crashed, loaded, initialized, active, eosEventSeen, eosDetected,
                   startPTS, omx, answered>>

EosEventWithoutPost ==
    /\ StreamFree
    /\ eosEventSeen' = TRUE
    /\ stream' = At("eos")
    /\ UNCHANGED <<state, bufVars, app, crashed, loaded, initialized, active, eosDetected, flushStarted, startPTS,
                   omx, answered>>

(* Both flags are looked at and set under one lock: whichever thread is second
   posts.  The streaming thread then hands the decoder its last buffer.        *)
EosEvent ==
    /\ StreamFree
    /\ eosEventSeen' = TRUE
    /\ stream' = [Outside EXCEPT !.pc = IF eosDetected THEN "post" ELSE "eos"]
    /\ UNCHANGED <<state, bufVars, app, crashed, loaded, initialized, active, eosDetected, flushStarted, startPTS,
                   omx, answered>>

EosEventPosts ==
    /\ stream.pc = "post"
    /\ answered' = (eosEventSeen /\ eosDetected)
    /\ stream' = At("eos")
    /\ UNCHANGED <<state, bufVars, app, crashed, loaded, initialized, active, eosEventSeen, eosDetected,
                   flushStarted, startPTS, omx>>

EosEventToDecoder ==
    /\ stream.pc = "eos"
    /\ BeginEos
    /\ UNCHANGED <<state, bufVars, app, crashed, elementVars>>

(* A segment begins a stream only when it is in time and does not start at zero
   as the one before; otherwise the flags of the old stream stay.              *)
Segment(time, start) ==
    /\ StreamFree
    /\ flushStarted' = FALSE
    /\ IF time /\ (start \/ startPTS)
       THEN ClearEos /\ startPTS' = start /\ stream' = [Outside EXCEPT !.pc = "segment"]
       ELSE UNCHANGED <<eosEventSeen, eosDetected, answered, startPTS, stream>>
    /\ UNCHANGED <<state, bufVars, app, crashed, loaded, initialized, active, omx>>

(* gst_westeros_sink_soc_set_startPTS, still under the lock.                   *)
SegmentFlushed ==
    /\ stream.pc = "segment"
    /\ DecoderIdle
    /\ stream' = Outside
    /\ UNCHANGED <<state, playing, semActive, sem, pool, hasArray, decoder, freeing, spoiled, app, crashed, elementVars>>

(* gst_westeros_sink_render: data that comes means the decoder is not at its end. *)
Render ==
    /\ StreamFree
    /\ eosDetected' = FALSE /\ answered' = FALSE
    /\ BeginFrame(flushStarted)
    /\ UNCHANGED <<state, bufVars, app, crashed, loaded, initialized, active, eosEventSeen, flushStarted, startPTS, omx>>

-----------------------------------------------------------------------------
(* gst_westeros_sink_eos_detected, for the flag on a buffer the decoder met.   *)
EosDetected ==
    /\ crashed = "no" /\ omx = "idle" /\ eosQueued /\ initialized /\ ~Locked
    /\ eosDetected' = TRUE
    /\ omx' = IF eosEventSeen THEN "post" ELSE "idle"
    /\ UNCHANGED <<state, bufVars, stream, app, crashed, loaded, initialized, active, eosEventSeen, flushStarted,
                   startPTS, answered>>

EosDetectedPosts ==
    /\ omx = "post"
    /\ answered' = (eosEventSeen /\ eosDetected)
    /\ omx' = "idle"
    /\ UNCHANGED <<state, bufVars, stream, app, crashed, loaded, initialized, active, eosEventSeen, eosDetected,
                   flushStarted, startPTS>>

BuffersNext ==
    /\ crashed = "no"
    /\ \/ Try \/ Look \/ Pop
       \/ \E more \in BOOLEAN : Fill(more)
       \/ \E b \in Buffer : EmptyBufferDone(b)
       \/ FlushClear \/ FlushPost
       \/ StopClear \/ StopPost \/ StopIdle \/ FreeNext \/ FreeEnds \/ StopCloses
    /\ UNCHANGED elementVars

SinkNext ==
    \/ BuffersNext
    \/ NullToReady \/ PausedToPlaying \/ PlayingToPaused \/ PausedToReady \/ ReadyToNull
    \/ \E k \in 0..Capacity, ok \in BOOLEAN : ReadyToPaused(k, ok)
    \/ FlushStart
    \/ EosEvent \/ EosEventPosts \/ EosEventToDecoder
    \/ \E time, start \in BOOLEAN : Segment(time, start)
    \/ SegmentFlushed \/ Render
    \/ EosDetected \/ EosDetectedPosts

SinkSpec == SinkInit /\ [][SinkNext]_sinkVars

-----------------------------------------------------------------------------
PostPending == app \in {"flushPost", "stopPost"}
Tokens == sem + (IF stream.token THEN 1 ELSE 0) + (IF PostPending THEN 1 ELSE 0)

(* A buffer in the pool can always be taken: the semaphore has a token for each,
   although a streaming thread that is interrupted drops the one it took, and an
   interruption with nobody to interrupt leaves one too many.  With a token too
   few the stream would stall with buffers at hand.                            *)
TokensCoverPool == semActive /\ crashed = "no" => Tokens >= Len(pool)

(* gst_westeros_sink_soc_paused_to_ready frees the array when the decoder and the
   streaming thread have given back every buffer: none comes back to no array.
   Not claimed when it gave up waiting, or when a buffer was being taken.      *)
BuffersHavePool == (decoder # {} \/ stream.buff # 0) => hasArray \/ spoiled

(* No buffer is in two of the pool, the decoder and the streaming thread's hand, or
   in the pool twice: what the decoder reads is not filled.                    *)
PoolApart ==
    /\ \A i, j \in 1..Len(pool) : pool[i] = pool[j] => i = j
    /\ \A i \in 1..Len(pool) : pool[i] \notin decoder /\ pool[i] # stream.buff
    /\ stream.buff \notin decoder

(* The buffers, their tokens and their array agree, whatever the three threads do
   between two of the steps of a flush, of a stop or of a frame.               *)
BuffersAccounted == TokensCoverPool /\ BuffersHavePool /\ PoolApart

(* When the event has been seen and the end detected, the end of the stream has
   been posted, or one of the two threads is on its way to post it.            *)
EosNotLost == eosEventSeen /\ eosDetected => answered \/ stream.pc = "post" \/ omx = "post"
=============================================================================

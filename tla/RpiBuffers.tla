----------------------------- MODULE RpiBuffers -----------------------------
(* The decoder's input buffers in the Raspberry Pi part of westeros-sink
   (rpi/westeros-sink/westeros-sink-soc.c).  Three threads share them: the
   streaming thread takes a buffer, fills it and hands it to the decoder
   (processFrame, and gst_westeros_sink_soc_eos_event for the buffer with the
   end-of-stream flag), the decoder's thread returns it (omxEmptyBufferDone),
   and the application's thread makes and frees them
   (gst_westeros_sink_soc_ready_to_paused and _paused_to_ready) and interrupts
   the streaming thread (gst_westeros_sink_soc_flush).

   A buffer has a token in semInputBuffers.  The streaming thread polls for the
   token, looks at playingVideo, and only then takes a buffer under the lock of
   the platform part, so that a token may be lost and one may be posted for no
   buffer.  What follows a use of freed memory or of a null pointer is not
   modelled: crashed then says which one it was, and nothing more happens.    *)
EXTENDS Integers, SequencesExt

CONSTANTS Capacity,      \* nBufferCountActual of the decoder's input port
          MaxTokens      \* a flush is modelled while the semaphore is below this

ASSUME BuffersAssumption == Capacity \in Nat \ {0} /\ MaxTokens \in Nat

VARIABLES
    state,        \* the element's state: "null", "ready", "paused" or "playing"
    playing,      \* soc.playingVideo
    semActive,    \* soc.semInputActive
    sem,          \* the value of soc.semInputBuffers
    pool,         \* soc.inputBuffers up to soc.countInputBuffers, a stack
    hasArray,     \* soc.inputBuffers # 0
    decoder,      \* the buffers the decoder has
    eosQueued,    \* the decoder has a buffer with OMX_BUFFERFLAG_EOS, or has met it
    stream,       \* the streaming thread: where it is, for what, with a token or a buffer
    app,          \* where the application's thread is in a call
    freeing,      \* buffers freed so far by gst_westeros_sink_soc_paused_to_ready
    spoiled,      \* the pool was taken down against a buffer that was on its way
    crashed

bufVars == <<playing, semActive, sem, pool, hasArray, decoder, eosQueued, freeing, spoiled>>

Buffer == 1..Capacity
Outside == [pc |-> "idle", kind |-> "none", token |-> FALSE, buff |-> 0]
At(pc) == [stream EXCEPT !.pc = pc]
InLoop == stream.pc \in {"try", "look", "pop", "fill"}
Crash(why) == crashed' = why

BuffersInit ==
    /\ playing = FALSE /\ semActive = FALSE /\ sem = 0 /\ pool = <<>> /\ hasArray = FALSE
    /\ decoder = {} /\ eosQueued = FALSE /\ freeing = 0 /\ spoiled = FALSE

-----------------------------------------------------------------------------
(* The streaming thread.  Try is sem_trywait: without an active semaphore a
   frame is given up, while the loop for the end of stream does not ask.      *)
Try ==
    /\ stream.pc = "try"
    /\ \/ /\ stream.kind = "frame" /\ ~semActive
          /\ stream' = Outside /\ UNCHANGED sem
       \/ /\ semActive /\ sem > 0
          /\ sem' = sem - 1
          /\ stream' = [At("look") EXCEPT !.token = TRUE]
       \/ /\ IF semActive THEN sem = 0 ELSE stream.kind = "eos"
          /\ stream' = [At("look") EXCEPT !.token = FALSE]
          /\ UNCHANGED sem
    /\ UNCHANGED <<state, playing, semActive, pool, hasArray, decoder, eosQueued, app, freeing, spoiled, crashed>>

(* playingVideo is read without a lock.  A token taken before is not put back. *)
Look ==
    /\ stream.pc = "look"
    /\ stream' = IF ~playing THEN Outside
                 ELSE IF stream.token THEN At("pop")
                 ELSE At("try")
    /\ UNCHANGED <<state, bufVars, app, crashed>>

(* A token without a buffer sends a frame back to the loop; the end of stream
   uses the buffer it has not got.                                             *)
Pop ==
    /\ stream.pc = "pop"
    /\ \/ /\ pool # <<>>
          /\ pool' = Front(pool)
          /\ stream' = [At("fill") EXCEPT !.token = FALSE, !.buff = Last(pool)]
          /\ UNCHANGED crashed
       \/ /\ pool = <<>> /\ stream.kind = "frame"
          /\ stream' = [At("try") EXCEPT !.token = FALSE]
          /\ UNCHANGED <<pool, crashed>>
       \/ /\ pool = <<>> /\ stream.kind = "eos"
          /\ Crash("no buffer for the end of stream")
          /\ UNCHANGED <<pool, stream>>
    /\ UNCHANGED <<state, playing, semActive, sem, hasArray, decoder, eosQueued, app, freeing, spoiled>>

(* OMX_EmptyThisBuffer, and the next buffer when the frame needs another one.  A
   buffer the decoder does not take is in nobody's hands from then on, and the
   frame, or the mark of the stream's end, is given up.                        *)
Fill(more) ==
    /\ stream.pc = "fill"
    /\ more => stream.kind = "frame"
    /\ \/ /\ decoder' = decoder \cup {stream.buff}
          /\ eosQueued' = (eosQueued \/ stream.kind = "eos")
          /\ stream' = IF more THEN [At("try") EXCEPT !.buff = 0] ELSE Outside
       \/ stream' = Outside /\ UNCHANGED <<decoder, eosQueued>>
    /\ UNCHANGED <<state, playing, semActive, sem, pool, hasArray, app, freeing, spoiled, crashed>>

(* What the streaming thread is asked to do, when it is not busy.             *)
BeginFrame(flushStarted) ==
    stream' = IF playing /\ ~flushStarted THEN [Outside EXCEPT !.pc = "try", !.kind = "frame"] ELSE Outside

BeginEos == stream' = IF playing /\ semActive THEN [Outside EXCEPT !.pc = "try", !.kind = "eos"] ELSE Outside

-----------------------------------------------------------------------------
(* The decoder returns a buffer, in any order.                                *)
EmptyBufferDone(b) ==
    /\ b \in decoder
    /\ decoder' = decoder \ {b}
    /\ IF hasArray
       THEN pool' = Append(pool, b) /\ sem' = sem + 1 /\ UNCHANGED crashed
       ELSE Crash("a buffer returned to no array") /\ UNCHANGED <<pool, sem>>
    /\ UNCHANGED <<state, playing, semActive, hasArray, eosQueued, stream, app, freeing, spoiled>>

(* flushComponents: the decoder goes through the idle state, in which it has
   returned every buffer and forgotten the end of the stream.                  *)
DecoderIdle == decoder = {} /\ eosQueued' = FALSE

-----------------------------------------------------------------------------
FlushPostNothing ==
    /\ app = "flushPost"
    /\ app' = "idle"
    /\ UNCHANGED <<state, bufVars, stream, crashed>>

(* The application's thread.  The two stores of gst_westeros_sink_soc_flush are
   under a lock that the streaming thread's look at playingVideo does not take. *)
FlushClear ==
    /\ app = "flush"
    /\ playing' = FALSE
    /\ app' = "flushPost"
    /\ UNCHANGED <<state, semActive, sem, pool, hasArray, decoder, eosQueued, stream, freeing, spoiled, crashed>>

FlushPost ==
    /\ app = "flushPost"
    /\ sem' = sem + 1
    /\ app' = "idle"
    /\ UNCHANGED <<state, playing, semActive, pool, hasArray, decoder, eosQueued, stream, freeing, spoiled, crashed>>

(* gst_westeros_sink_soc_ready_to_paused: the array is made once, the buffers
   are added to what an earlier attempt that failed has left in it.            *)
BuffersSetUp(k, ok) ==
    /\ ok => k = Capacity
    /\ sem' = Capacity /\ semActive' = TRUE /\ hasArray' = TRUE
    /\ IF Len(pool) + k > Capacity
       THEN Crash("more buffers than the array holds") /\ UNCHANGED <<pool, playing>>
       ELSE /\ pool' = pool \o [i \in 1..k |-> Len(pool) + i]
            /\ playing' = (ok \/ playing)
            /\ UNCHANGED crashed
    /\ spoiled' = FALSE
    /\ UNCHANGED <<decoder, eosQueued, freeing>>

(* gst_westeros_sink_soc_paused_to_ready.                                     *)
StopClear ==
    /\ app = "stop"
    /\ playing' = FALSE
    /\ spoiled' = (stream.pc = "pop")
    /\ app' = "stopPost"
    /\ UNCHANGED <<state, semActive, sem, pool, hasArray, decoder, eosQueued, stream, freeing, crashed>>

StopPost ==
    /\ app = "stopPost"
    /\ sem' = sem + 1
    /\ app' = "stopIdle"
    /\ UNCHANGED <<state, playing, semActive, pool, hasArray, decoder, eosQueued, stream, freeing, spoiled, crashed>>

StopIdle ==
    /\ app = "stopIdle"
    /\ DecoderIdle
    /\ app' = "free"
    /\ UNCHANGED <<state, playing, semActive, sem, pool, hasArray, decoder, stream, freeing, spoiled, crashed>>

FreeNext ==
    /\ app = "free" /\ freeing < Len(pool)
    /\ freeing' = freeing + 1
    /\ UNCHANGED <<state, playing, semActive, sem, pool, hasArray, decoder, eosQueued, stream, app, spoiled, crashed>>

(* Every buffer in the array is freed: wait for those that are still out, for
   a thousand looks, and give up on them after that.                           *)
FreeEnds ==
    /\ app = "free" /\ freeing >= Len(pool)
    /\ spoiled' = (spoiled \/ Len(pool) # Capacity)
    /\ app' = "close"
    /\ UNCHANGED <<state, playing, semActive, sem, pool, hasArray, decoder, eosQueued, stream, freeing, crashed>>

StopCloses ==
    /\ app = "close"
    /\ pool' = <<>> /\ hasArray' = FALSE /\ semActive' = FALSE /\ sem' = 0 /\ freeing' = 0
    /\ state' = "ready"
    /\ app' = "idle"
    /\ UNCHANGED <<playing, decoder, eosQueued, stream, spoiled, crashed>>
=============================================================================

----------------------------- MODULE MediaCapture -----------------------------
(* The capture of a pipeline's media to a file or to an HTTP endpoint
   (tools/mediacapture/mediacapture.cpp), built with rtRemote.  The calls of an
   application come on the api thread; the pads of the sources are probed on their
   streaming threads, which write what they see to a ring; the post thread, inside
   curl_easy_perform, reads the ring.  ctx->mutex is held while data is written and
   while a capture is stopped: hold says by whom, and where it is.

   The two waits for the ring test nothing after they have unlocked emitMutex: a
   signal sent before the wait begins is lost.  What follows a use of something that
   was freed, or a start before the last capture is over, is not modelled: broken
   then says what it was.                                                        *)
EXTENDS Naturals, Sequences

CONSTANTS Sources,        \* the sources a pipeline may have
          Capacity,       \* emitCapacity
          ReadLen,        \* what curl asks for in one call of postReadCallback
          Lens,           \* lengths of what a probe or a flush may emit
          MaxData,        \* bytes are offered while there were fewer of them
          MaxCaptures     \* captures that are started

ASSUME CaptureAssumption ==
    /\ Capacity \in Nat \ {0} /\ ReadLen \in Nat \ {0} /\ MaxData \in Nat /\ MaxCaptures \in Nat
    /\ Lens \subseteq Nat

VARIABLES
    ctx,              \* "none", "listed" in gContextList, "unlisted" while it is destroyed, "freed"
    apiThread,        \* "none", "created", "running", "ended"
    srcList, canCapture,
    pc,               \* where each caller is, outside of ctx->mutex
    hold,             \* who has ctx->mutex, at which step, with how much left to emit, and then
    toProbe, probes,  \* the sources a start still has to probe; those with a probe
    captureActive, captureToFile, pCaptureFile, captureCompleteSent,
    ring,             \* emitBuffer: buf, head, tail, count and whether it is there
    post,             \* the post thread: where it is and what the callback has read
    postThreadStarted, postThreadStopRequested, postThreadAborted,
    offered, posted,  \* how much was offered since the start; what curl got
    captures, completes, \* captures started, completes told of the last
    unjoined,         \* a stop found postThreadStarted not set and did not join
    broken

controlVars == <<ctx, apiThread, srcList, canCapture>>
flagVars == <<toProbe, probes, captureActive, captureToFile, pCaptureFile, captureCompleteSent>>
postVars == <<post, postThreadStarted, postThreadStopRequested, postThreadAborted>>
logVars == <<offered, posted, captures, completes, unjoined>>
capVars == <<controlVars, pc, hold, flagVars, ring, postVars, logVars, broken>>

Callers == Sources \cup {"api", "app"}
Free == [by |-> "nobody", at |-> "none", left |-> 0, then |-> "none"]
Unbroken == broken = "no"
Idle(t) == pc[t] = "idle" /\ Unbroken
Reads == [at |-> "none", got |-> <<>>]
Posting(at) == post.at = at /\ Unbroken
NoRing == [buf |-> [i \in 0..Capacity-1 |-> 0], head |-> 0, tail |-> 0, count |-> 0, there |-> FALSE]

CapInit ==
    /\ ctx = "none" /\ apiThread = "none" /\ srcList = {} /\ canCapture = FALSE
    /\ pc = [t \in Callers |-> "idle"] /\ hold = Free
    /\ toProbe = {} /\ probes = {} /\ captureActive = FALSE /\ captureToFile = FALSE /\ pCaptureFile = FALSE /\ captureCompleteSent = FALSE
    /\ ring = NoRing /\ post = Reads
    /\ postThreadStarted = FALSE /\ postThreadStopRequested = FALSE /\ postThreadAborted = FALSE
    /\ offered = 0 /\ posted = <<>> /\ captures = 0 /\ completes = 0 /\ unjoined = FALSE
    /\ broken = "no"

CapCrash(why) == broken' = why /\ UNCHANGED <<controlVars, pc, hold, flagVars, ring, postVars, logVars>>

-----------------------------------------------------------------------------
(* The context and its api thread.                                             *)
CreateContext ==
    /\ ctx = "none" /\ Unbroken
    /\ ctx' = "listed" /\ apiThread' = "created" /\ srcList' \in SUBSET Sources
    /\ UNCHANGED <<canCapture, pc, hold, flagVars, ring, postVars, logVars, broken>>

ApiThread ==
    /\ Unbroken /\ apiThread = "created"
    /\ IF ctx = "freed" THEN broken' = "context freed under the api thread" /\ UNCHANGED apiThread
       ELSE apiThread' \in {"running", "ended"} /\ UNCHANGED broken
    /\ UNCHANGED <<ctx, srcList, canCapture, pc, hold, flagVars, ring, postVars, logVars>>

DestroyContext ==
    /\ ctx = "listed" /\ Idle("app")
    /\ ctx' = "unlisted"
    /\ pc' = [pc EXCEPT !["app"] = IF captureActive THEN "stop" ELSE "idle"]
    /\ UNCHANGED <<apiThread, srcList, canCapture, hold, flagVars, ring, postVars, logVars, broken>>

(* The sources, the tables and ctx->mutex go first, then the api thread is joined
   if it has said it is there.                                                  *)
FreeSources ==
    /\ ctx = "unlisted" /\ Idle("app")
    /\ IF hold # Free \/ captureActive \/ \E t \in Callers : pc[t] # "idle"
       THEN CapCrash("sources freed in use")
       ELSE /\ ctx' = "freed" /\ srcList' = {}
            /\ apiThread' = IF apiThread = "running" THEN "ended" ELSE apiThread
            /\ UNCHANGED <<canCapture, pc, hold, flagVars, ring, postVars, logVars, broken>>

-----------------------------------------------------------------------------
(* captureMediaSample and captureMediaStart; a context that is not listed, busy or
   has no source to capture only gets an answer.                                *)
PrepareForCapture == canCapture' = (canCapture \/ srcList # {})

StartFlags(toFile) ==
    /\ captureToFile' = toFile /\ captureCompleteSent' = FALSE /\ completes' = 0
    /\ captures' = captures + 1 /\ offered' = 0 /\ posted' = <<>> /\ unjoined' = FALSE

(* startCapture up to the probes.  A start whose file or endpoint is not there
   leaves captureActive as it was.                                              *)
PrepareEndpoint ==
    /\ ring' = [NoRing EXCEPT !.there = TRUE]
    /\ post' = [Reads EXCEPT !.at = "created"]
    /\ postThreadStopRequested' = FALSE /\ postThreadAborted' = FALSE

StartCapture(toFile) ==
    /\ ctx = "listed" /\ apiThread = "running" /\ Idle("api") /\ ~captureActive /\ captures < MaxCaptures
    /\ PrepareForCapture /\ canCapture'
    /\ IF hold # Free \/ post # Reads \/ \E t \in Callers : pc[t] # "idle"
       THEN broken' = "started before the last was over" /\ UNCHANGED <<pc, flagVars, ring, postVars, logVars>>
       ELSE /\ StartFlags(toFile)
            /\ \/ /\ pc' = [pc EXCEPT !["api"] = "prepared"]
                  /\ pCaptureFile' = toFile /\ toProbe' = srcList
                  /\ IF toFile THEN UNCHANGED <<ring, post, postThreadStopRequested, postThreadAborted>> ELSE PrepareEndpoint
               \/ UNCHANGED <<pc, pCaptureFile, toProbe, ring, post, postThreadStopRequested, postThreadAborted>>
            /\ UNCHANGED <<probes, captureActive, postThreadStarted, broken>>
    /\ UNCHANGED <<ctx, apiThread, srcList, hold>>

AddProbe(s) ==
    /\ pc["api"] = "prepared" /\ Unbroken /\ s \in toProbe
    /\ toProbe' = toProbe \ {s} /\ probes' = probes \cup {s}
    /\ UNCHANGED <<controlVars, pc, hold, captureActive, captureToFile, pCaptureFile, captureCompleteSent,
                   ring, postVars, logVars, broken>>

(* A probe that ran before this has been removed again.                        *)
Activate ==
    /\ pc["api"] = "prepared" /\ Unbroken /\ toProbe = {}
    /\ captureActive' = TRUE
    /\ pc' = [pc EXCEPT !["api"] = "idle"]
    /\ UNCHANGED <<controlVars, hold, toProbe, probes, captureToFile, pCaptureFile, captureCompleteSent,
                   ring, postVars, logVars, broken>>

(* captureMediaStop does nothing for a capture to a file, or while the post thread
   has not begun or has ended.                                                  *)
CaptureMediaStop ==
    /\ ctx = "listed" /\ apiThread = "running" /\ Idle("api") /\ captureActive /\ postThreadStarted
    /\ pc' = [pc EXCEPT !["api"] = "stop"]
    /\ UNCHANGED <<controlVars, hold, flagVars, ring, postVars, logVars, broken>>

-----------------------------------------------------------------------------
(* captureProbe.                                                               *)
ProbeRemoves(s) ==
    /\ Idle(s) /\ s \in probes /\ ~captureActive
    /\ probes' = probes \ {s}
    /\ UNCHANGED <<controlVars, pc, hold, toProbe, captureActive, captureToFile, pCaptureFile, captureCompleteSent,
                   ring, postVars, logVars, broken>>

ProbeBuffer(s) ==
    /\ Idle(s) /\ s \in probes /\ captureActive
    /\ pc' = [pc EXCEPT ![s] = "process"]
    /\ UNCHANGED <<controlVars, hold, flagVars, ring, postVars, logVars, broken>>

(* An end of stream, or a buffer at which the capture has lasted long enough.   *)
ProbeStops(s) ==
    /\ \/ Idle(s) /\ s \in probes /\ captureActive
       \/ pc[s] = "processed" /\ Unbroken
    /\ probes' = probes \ {s}
    /\ pc' = [pc EXCEPT ![s] = "stop"]
    /\ UNCHANGED <<controlVars, hold, toProbe, captureActive, captureToFile, pCaptureFile, captureCompleteSent,
                   ring, postVars, logVars, broken>>

ProbeReturns(s) ==
    /\ pc[s] = "processed" /\ Unbroken
    /\ pc' = [pc EXCEPT ![s] = "idle"]
    /\ UNCHANGED <<controlVars, hold, flagVars, ring, postVars, logVars, broken>>

-----------------------------------------------------------------------------
(* emitCaptureData, by whoever has ctx->mutex.                                 *)
Emitting(at) == hold.at = at /\ Unbroken
CanEmit == ~postThreadStopRequested /\ ~postThreadAborted
Emit(t, n, then) ==
    /\ offered' = offered + n
    /\ hold' = [by |-> t, at |-> IF n = 0 \/ (~captureToFile /\ ~CanEmit) THEN then ELSE "copy", left |-> n, then |-> then]

ProcessCaptureData(t) ==
    /\ pc[t] = "process" /\ hold = Free /\ Unbroken
    /\ pc' = [pc EXCEPT ![t] = "processing"]
    /\ \E n \in Lens :
          /\ offered + n <= MaxData
          /\ Emit(t, IF captureToFile /\ ~pCaptureFile THEN 0 ELSE n, "unlock")
    /\ UNCHANGED <<controlVars, flagVars, ring, postVars, posted, captures, completes, unjoined, broken>>

WriteFile ==
    /\ Emitting("copy") /\ captureToFile
    /\ IF pCaptureFile
       THEN hold' = [hold EXCEPT !.at = hold.then, !.left = 0] /\ UNCHANGED broken
       ELSE broken' = "written to no file" /\ UNCHANGED hold
    /\ UNCHANGED <<controlVars, pc, flagVars, ring, postVars, logVars>>

(* One memcpy into the ring at its head, or out of it at its tail; what does not fit
   before the end of the buffer follows at its beginning.                       *)
Least(a, b) == IF a < b THEN a ELSE b
Wrap(i) == IF i >= Capacity THEN 0 ELSE i

RoomForOneMore(r) == Capacity - r.count + 1
Room(r) == Capacity - r.count

PutRun(r, first, n) ==
    LET k == Least(n, IF r.head >= r.tail THEN Capacity - r.head ELSE r.tail - r.head) IN
    [r EXCEPT !.buf = [i \in DOMAIN @ |-> IF i \in r.head..r.head+k-1 THEN first + (i - r.head) ELSE @[i]],
              !.head = Wrap(@ + k), !.count = @ + k]

TakeRun(r, n) == Least(n, IF r.head > r.tail THEN r.head - r.tail ELSE Capacity - r.tail)
BytesAt(r, k) == [i \in 1..k |-> r.buf[r.tail + i - 1]]
Dropped(r, k) == [r EXCEPT !.tail = Wrap(@ + k), !.count = @ - k]

NotifyNotEmpty == post' = IF post.at = "wait" THEN [post EXCEPT !.at = "woken"] ELSE post
NotifyNotFull == hold' = IF hold.at = "wait" THEN [hold EXCEPT !.at = "woken"] ELSE hold

CopyIn ==
    /\ Emitting("copy") /\ ~captureToFile
    /\ IF ~ring.there THEN CapCrash("ring used after it was freed")
       ELSE LET n == Least(hold.left, Room(ring))
                first == offered - hold.left + 1
                r == PutRun(ring, first, n)
                k == r.count - ring.count
            IN  /\ ring' = PutRun(r, first + k, n - k)
                /\ hold' = [hold EXCEPT !.at = "signal", !.left = @ - n]
                /\ UNCHANGED <<controlVars, pc, flagVars, postVars, logVars, broken>>

SignalNotEmpty ==
    /\ Emitting("signal")
    /\ NotifyNotEmpty
    /\ hold' = [hold EXCEPT !.at = IF hold.left = 0 THEN hold.then ELSE "full"]
    /\ UNCHANGED <<controlVars, pc, flagVars, ring, postThreadStarted, postThreadStopRequested, postThreadAborted, logVars, broken>>

WaitNotFull ==
    /\ Emitting("full")
    /\ hold' = [hold EXCEPT !.at = "wait"]
    /\ UNCHANGED <<controlVars, pc, flagVars, ring, postVars, logVars, broken>>

(* After POST_TIMEOUT the socket is shut down.                                 *)
WaitTimesOut ==
    /\ Emitting("wait")
    /\ postThreadStopRequested' = TRUE
    /\ hold' = [hold EXCEPT !.at = "woken"]
    /\ UNCHANGED <<controlVars, pc, flagVars, ring, post, postThreadStarted, postThreadAborted, logVars, broken>>

EmitWoken ==
    /\ Emitting("woken")
    /\ hold' = IF CanEmit THEN [hold EXCEPT !.at = "copy"] ELSE [hold EXCEPT !.at = "signal", !.left = 0]
    /\ UNCHANGED <<controlVars, pc, flagVars, ring, postVars, logVars, broken>>

Unlock ==
    /\ Emitting("unlock")
    /\ hold' = Free
    /\ pc' = [pc EXCEPT ![hold.by] = IF @ = "processing" THEN "processed" ELSE "idle"]
    /\ UNCHANGED <<controlVars, flagVars, ring, postVars, logVars, broken>>

-----------------------------------------------------------------------------
(* stopCapture.  It may be called again for the same capture, by the thread of
   another source that met its end.                                             *)
StopBegin(t) ==
    /\ pc[t] = "stop" /\ hold = Free /\ Unbroken
    /\ captureActive' = FALSE /\ probes' = {}
    /\ pc' = [pc EXCEPT ![t] = "stopping"]
    /\ \E n \in IF captureToFile /\ ~pCaptureFile THEN {0} ELSE Lens : offered + n <= MaxData /\ Emit(t, n, "close")
    /\ UNCHANGED <<controlVars, toProbe, captureToFile, pCaptureFile, captureCompleteSent, ring, postVars,
                   posted, captures, completes, unjoined, broken>>

CloseFile ==
    /\ Emitting("close") /\ captureToFile
    /\ pCaptureFile' = FALSE /\ completes' = completes + 1
    /\ hold' = [hold EXCEPT !.at = "unlock"]
    /\ UNCHANGED <<controlVars, pc, toProbe, probes, captureActive, captureToFile, captureCompleteSent, ring, postVars,
                   offered, posted, captures, unjoined, broken>>

RequestPostStop ==
    /\ Emitting("close") /\ ~captureToFile
    /\ IF postThreadStarted
       THEN postThreadStopRequested' = TRUE /\ hold' = [hold EXCEPT !.at = "awaken"] /\ UNCHANGED unjoined
       ELSE unjoined' = TRUE /\ hold' = [hold EXCEPT !.at = "report"] /\ UNCHANGED postThreadStopRequested
    /\ UNCHANGED <<controlVars, pc, flagVars, ring, post, postThreadStarted, postThreadAborted,
                   offered, posted, captures, completes, broken>>

AwakenPost ==
    /\ Emitting("awaken")
    /\ NotifyNotEmpty
    /\ hold' = [hold EXCEPT !.at = "join"]
    /\ UNCHANGED <<controlVars, pc, flagVars, ring, postThreadStarted, postThreadStopRequested, postThreadAborted, logVars, broken>>

JoinPost == Emitting("join") /\ post = Reads

JoinPostThread ==
    /\ JoinPost
    /\ hold' = [hold EXCEPT !.at = "report"]
    /\ UNCHANGED <<controlVars, pc, flagVars, ring, postVars, logVars, broken>>

CompleteAlways == captureCompleteSent' = TRUE /\ completes' = completes + 1
Complete == captureCompleteSent' = TRUE /\ completes' = IF captureCompleteSent THEN completes ELSE completes + 1

ReleaseEndpoint ==
    /\ Emitting("report")
    /\ Complete
    /\ ring' = NoRing
    /\ broken' = IF post.at \in {"none", "ending"} THEN "no" ELSE "curl freed under the post thread"
    /\ hold' = [hold EXCEPT !.at = "unlock"]
    /\ UNCHANGED <<controlVars, pc, toProbe, probes, captureActive, captureToFile, pCaptureFile, postVars,
                   offered, posted, captures, unjoined>>

-----------------------------------------------------------------------------
(* The post thread: curl calls postReadCallback until it has a failure, an answer
   of the endpoint, or no more data.                                            *)
PostThread ==
    /\ Posting("created")
    /\ post' = [post EXCEPT !.at = "curl"] /\ postThreadStarted' = TRUE
    /\ UNCHANGED <<controlVars, pc, hold, flagVars, ring, postThreadStopRequested, postThreadAborted, logVars, broken>>

ReadCallback ==
    /\ Posting("curl")
    /\ post' = [at |-> IF postThreadStopRequested THEN "ending" ELSE "copy", got |-> <<>>]
    /\ UNCHANGED <<controlVars, pc, hold, flagVars, ring, postThreadStarted, postThreadStopRequested, postThreadAborted, logVars, broken>>

CopyOut ==
    /\ Posting("copy")
    /\ LET n == Least(ReadLen - Len(post.got), ring.count)
           k == TakeRun(ring, n)
           r == Dropped(ring, k)
           l == TakeRun(r, n - k)
           got == post.got \o BytesAt(ring, k) \o BytesAt(r, l)
       IN  /\ ring' = Dropped(r, l)
           /\ post' = [at |-> IF Len(got) < ReadLen THEN "empty" ELSE "return", got |-> got]
    /\ UNCHANGED <<controlVars, pc, hold, flagVars, postThreadStarted, postThreadStopRequested, postThreadAborted, logVars, broken>>

WaitNotEmpty ==
    /\ Posting("empty")
    /\ post' = [post EXCEPT !.at = "wait"]
    /\ UNCHANGED <<controlVars, pc, hold, flagVars, ring, postThreadStarted, postThreadStopRequested, postThreadAborted, logVars, broken>>

PostWoken ==
    /\ Posting("woken")
    /\ post' = IF postThreadStopRequested THEN [at |-> "return", got |-> <<>>] ELSE [post EXCEPT !.at = "copy"]
    /\ UNCHANGED <<controlVars, pc, hold, flagVars, ring, postThreadStarted, postThreadStopRequested, postThreadAborted, logVars, broken>>

CallbackReturns ==
    /\ Posting("return")
    /\ NotifyNotFull
    /\ posted' = posted \o post.got
    /\ post' = [at |-> IF post.got = <<>> THEN "ending" ELSE "curl", got |-> <<>>]
    /\ UNCHANGED <<controlVars, pc, flagVars, ring, postThreadStarted, postThreadStopRequested, postThreadAborted,
                   offered, captures, completes, unjoined, broken>>

(* curl_easy_perform ends by itself: it has failed, or the endpoint has answered. *)
PostEnds(failed) ==
    /\ Posting("curl")
    /\ postThreadAborted' = failed
    /\ IF failed THEN NotifyNotFull ELSE UNCHANGED hold
    /\ post' = [post EXCEPT !.at = "ending"]
    /\ UNCHANGED <<controlVars, pc, flagVars, ring, postThreadStarted, postThreadStopRequested, logVars, broken>>

PostThreadExits ==
    /\ Posting("ending")
    /\ postThreadStarted' = FALSE /\ post' = Reads
    /\ UNCHANGED <<controlVars, pc, hold, flagVars, ring, postThreadStopRequested, postThreadAborted, logVars, broken>>

-----------------------------------------------------------------------------
CapNext ==
    \/ CreateContext \/ ApiThread \/ DestroyContext \/ FreeSources
    \/ \E toFile \in BOOLEAN : StartCapture(toFile)
    \/ \E s \in Sources : AddProbe(s) \/ ProbeRemoves(s) \/ ProbeBuffer(s) \/ ProbeStops(s) \/ ProbeReturns(s)
    \/ Activate \/ CaptureMediaStop
    \/ \E t \in Callers : ProcessCaptureData(t) \/ StopBegin(t)
    \/ WriteFile \/ CopyIn \/ SignalNotEmpty \/ WaitNotFull \/ WaitTimesOut \/ EmitWoken \/ Unlock
    \/ CloseFile \/ RequestPostStop \/ AwakenPost \/ JoinPostThread \/ ReleaseEndpoint
    \/ PostThread \/ ReadCallback \/ CopyOut \/ WaitNotEmpty \/ PostWoken \/ CallbackReturns \/ PostThreadExits
    \/ \E failed \in BOOLEAN : PostEnds(failed)

CapSpec == CapInit /\ [][CapNext]_capVars

-----------------------------------------------------------------------------
(* What curl gets is what the probes offered, from the first byte on, in order and
   with none left out, over the end of the ring, full and empty rings, time-outs,
   failures and stops: emitCaptureData and postReadCallback.                    *)
PostedInOrder == \A i \in DOMAIN posted : posted[i] = i

(* A capture to an endpoint is told to be complete at most once, although each
   source that ends, a stop of the application and the end of the context all run
   stopCapture: captureCompleteSent.                                            *)
OneComplete == ~captureToFile => completes <= 1

(* When a stop has joined the post thread, neither that thread nor a probe that was
   let in before the stop uses the ring and the curl session it has freed.      *)
FreedAfterUse ==
    broken \in {"ring used after it was freed", "curl freed under the post thread"} => unjoined

(* The end of a capture, from whichever of its threads and stops it comes.      *)
EndsOnce == OneComplete /\ FreedAfterUse

(* Not so, against the comment in stopCapture, "ensure awaken from waiting not
   empty": the post thread may be about to wait when it is signalled, and the stop
   then waits for it for ever, with ctx->mutex.                                 *)
AwakenedByStop == ~(Emitting("join") /\ post.at = "wait")
=============================================================================

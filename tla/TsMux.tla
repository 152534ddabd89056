-------------------------------- MODULE TsMux --------------------------------
(* How mediacapture makes one transport stream of the buffers of a video and an
   audio source (tools/mediacapture/mediacapture.cpp, prepareForCapture to
   performEncapsulation).  A source has a packet that is being filled and an
   accumulator of whole packets.  They leave in blocks, from one buffer's time to the
   next, up to the last time that all sources have reached.

   A packet is its number among those of its source, and the time of the buffer that
   begins in it, or None.  performEncapsulation has ctx->mutex from its call to its
   return; its loops are steps of their own here, and doing is where it is.        *)
EXTENDS Integers, FiniteSetsExt, SequencesExt

CONSTANTS AccumSize,        \* packets an accumulator has room for
          PcrEvery,         \* a clock reference is due with every so many buffers of video
          PtsOffset,        \* VIDEO_PTS_PCR_OFFSET
          AudioLag,         \* VIDEO_PTS_PCR_OFFSET - AUDIO_PTS_PCR_OFFSET
          TimeRange,        \* MAX_90K + 1
          Times,            \* presentation times of buffers, as packets have them
          StopTimes,        \* times at which captures stop
          MaxBlock,         \* packets a buffer fills at most
          MaxPackets        \* packets are made of a source while there were fewer

ASSUME MuxAssumption ==
    /\ {AccumSize, PcrEvery, TimeRange, MaxBlock, MaxPackets} \subseteq Nat \ {0}
    /\ {PtsOffset, AudioLag} \subseteq Nat /\ Times \subseteq 0..TimeRange-1 /\ StopTimes \subseteq Nat

None == -1

VARIABLES
    streams, pcrPid,        \* srcList; the source whose pid has the clock, or "none"
    probed,                 \* ctx->captureActive
    captureStopTime, hitStopPoint, lastEmittedPTS,
    needEmitPATPMT, needEmitPCR,
    tracks,                 \* of each source: packet, the one being filled, <<>> when it is only
                            \*   a header; accumulator; accumTestPTS and firstBlockLen, as they
                            \*   were left when a block was chosen; bufferCount modulo PcrEvery;
                            \*   and, to compare, made and out, the packets made and emitted
    doing,                  \* "idle", "data", "emit", "clock", or "fault" past an accumulator's end
    buffer,                 \* the one being encapsulated: its source s and pts, left, the packets
                            \*   it has yet to begin, ptsLimit and nextPCR, firstPCR
    again                   \* a block of packets was emitted that was not chosen (history)

ctxVars == <<streams, pcrPid>>
stopVars == <<probed, captureStopTime>>
needVars == <<needEmitPATPMT, needEmitPCR>>
emitVars == <<hitStopPoint, lastEmittedPTS>>
muxVars == <<ctxVars, stopVars, needVars, emitVars, tracks, doing, buffer, again>>

Kinds == {"video", "audio"}
NoBuffer == [s |-> "video", pts |-> None, left |-> 0, ptsLimit |-> 0, nextPCR |-> 0, firstPCR |-> FALSE]

(* prepareForCapture, once, and generatePAT, which gives the clock the pid of the
   video, also where there is no video and videoPid is -1.                      *)
Prepare(list) ==
    /\ streams = list /\ pcrPid = IF "video" \in ToSet(list) THEN "video" ELSE "none"
    /\ tracks = [s \in Kinds |-> [packet |-> <<>>, accumulator |-> <<>>, accumTestPTS |-> 0,
                                  firstBlockLen |-> 0, bufferCount |-> 0, made |-> 0, out |-> 0]]

MuxInit ==
    /\ \E list \in {<<"video", "audio">>, <<"audio", "video">>, <<"video">>, <<"audio">>} : Prepare(list)
    /\ probed = TRUE /\ captureStopTime \in StopTimes \cup {None} /\ hitStopPoint = FALSE /\ lastEmittedPTS = None
    /\ needEmitPATPMT = TRUE /\ needEmitPCR = TRUE
    /\ doing = "idle" /\ buffer = NoBuffer /\ again = FALSE

-----------------------------------------------------------------------------
(* emitCaptureData of the first n packets of an accumulator, and the move of the
   rest to its beginning.                                                       *)
KeepRest(acc, n) == SubSeq(acc, n + 1, Len(acc))

EmitBlock(t, n) == [t EXCEPT !.accumulator = KeepRest(@, n), !.out = @ + n]

FlushPacket(t) ==
    LET full == [t EXCEPT !.packet = <<>>, !.accumulator = @ \o t.packet] IN
    IF t.packet # <<>> /\ Len(full.accumulator) = AccumSize THEN EmitBlock(full, AccumSize) ELSE full

FlushCaptureData(t) == LET f == FlushPacket(t) IN EmitBlock(f, Len(f.accumulator))

StartPacket(t, pts) == [t EXCEPT !.packet = <<[n |-> t.made + 1, pts |-> pts]>>, !.made = @ + 1]

(* What the loops over an accumulator find: where buffers with a time begin, the
   first and the last time, and where the second of those buffers begins, or 0. *)
Starts(acc) == {i \in DOMAIN acc : acc[i].pts # None}
FirstPTS(acc) == IF Starts(acc) = {} THEN None ELSE acc[Min(Starts(acc))].pts
LastPTS(acc) == IF Starts(acc) = {} THEN None ELSE acc[Max(Starts(acc))].pts
BlockLen(acc) ==
    LET more == Starts(acc) \ {Min(Starts(acc))} IN
    IF Starts(acc) = {} \/ more = {} THEN 0 ELSE Min(more) - 1

-----------------------------------------------------------------------------
(* startCapture, for which nothing of an earlier capture's sources is reset but
   their counts, and stopCapture.  A probe that has passed the test of captureActive
   brings its buffer after the stop.  startCapture does not take ctx->mutex, and may come
   in the middle of that buffer, which captureProbe counts when it is done.     *)
StartMux ==
    /\ doing # "fault" /\ ~probed /\ probed' = TRUE
    /\ hitStopPoint' = FALSE /\ lastEmittedPTS' = None /\ captureStopTime' \in StopTimes \cup {None}
    /\ needEmitPATPMT' = TRUE /\ needEmitPCR' = TRUE
    /\ tracks' = [s \in Kinds |-> [tracks[s] EXCEPT !.bufferCount =
                    IF doing # "idle" /\ s = buffer.s THEN 1 % PcrEvery ELSE 0]]
    /\ UNCHANGED <<ctxVars, doing, buffer, again>>

StopFlush ==
    /\ doing = "idle" /\ probed' = FALSE
    /\ tracks' = [s \in Kinds |-> IF s \in ToSet(streams) THEN FlushCaptureData(tracks[s]) ELSE tracks[s]]
    /\ UNCHANGED <<ctxVars, captureStopTime, needVars, emitVars, doing, buffer, again>>

(* checkBufferLevels, once it has flushed the packet of every source: blocks are due
   when all sources have a time.                                                *)
BlocksDue(accs) ==
    /\ ~hitStopPoint /\ \A acc \in accs : Starts(acc) # {}
    /\ LET first == Min({FirstPTS(acc) : acc \in accs})
       IN  first > 0 /\ Min({LastPTS(acc) : acc \in accs}) > first

(* performEncapsulation of a buffer that begins left packets, by way of
   processCaptureData, up to the loops it runs.                                 *)
PerformEncapsulation(s, pts, left) ==
    LET due == needEmitPCR \/ (s = pcrPid /\ tracks[s].bufferCount = PcrEvery - 1)
        flushed(r) == IF r = s \/ (due /\ r \in ToSet(streams)) THEN FlushPacket(tracks[r]) ELSE tracks[r]
        accs == {flushed(r).accumulator : r \in ToSet(streams)}
    IN  /\ doing = "idle" /\ s \in ToSet(streams) /\ tracks[s].made + left < MaxPackets
        /\ tracks' = [r \in Kinds |->
                IF r = s THEN [flushed(r) EXCEPT !.bufferCount = (@ + 1) % PcrEvery] ELSE flushed(r)]
        /\ buffer' = [s |-> s, pts |-> pts, left |-> left,
                      ptsLimit |-> IF due THEN Min({LastPTS(acc) : acc \in accs}) ELSE 0,
                      nextPCR |-> IF pts = None THEN 0 ELSE (pts - PtsOffset) % TimeRange,
                      firstPCR |-> needEmitPATPMT]
        /\ doing' = IF ~due THEN "data" ELSE IF BlocksDue(accs) THEN "emit" ELSE "clock"
        /\ needEmitPATPMT' = FALSE /\ needEmitPCR' = due
        /\ UNCHANGED <<ctxVars, stopVars, emitVars, again>>

(* flushCaptureDataByTime chooses sources and notes their blocks.  The time to emit is
   the least of the chosen, in the order of the list, where -1 is no time yet.  *)
TestPTS(s) ==
    LET first == FirstPTS(tracks[s].accumulator) IN
    IF s = "video" THEN first ELSE (first + AudioLag) % TimeRange

ChosenAtLimit ==
    {s \in ToSet(streams) :
        LET acc == tracks[s].accumulator IN
        TestPTS(s) <= buffer.ptsLimit \/ (s # "video" /\ FirstPTS(acc) < buffer.nextPCR /\ BlockLen(acc) > 0)}

Chosen ==
    {s \in ToSet(streams) :
        LET acc == tracks[s].accumulator IN
        TestPTS(s) < buffer.ptsLimit \/ (s # "video" /\ FirstPTS(acc) < buffer.nextPCR /\ BlockLen(acc) > 0)}

Earlier(s, t) == IF s \in Chosen /\ (t = None \/ TestPTS(s) < t) THEN TestPTS(s) ELSE t
NextPTSToEmit ==
    IF Len(streams) = 1 THEN Earlier(streams[1], None) ELSE Earlier(streams[2], Earlier(streams[1], None))

Noted(s) ==
    IF s \in Chosen
    THEN [tracks[s] EXCEPT !.accumTestPTS = TestPTS(s), !.firstBlockLen = BlockLen(tracks[s].accumulator)]
    ELSE tracks[s]

(* A round of its loop.  Every source leaves whose accumTestPTS is the time to emit,
   whether it was chosen in this round or in an earlier one.                    *)
Leaving == {s \in ToSet(streams) : Noted(s).accumTestPTS = NextPTSToEmit}
StopPoint(last) == captureStopTime > 0 /\ last >= captureStopTime

EmitRound ==
    LET last == IF pcrPid \in Leaving THEN NextPTSToEmit ELSE lastEmittedPTS
        fits == \A s \in Leaving : Noted(s).firstBlockLen <= Len(tracks[s].accumulator)
    IN  /\ doing = "emit" /\ NextPTSToEmit # None
        /\ tracks' = [s \in Kinds |->
                IF fits /\ s \in Leaving THEN EmitBlock(Noted(s), Noted(s).firstBlockLen) ELSE Noted(s)]
        /\ lastEmittedPTS' = last /\ hitStopPoint' = (hitStopPoint \/ StopPoint(last))
        /\ doing' = IF ~fits THEN "fault" ELSE IF StopPoint(last) THEN "clock" ELSE "emit"
        /\ again' = (again \/ \E s \in Leaving \ Chosen : tracks[s].firstBlockLen > 0)
        /\ UNCHANGED <<ctxVars, stopVars, needVars, buffer>>

EmitEnds ==
    /\ doing = "emit" /\ NextPTSToEmit = None
    /\ tracks' = [s \in Kinds |-> Noted(s)] /\ doing' = "clock"
    /\ UNCHANGED <<ctxVars, stopVars, needVars, emitVars, buffer, again>>

(* The packet with the clock reference.  With the first one everything there is so
   far is emitted.                                                              *)
EmitClock ==
    LET clock(s) == IF s = buffer.s THEN FlushPacket(StartPacket(tracks[s], None)) ELSE tracks[s]
    IN  /\ doing = "clock" /\ doing' = "data" /\ needEmitPCR' = FALSE
        /\ tracks' = [s \in Kinds |->
                IF buffer.firstPCR /\ s \in ToSet(streams) THEN FlushCaptureData(clock(s)) ELSE clock(s)]
        /\ UNCHANGED <<ctxVars, stopVars, needEmitPATPMT, emitVars, buffer, again>>

(* addToPacket: a buffer begins a packet and goes on in others.                 *)
AddToPacket ==
    /\ doing = "data"
    /\ tracks' = [tracks EXCEPT ![buffer.s] = StartPacket(FlushPacket(@), buffer.pts)]
    /\ IF buffer.left > 1
       THEN doing' = "data" /\ buffer' = [buffer EXCEPT !.pts = None, !.left = @ - 1]
       ELSE doing' = "idle" /\ buffer' = NoBuffer
    /\ UNCHANGED <<ctxVars, stopVars, needVars, emitVars, again>>

MuxNext ==
    \/ StartMux \/ StopFlush
    \/ \E s \in Kinds, pts \in Times \cup {None}, left \in 1..MaxBlock : PerformEncapsulation(s, pts, left)
    \/ EmitRound \/ EmitEnds \/ EmitClock \/ AddToPacket

MuxSpec == MuxInit /\ [][MuxNext]_muxVars

-----------------------------------------------------------------------------
(* Each packet of a source leaves once and in the order in which it was made, by
   whichever way: an accumulator that is full, a block that is due, the first clock
   reference, a stop.                                                           *)
Numbers(packets, first) == \A i \in DOMAIN packets : packets[i].n = first + i
LeaveInOrder ==
    \A s \in Kinds :
        LET waiting == tracks[s].accumulator \o tracks[s].packet IN
        Numbers(waiting, tracks[s].out) /\ tracks[s].out + Len(waiting) = tracks[s].made

(* And what is chosen in flushCaptureDataByTime is there when it is emitted and has an
   end, so that the loop goes on, until a source leaves with what was noted of it in an
   earlier round.  (Audio whose time wraps is before every limit, and has no end when it
   is the last there is.)                                                       *)
Wraps(s) == s = "audio" /\ FirstPTS(tracks[s].accumulator) + AudioLag >= TimeRange
BlocksEnd ==
    ~again => /\ doing # "fault"
              /\ doing = "emit" => \A s \in Chosen : BlockLen(tracks[s].accumulator) > 0 \/ Wraps(s)

(* Both: packets leave once and in order, in blocks that have an end.           *)
PacketsInOrder == LeaveInOrder /\ BlocksEnd

(* Not so: what leaves was chosen in this round (accumTestPTS and firstBlockLen of the
   other source are those of an earlier round, and may name the same time).  TLC finds
   such a block, and one that is longer than what is left in the accumulator, for
   which flushCaptureDataByTime moves a negative number of bytes (doing = "fault").  *)
OnlyChosenLeave == ~again
DataRemains == doing # "fault"

(* Not so: a round of the loop, which has ctx->mutex, emits something.  TLC finds a last
   audio time that wraps to one before the limit: a block of no packets leaves, and
   nothing ever changes.                                                        *)
RoundsMove ==
    doing = "emit" /\ NextPTSToEmit # None => \E s \in Leaving : Noted(s).firstBlockLen > 0
=============================================================================

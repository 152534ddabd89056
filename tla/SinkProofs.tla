------------------------------- MODULE SinkProofs -------------------------------
(***************************************************************************)
(* The safety properties of westeros-sink, for any number of the decoder's *)
(* buffers and of capture surfaces: the end of a stream, the buffers and   *)
(* their tokens (SinkElement), the path of the pictures (RpiPath) and the  *)
(* captured frames (NexusCapture), each with the invariant it needs.       *)
(***************************************************************************)
EXTENDS SinkElement, RpiPath, NexusCapture, FiniteSetTheorems, SequenceTheorems, TLAPS

PathSpec == PathInit /\ [][PathNext]_pathVars

--------------------------------------------------------------------------------
(* The end of the stream.  EosNotLost is inductive as it stands, because both  *)
(* threads look at the other's flag under the lock under which they set theirs. *)

EosTypeOK == eosEventSeen \in BOOLEAN /\ eosDetected \in BOOLEAN /\ answered \in BOOLEAN

LEMMA EosInit == SinkInit => EosTypeOK /\ EosNotLost
BY DEF SinkInit, EosTypeOK, EosNotLost

LEMMA EosStep ==
  ASSUME EosTypeOK, EosNotLost, [SinkNext]_sinkVars
  PROVE  EosTypeOK' /\ EosNotLost'
<1> USE DEF EosTypeOK, EosNotLost
<1>1. CASE BuffersNext
  <2>1. UNCHANGED <<eosEventSeen, eosDetected, answered, omx>>
    BY <1>1 DEF BuffersNext, elementVars
  <2>2. stream.pc = "post" => UNCHANGED stream
    BY <1>1 DEF BuffersNext, Try, Look, Pop, Fill, EmptyBufferDone, FlushClear, FlushPost,
                StopClear, StopPost, StopIdle, FreeNext, FreeEnds, StopCloses, bufVars
  <2> QED BY <2>1, <2>2
<1>2. CASE NullToReady \/ PausedToReady
  BY <1>2 DEF NullToReady, PausedToReady, ClearEos
<1>3. CASE \/ PausedToPlaying \/ PlayingToPaused \/ ReadyToNull \/ FlushStart
           \/ \E k \in 0..Capacity, ok \in BOOLEAN : ReadyToPaused(k, ok)
  <2>1. UNCHANGED <<eosEventSeen, eosDetected, answered, omx, stream>>
    BY <1>3 DEF PausedToPlaying, PlayingToPaused, ReadyToNull, FlushStart, ReadyToPaused
  <2> QED BY <2>1
<1>4. CASE EosEvent
  BY <1>4 DEF EosEvent, StreamFree, Outside
<1>5. CASE EosEventPosts
  BY <1>5 DEF EosEventPosts
<1>6. CASE EosEventToDecoder \/ SegmentFlushed
  BY <1>6 DEF EosEventToDecoder, SegmentFlushed, elementVars
<1>7. CASE \E time, start \in BOOLEAN : Segment(time, start)
  BY <1>7 DEF Segment, ClearEos, StreamFree
<1>8. CASE Render
  BY <1>8 DEF Render
<1>9. CASE EosDetected
  BY <1>9 DEF EosDetected
<1>10. CASE EosDetectedPosts
  BY <1>10 DEF EosDetectedPosts
<1>11. CASE UNCHANGED sinkVars
  BY <1>11 DEF sinkVars, elementVars
<1> QED BY <1>1, <1>2, <1>3, <1>4, <1>5, <1>6, <1>7, <1>8, <1>9, <1>10, <1>11 DEF SinkNext

\* An end of stream that has been seen and met is posted, by whichever thread is second.
THEOREM EndIsPosted == SinkSpec => []EosNotLost
BY EosInit, EosStep, PTL DEF SinkSpec

--------------------------------------------------------------------------------
(* The buffers of the decoder.  None is in two of the pool, the streaming thread    *)
(* and the decoder, so that a full pool is all of them (BuffersHavePool); and the   *)
(* streaming thread, which enters its loop only while the video plays, drops no     *)
(* more than the one token that is posted for its interruption (TokensCoverPool).   *)

Positions == {"idle", "try", "look", "pop", "fill", "segment", "post", "eos"}
StreamType == [pc : Positions,
               kind : {"none", "frame", "eos"}, token : BOOLEAN, buff : 0..Capacity]

BufTypeOK ==
  /\ state \in {"null", "ready", "paused", "playing"}
  /\ playing \in BOOLEAN /\ semActive \in BOOLEAN /\ hasArray \in BOOLEAN /\ spoiled \in BOOLEAN
  /\ sem \in Nat /\ pool \in Seq(Buffer) /\ decoder \subseteq Buffer /\ stream \in StreamType
  /\ app \in {"idle", "flush", "flushPost", "stop", "stopPost", "stopIdle", "free", "close"}

\* What the streaming thread holds where.
StreamHolds ==
  /\ stream.buff # 0 <=> stream.pc = "fill"
  /\ stream.token => stream.pc \in {"look", "pop"}
  /\ stream.pc = "pop" => stream.token

PoolHasArray == pool # << >> => hasArray
PausedHasArray == state \in {"paused", "playing"} => hasArray

\* In READY there is what an attempt to pause that failed has left, and nobody uses it.
ReadyPool ==
  state \in {"null", "ready"} =>
    /\ ~playing
    /\ \A i \in 1..Len(pool) : pool[i] = i
    /\ hasArray => decoder = {} /\ stream.pc \notin {"try", "look", "pop", "fill"}

Stopping ==
  /\ app # "idle" => state \in {"paused", "playing"}
  /\ app \in {"stopPost", "stopIdle", "free", "close"} => ~playing /\ (stream.pc = "pop" => spoiled)
  /\ app = "close" => spoiled \/ (decoder = {} /\ stream.buff = 0)

BufInv ==
  /\ BufTypeOK
  /\ StreamHolds
  /\ PoolApart
  /\ PoolHasArray
  /\ PausedHasArray
  /\ ReadyPool
  /\ Stopping
  /\ BuffersHavePool

\* The tokens, apart from the one in the streaming thread's hand.
Posts == sem + (IF PostPending THEN 1 ELSE 0)

\* After the interruption the thread may drop one token, unless it has it already.
TokensKept ==
  semActive /\ crashed = "no" =>
    /\ Posts + (IF stream.token THEN 1 ELSE 0) >= Len(pool)
    /\ ~playing => /\ Posts >= Len(pool) + (IF stream.pc \in {"try", "fill"} THEN 1 ELSE 0)
                   /\ stream.pc = "pop" => Posts >= 1

LEMMA BufInit == SinkInit => BufInv /\ TokensKept
<1> SUFFICES ASSUME SinkInit  PROVE BufInv /\ TokensKept
  OBVIOUS
<1>1. stream \in StreamType /\ StreamHolds /\ stream.buff = 0
  BY BuffersAssumption DEF SinkInit, Outside, StreamType, Positions, StreamHolds
<1>2. pool = << >> /\ pool \in Seq(Buffer) /\ Len(pool) = 0
  BY EmptySeq DEF SinkInit, BuffersInit
<1>3. BufTypeOK
  BY <1>1, <1>2 DEF SinkInit, BuffersInit, BufTypeOK
<1>4. PoolApart /\ PoolHasArray /\ PausedHasArray /\ ReadyPool
  BY <1>2 DEF SinkInit, BuffersInit, PoolApart, PoolHasArray, PausedHasArray, ReadyPool
<1>5. Stopping /\ BuffersHavePool /\ TokensKept
  BY <1>1 DEF SinkInit, BuffersInit, Stopping, BuffersHavePool, TokensKept
<1> QED BY <1>1, <1>3, <1>4, <1>5 DEF BufInv

LEMMA PoolFacts ==
  ASSUME NEW q \in Seq(Buffer)
  PROVE  Len(q) \in Nat /\ (\A i \in 1..Len(q) : q[i] \in Buffer) /\ (q = << >> <=> Len(q) = 0)
BY LenProperties, ElementOfSeq, EmptySeq

LEMMA FrontFacts ==
  ASSUME NEW q \in Seq(Buffer), q # << >>
  PROVE  /\ Front(q) \in Seq(Buffer) /\ Len(Front(q)) = Len(q) - 1
         /\ \A i \in 1..Len(Front(q)) : Front(q)[i] = q[i]
         /\ Last(q) = q[Len(q)] /\ Last(q) \in Buffer
<1> DEFINE n == Len(q) - 1
<1>1. Len(q) \in Nat \ {0} /\ \A i \in 1..Len(q) : q[i] \in Buffer
  BY PoolFacts
<1>2. n \in Nat /\ \A i \in 1..n : q[i] \in Buffer
  BY <1>1
<1>3. Front(q) = SubSeq(q, 1, n)
  BY DEF Front
<1>4. /\ SubSeq(q, 1, n) \in Seq(Buffer)
      /\ Len(SubSeq(q, 1, n)) = IF 1 <= n THEN n - 1 + 1 ELSE 0
      /\ \A i \in 1..(n - 1 + 1) : SubSeq(q, 1, n)[i] = q[1 + i - 1]
  BY <1>2, SubSeqProperties
<1>5. Last(q) = q[Len(q)] /\ Last(q) \in Buffer
  BY <1>1 DEF Last
<1> HIDE DEF n
<1>6. Len(Front(q)) = n /\ \A i \in 1..n : Front(q)[i] = q[i]
  BY <1>2, <1>3, <1>4
<1> QED BY <1>3, <1>4, <1>5, <1>6 DEF n

\* A pool of Capacity different buffers has all of them.
LEMMA FullPool ==
  ASSUME BufInv, Len(pool) = Capacity
  PROVE  decoder = {} /\ stream.buff = 0
<1>1. /\ pool \in [1..Capacity -> Buffer] /\ decoder \subseteq Buffer
      /\ stream.buff \in 0..Capacity
  BY LenProperties DEF BufInv, BufTypeOK, StreamType
<1>2. pool \in Injection(1..Capacity, Buffer)
  BY <1>1 DEF BufInv, PoolApart, Injection, IsInjective
<1>3. IsFiniteSet(1..Capacity)
  BY BuffersAssumption, FS_Interval
<1>4. pool \in Surjection(1..Capacity, Buffer)
  BY <1>2, <1>3, FS_Injection DEF Buffer
<1>5. \A b \in Buffer : \E i \in 1..Capacity : pool[i] = b
  BY <1>4 DEF Surjection
<1>6. \A b \in Buffer : b \notin decoder /\ b # stream.buff
  BY <1>5 DEF BufInv, PoolApart
<1> QED BY <1>1, <1>6, BuffersAssumption DEF Buffer

LEMMA OutsideFacts ==
  /\ Outside \in StreamType /\ Outside.pc = "idle" /\ Outside.token = FALSE /\ Outside.buff = 0
  /\ 0 \in 0..Capacity
BY BuffersAssumption DEF Outside, StreamType, Positions

\* What the thread holds after each of its moves.
LEMMA TryMoves ==
  ASSUME stream \in StreamType, StreamHolds, Try
  PROVE  /\ stream' \in StreamType /\ stream'.buff = 0
         /\ \/ ~semActive /\ stream'.pc = "idle" /\ stream'.token = FALSE /\ sem' = sem
            \/ sem > 0 /\ sem' = sem - 1 /\ stream'.pc = "look" /\ stream'.token = TRUE
            \/ sem' = sem /\ stream'.pc = "look" /\ stream'.token = FALSE
<1>1. stream.buff = 0
  BY DEF StreamHolds, Try
<1>2. CASE ~semActive /\ stream' = Outside /\ sem' = sem
  BY <1>2, OutsideFacts
<1>3. CASE sem > 0 /\ sem' = sem - 1 /\ stream' = [At("look") EXCEPT !.token = TRUE]
  BY <1>1, <1>3 DEF At, StreamType, Positions
<1>4. CASE sem' = sem /\ stream' = [At("look") EXCEPT !.token = FALSE]
  BY <1>1, <1>4 DEF At, StreamType, Positions
<1> QED BY <1>2, <1>3, <1>4 DEF Try

LEMMA LookMoves ==
  ASSUME stream \in StreamType, StreamHolds, Look
  PROVE  /\ stream' \in StreamType /\ stream'.buff = 0
         /\ \/ ~playing /\ stream'.pc = "idle" /\ stream'.token = FALSE
            \/ playing /\ stream.token /\ stream'.pc = "pop" /\ stream'.token = TRUE
            \/ playing /\ ~stream.token /\ stream'.pc = "try" /\ stream'.token = FALSE
<1>1. stream.buff = 0 /\ stream.token \in BOOLEAN
  BY DEF StreamHolds, Look, StreamType
<1>2. CASE ~playing /\ stream' = Outside
  BY <1>2, OutsideFacts
<1>3. CASE playing /\ stream.token /\ stream' = At("pop")
  BY <1>1, <1>3 DEF At, StreamType, Positions
<1>4. CASE playing /\ ~stream.token /\ stream' = At("try")
  BY <1>1, <1>4 DEF At, StreamType, Positions
<1> QED BY <1>2, <1>3, <1>4 DEF Look

LEMMA PopMoves ==
  ASSUME stream \in StreamType, StreamHolds, NEW b \in Buffer, stream.pc = "pop"
  PROVE  /\ stream' = [At("fill") EXCEPT !.token = FALSE, !.buff = b]
              => stream' \in StreamType /\ stream'.pc = "fill" /\ stream'.token = FALSE
                 /\ stream'.buff = b
         /\ stream' = [At("try") EXCEPT !.token = FALSE]
              => stream' \in StreamType /\ stream'.pc = "try" /\ stream'.token = FALSE
                 /\ stream'.buff = 0
<1>1. stream.buff = 0 /\ b \in 0..Capacity
  BY BuffersAssumption DEF StreamHolds, Buffer
<1> QED BY <1>1 DEF At, StreamType, Positions

LEMMA FillMoves ==
  ASSUME stream \in StreamType, StreamHolds, NEW more \in BOOLEAN, Fill(more)
  PROVE  /\ stream' \in StreamType /\ stream'.pc \in {"try", "idle"} /\ stream'.token = FALSE
         /\ stream'.buff = 0
<1>1. stream.token = FALSE
  BY DEF StreamHolds, Fill, StreamType
<1>2. CASE stream' = [At("try") EXCEPT !.buff = 0]
  BY <1>1, <1>2, OutsideFacts DEF At, StreamType, Positions
<1>3. CASE stream' = Outside
  BY <1>3, OutsideFacts
<1> QED BY <1>2, <1>3 DEF Fill

LEMMA SamePool ==
  ASSUME PoolApart, pool' = pool, decoder' \subseteq decoder, stream'.buff = stream.buff
  PROVE  PoolApart'
BY DEF PoolApart

\* The streaming thread's loop.
LEMMA LoopStep ==
  ASSUME BufInv, TokensKept, crashed = "no",
         Try \/ Look \/ Pop \/ \E more \in BOOLEAN : Fill(more)
  PROVE  BufInv' /\ TokensKept'
<1> USE DEF BufInv, BufTypeOK, StreamHolds, PoolHasArray, PausedHasArray, ReadyPool, Stopping,
            BuffersHavePool, TokensKept, Posts, PostPending
<1>1. Len(pool) \in Nat /\ (pool = << >> <=> Len(pool) = 0)
  BY PoolFacts
<1>2. CASE Try
  <2>1. /\ stream.pc = "try" /\ stream.token = FALSE /\ stream.buff = 0
        /\ UNCHANGED <<state, playing, semActive, pool, hasArray, decoder, app, spoiled, crashed>>
    BY <1>2 DEF Try, StreamType
  <2>2. /\ stream' \in StreamType /\ stream'.buff = 0
        /\ \/ ~semActive /\ stream'.pc = "idle" /\ stream'.token = FALSE /\ sem' = sem
           \/ sem > 0 /\ sem' = sem - 1 /\ stream'.pc = "look" /\ stream'.token = TRUE
           \/ sem' = sem /\ stream'.pc = "look" /\ stream'.token = FALSE
    BY <1>2, TryMoves
  <2>3. PoolApart'
    BY <2>1, <2>2, SamePool
  <2> QED BY <1>1, <2>1, <2>2, <2>3
<1>3. CASE Look
  <2>1. /\ stream.pc = "look" /\ stream.buff = 0 /\ UNCHANGED <<state, bufVars, app, crashed>>
    BY <1>3 DEF Look
  <2>2. /\ stream' \in StreamType /\ stream'.buff = 0
        /\ \/ ~playing /\ stream'.pc = "idle" /\ stream'.token = FALSE
           \/ playing /\ stream.token /\ stream'.pc = "pop" /\ stream'.token = TRUE
           \/ playing /\ ~stream.token /\ stream'.pc = "try" /\ stream'.token = FALSE
    BY <1>3, <2>1, LookMoves
  <2>3. PoolApart'
    BY <2>1, <2>2, SamePool DEF bufVars
  <2> QED BY <1>1, <2>1, <2>2, <2>3 DEF bufVars
<1>4. CASE Pop
  <2>1. /\ stream.pc = "pop" /\ stream.token /\ stream.buff = 0
        /\ UNCHANGED <<state, playing, semActive, sem, hasArray, decoder, app, spoiled>>
    BY <1>4 DEF Pop
  <2>2. CASE pool # << >> /\ pool' = Front(pool) /\ crashed' = crashed
             /\ stream' = [At("fill") EXCEPT !.token = FALSE, !.buff = Last(pool)]
    <3>1. PICK rest : rest = Front(pool)
      OBVIOUS
    <3>2. /\ rest \in Seq(Buffer) /\ Len(rest) = Len(pool) - 1 /\ Len(rest) \in Nat
          /\ \A i \in 1..Len(rest) : rest[i] = pool[i]
          /\ Last(pool) = pool[Len(pool)] /\ Last(pool) \in Buffer
      BY <1>1, <2>2, <3>1, FrontFacts
    <3>3. PICK b : b = Last(pool)
      OBVIOUS
    <3>4. /\ stream' \in StreamType /\ stream'.pc = "fill" /\ stream'.token = FALSE
          /\ stream'.buff = b /\ b # 0 /\ b \in Buffer
      <4>1. b # 0 /\ b \in Buffer
        BY <3>2, <3>3 DEF Buffer
      <4> QED BY <2>1, <2>2, <3>3, <4>1, PopMoves
    <3>5. PoolApart'
      <4>1. /\ \A i, j \in 1..Len(rest) : rest[i] = rest[j] => i = j
            /\ \A i \in 1..Len(rest) : rest[i] \notin decoder /\ rest[i] # b
            /\ b \notin decoder
        BY <1>1, <3>2, <3>3 DEF PoolApart
      <4> QED BY <2>1, <2>2, <3>1, <3>4, <4>1 DEF PoolApart
    <3>6. pool' = rest /\ hasArray /\ state \notin {"null", "ready"}
      BY <2>1, <2>2, <3>1
    <3>7. TokensKept'
      BY <1>1, <2>1, <2>2, <3>2, <3>4, <3>6
    <3>8. BufTypeOK' /\ StreamHolds' /\ PoolHasArray' /\ PausedHasArray' /\ ReadyPool'
      BY <2>1, <2>2, <3>2, <3>4, <3>6
    <3>9. Stopping' /\ BuffersHavePool'
      BY <2>1, <3>4, <3>6
    <3> QED BY <3>5, <3>7, <3>8, <3>9
  <2>3. CASE pool = << >> /\ pool' = pool /\ crashed' = crashed
             /\ stream' = [At("try") EXCEPT !.token = FALSE]
    <3>1. /\ stream' \in StreamType /\ stream'.pc = "try" /\ stream'.token = FALSE
          /\ stream'.buff = 0
      <4>1. 1 \in Buffer
        BY BuffersAssumption DEF Buffer
      <4> QED BY <2>1, <2>3, <4>1, PopMoves
    <3>2. PoolApart'
      BY <2>1, <2>3, <3>1, SamePool
    <3> QED BY <1>1, <2>1, <2>3, <3>1, <3>2
  <2>4. CASE crashed' = "no buffer for the end of stream" /\ UNCHANGED <<pool, stream>>
    <3>1. PoolApart'
      BY <2>1, <2>4, SamePool
    <3> QED BY <2>1, <2>4, <3>1
  <2> QED BY <1>4, <2>2, <2>3, <2>4 DEF Pop, Crash
<1>5. ASSUME NEW more \in BOOLEAN, Fill(more)  PROVE BufInv' /\ TokensKept'
  <2>1. /\ stream.pc = "fill" /\ stream.buff \in Buffer /\ stream.token = FALSE
        /\ decoder' \in {decoder, decoder \cup {stream.buff}}
        /\ UNCHANGED <<state, playing, semActive, sem, pool, hasArray, app, spoiled, crashed>>
    BY <1>5 DEF Fill, Buffer, StreamType
  <2>2. /\ stream' \in StreamType /\ stream'.pc \in {"try", "idle"} /\ stream'.token = FALSE
        /\ stream'.buff = 0
    BY <1>5, FillMoves
  <2>3. PoolApart'
    <3>1. (\A i \in 1..Len(pool) : pool[i] # 0) /\ 0 \notin decoder'
      BY <2>1, PoolFacts DEF Buffer
    <3> QED BY <2>1, <2>2, <3>1 DEF PoolApart
  <2> QED BY <1>1, <2>1, <2>2, <2>3
<1> QED BY <1>2, <1>3, <1>4, <1>5

\* The decoder's thread.
LEMMA EmptyBufferStep ==
  ASSUME BufInv, TokensKept, crashed = "no", NEW b \in Buffer, EmptyBufferDone(b)
  PROVE  BufInv' /\ TokensKept'
<1> USE DEF BufInv, BufTypeOK, StreamHolds, PoolHasArray, PausedHasArray, ReadyPool, Stopping,
            BuffersHavePool, TokensKept, Posts, PostPending
<1>1. /\ b \in decoder /\ decoder' = decoder \ {b}
      /\ UNCHANGED <<state, playing, semActive, hasArray, stream, app, spoiled>>
  BY DEF EmptyBufferDone
<1>2. Len(pool) \in Nat
  BY PoolFacts
<1>3. CASE hasArray /\ pool' = Append(pool, b) /\ sem' = sem + 1 /\ crashed' = crashed
  <2>1. PICK more : more = Append(pool, b)
    OBVIOUS
  <2>2. PICK n : n = Len(pool) /\ n \in Nat
    BY <1>2
  <2>3. /\ more \in Seq(Buffer) /\ Len(more) = n + 1
        /\ \A i \in 1..(n + 1) : more[i] = IF i <= n THEN pool[i] ELSE b
    BY <1>2, <2>1, <2>2
  <2>4. /\ \A i \in 1..n : pool[i] # b
        /\ stream.buff # b
    BY <1>1, <2>2 DEF PoolApart, BuffersHavePool
  <2>5. PoolApart'
    <3>1. /\ \A i, j \in 1..(n + 1) : more[i] = more[j] => i = j
          /\ \A i \in 1..(n + 1) : more[i] \notin decoder \ {b} /\ more[i] # stream.buff
      BY <2>2, <2>3, <2>4 DEF PoolApart
    <3> QED BY <1>1, <1>3, <2>1, <2>3, <3>1 DEF PoolApart
  <2> QED BY <1>1, <1>3, <2>1, <2>2, <2>3, <2>5
<1>4. CASE ~hasArray /\ crashed' = "a buffer returned to no array" /\ UNCHANGED <<pool, sem>>
  <2>1. PoolApart'
    BY <1>1, <1>4, SamePool
  <2> QED BY <1>1, <1>4, <2>1
<1> QED BY <1>3, <1>4 DEF EmptyBufferDone, Crash

\* A flush and a stop, on the application's thread.
LEMMA InterruptStep ==
  ASSUME BufInv, TokensKept, crashed = "no",
         \/ FlushClear \/ FlushPost
         \/ StopClear \/ StopPost \/ StopIdle \/ FreeNext \/ FreeEnds \/ StopCloses
  PROVE  BufInv' /\ TokensKept'
<1> USE DEF BufInv, BufTypeOK, StreamHolds, PoolHasArray, PausedHasArray, ReadyPool, Stopping,
            BuffersHavePool, TokensKept, Posts, PostPending
<1>1. Len(pool) \in Nat /\ (pool = << >> <=> Len(pool) = 0)
  BY PoolFacts
<1>2. CASE FlushClear \/ FlushPost
  <2>1. UNCHANGED <<state, semActive, pool, hasArray, decoder, stream, spoiled, crashed>>
    BY <1>2 DEF FlushClear, FlushPost
  <2>2. PoolApart'
    BY <2>1, SamePool
  <2>3. CASE FlushClear
    <3>1. playing' = FALSE /\ app = "flush" /\ app' = "flushPost" /\ sem' = sem
      BY <2>3 DEF FlushClear
    <3>2. BufInv'
      BY <2>1, <2>2, <3>1
    <3>3. Posts' = Posts + 1 /\ Posts \in Nat
      BY <3>1
    <3> HIDE DEF Posts
    <3>4. TokensKept'
      BY <1>1, <2>1, <3>1, <3>3 DEF StreamType
    <3> QED BY <3>2, <3>4
  <2>4. CASE FlushPost
    BY <1>1, <2>1, <2>2, <2>4 DEF FlushPost
  <2> QED BY <1>2, <2>3, <2>4
<1>3. CASE StopClear
  <2>1. PoolApart'
    BY <1>3, SamePool DEF StopClear
  <2>2. /\ app = "stop" /\ app' = "stopPost" /\ playing' = FALSE
        /\ spoiled' \in BOOLEAN /\ (stream.pc = "pop" => spoiled')
        /\ UNCHANGED <<state, semActive, sem, pool, hasArray, decoder, stream, crashed>>
    BY <1>3 DEF StopClear
  <2>3. BufInv'
    BY <2>1, <2>2
  <2>4. Posts' = Posts + 1 /\ Posts \in Nat
    BY <2>2
  <2> HIDE DEF Posts
  <2>5. TokensKept'
    BY <1>1, <2>2, <2>4 DEF StreamType
  <2> QED BY <2>3, <2>5
<1>4. CASE StopPost \/ StopIdle \/ FreeNext
  <2>1. /\ app \in {"stopPost", "stopIdle", "free"} /\ app' \in {"stopIdle", "free"}
        /\ UNCHANGED <<state, playing, semActive, pool, hasArray, decoder, stream, spoiled, crashed>>
        /\ sem' \in Nat /\ Posts' = Posts
    BY <1>4 DEF StopPost, StopIdle, FreeNext
  <2>2. PoolApart'
    BY <2>1, SamePool
  <2> HIDE DEF Posts
  <2> QED BY <1>1, <2>1, <2>2
<1>5. CASE FreeEnds
  <2>1. /\ app = "free" /\ app' = "close" /\ spoiled' \in BOOLEAN /\ (spoiled => spoiled')
        /\ Len(pool) # Capacity => spoiled'
        /\ UNCHANGED <<state, playing, semActive, sem, pool, hasArray, decoder, stream, crashed>>
    BY <1>5 DEF FreeEnds
  <2>2. PoolApart'
    BY <2>1, SamePool
  <2>3. spoiled' \/ (decoder = {} /\ stream.buff = 0)
    BY <2>1, FullPool
  <2> QED BY <1>1, <2>1, <2>2, <2>3
<1>6. CASE StopCloses
  <2>1. << >> \in Seq(Buffer) /\ Len(<< >>) = 0
    BY EmptySeq
  <2>2. /\ app = "close" /\ app' = "idle" /\ state' = "ready"
        /\ pool' = << >> /\ hasArray' = FALSE /\ semActive' = FALSE /\ sem' = 0
        /\ UNCHANGED <<playing, decoder, stream, spoiled>>
    BY <1>6 DEF StopCloses
  <2>3. PoolApart'
    <3>1. stream.buff \notin decoder
      BY DEF PoolApart
    <3> QED BY <2>1, <2>2, <3>1 DEF PoolApart
  <2>4. BufTypeOK' /\ StreamHolds' /\ PoolHasArray' /\ PausedHasArray' /\ Stopping'
    BY <2>1, <2>2
  <2>5. ReadyPool' /\ BuffersHavePool'
    BY <2>1, <2>2
  <2>6. TokensKept'
    BY <2>2
  <2> QED BY <2>3, <2>4, <2>5, <2>6
<1> QED BY <1>2, <1>3, <1>4, <1>5, <1>6

LEMMA JoinFacts ==
  ASSUME NEW q \in Seq(Buffer), NEW r \in Seq(Buffer), NEW all, all = q \o r
  PROVE  /\ all \in Seq(Buffer) /\ Len(all) = Len(q) + Len(r)
         /\ \A i \in 1..(Len(q) + Len(r)) : all[i] = IF i <= Len(q) THEN q[i] ELSE r[i - Len(q)]
BY ConcatProperties

\* Buffers are added in the order of their numbers.
LEMMA PoolGrows ==
  ASSUME pool \in Seq(Buffer), \A i \in 1..Len(pool) : pool[i] = i,
         NEW k \in Nat, Len(pool) + k <= Capacity,
         pool' = pool \o [i \in 1..k |-> Len(pool) + i]
  PROVE  /\ pool' \in Seq(Buffer) /\ Len(pool') = Len(pool) + k
         /\ \A i \in 1..(Len(pool) + k) : pool'[i] = i
<1>1. PICK n : n = Len(pool) /\ n \in Nat
  BY PoolFacts
<1>2. PICK more : more = [i \in 1..k |-> Len(pool) + i]
  OBVIOUS
<1>3. more \in Seq(Buffer) /\ Len(more) = k /\ \A i \in 1..k : more[i] = n + i
  <2>1. \A i \in 1..k : Len(pool) + i \in Buffer
    BY <1>1, BuffersAssumption DEF Buffer
  <2> QED BY <1>1, <1>2, <2>1
<1>4. pool' = pool \o more
  BY <1>2
<1>5. /\ pool' \in Seq(Buffer) /\ Len(pool') = Len(pool) + Len(more)
      /\ \A i \in 1..(Len(pool) + Len(more)) :
           pool'[i] = IF i <= Len(pool) THEN pool[i] ELSE more[i - Len(pool)]
  BY <1>3, <1>4, JoinFacts
<1>6. \A i \in 1..(n + k) : pool'[i] = IF i <= n THEN pool[i] ELSE more[i - n]
  BY <1>1, <1>3, <1>5
<1>7. \A i \in 1..(n + k) : pool'[i] = i
  <2> TAKE i \in 1..(n + k)
  <2>1. CASE i <= n
    BY <1>1, <1>6, <2>1
  <2>2. CASE ~(i <= n)
    <3>1. i - n \in 1..k /\ n + (i - n) = i
      BY <1>1, <2>2
    <3> QED BY <1>3, <1>6, <2>2, <3>1
  <2> QED BY <2>1, <2>2
<1> QED BY <1>1, <1>3, <1>5, <1>7

\* An attempt to pause.
LEMMA ReadyToPausedStep ==
  ASSUME BufInv, TokensKept, NEW k \in 0..Capacity, NEW ok \in BOOLEAN, ReadyToPaused(k, ok)
  PROVE  BufInv' /\ TokensKept'
<1> USE DEF BufInv, BufTypeOK, StreamHolds, PoolHasArray, PausedHasArray, ReadyPool, Stopping,
            BuffersHavePool, TokensKept, Posts, PostPending
<1>1. /\ app = "idle" /\ crashed = "no" /\ state = "ready" /\ stream.pc = "idle" /\ decoder = {}
      /\ sem' = Capacity /\ semActive' = TRUE /\ hasArray' = TRUE /\ spoiled' = FALSE
      /\ state' \in {"ready", "paused"} /\ (state' = "ready" => ~ok)
      /\ UNCHANGED <<decoder, stream, app>>
  BY DEF ReadyToPaused, BuffersSetUp, AppFree
<1>2. stream.buff = 0 /\ stream.token = FALSE
  BY <1>1 DEF StreamType
<1>3. PICK n : n = Len(pool) /\ n \in Nat
  BY PoolFacts
<1>4. CASE n + k > Capacity /\ crashed' # "no" /\ UNCHANGED <<pool, playing>>
  <2>1. PoolApart'
    BY <1>1, <1>4, SamePool
  <2> QED BY <1>1, <1>2, <1>3, <1>4, <2>1, BuffersAssumption
<1>5. CASE ~(n + k > Capacity) /\ pool' = pool \o [i \in 1..k |-> n + i]
           /\ playing' = (ok \/ playing) /\ crashed' = crashed
  <2>1. k \in Nat /\ n + k <= Capacity /\ \A i \in 1..n : pool[i] = i
    BY <1>1, <1>3, <1>5, BuffersAssumption
  <2>2. k \in Nat /\ Len(pool) + k <= Capacity
        /\ pool' = pool \o [i \in 1..k |-> Len(pool) + i]
    BY <1>3, <1>5, <2>1
  <2>3. pool \in Seq(Buffer) /\ \A i \in 1..Len(pool) : pool[i] = i
    BY <1>3, <2>1
  <2>4. /\ pool' \in Seq(Buffer) /\ Len(pool') = Len(pool) + k
        /\ \A i \in 1..(Len(pool) + k) : pool'[i] = i
    BY <2>2, <2>3, PoolGrows
  <2>5. PICK all : all = pool'
    OBVIOUS
  <2>6. all \in Seq(Buffer) /\ Len(all) = n + k /\ \A i \in 1..Len(all) : all[i] = i
    BY <1>3, <2>4, <2>5
  <2>7. pool' = all
    BY <2>5
  <2>8. PoolApart'
    BY <1>1, <1>2, <2>6, <2>7 DEF PoolApart
  <2>9. playing' \in BOOLEAN /\ (state' = "ready" => ~playing')
    BY <1>1, <1>5, Zenon
  <2>10. BufTypeOK' /\ StreamHolds' /\ PoolHasArray' /\ PausedHasArray'
    BY <1>1, <2>6, <2>7, <2>9, BuffersAssumption
  <2>11. ReadyPool' /\ Stopping' /\ BuffersHavePool'
    BY <1>1, <1>2, <2>6, <2>7, <2>9
  <2>12. TokensKept'
    BY <1>1, <1>2, <1>3, <1>5, <2>6, <2>7, BuffersAssumption
  <2> QED BY <2>8, <2>10, <2>11, <2>12
<1> QED BY <1>3, <1>4, <1>5 DEF ReadyToPaused, BuffersSetUp, Crash

\* The element's handlers that leave the pool alone.  What they make of the streaming
\* thread is harmless: it has no buffer, and enters the loop only while the video plays.
LEMMA ElementStep ==
  ASSUME BufInv, TokensKept,
         UNCHANGED <<semActive, sem, pool, hasArray, decoder, spoiled>>,
         state' \in {"null", "ready", "paused", "playing"},
         playing' \in BOOLEAN, playing' => state' \in {"paused", "playing"},
         playing' = playing \/ (playing' = TRUE /\ app = "idle")
           \/ (playing' = FALSE /\ stream.pc \notin {"try", "look", "pop", "fill"}),
         state \in {"null", "ready"} <=> state' \in {"null", "ready"},
         app' \in {app, "flush", "stop"}, app' # app => app = "idle" /\ UNCHANGED playing,
         app' # "idle" => state' \in {"paused", "playing"},
         crashed' = "no" => crashed = "no",
         \/ UNCHANGED stream
         \/ /\ stream.pc \notin {"try", "look", "pop", "fill"}
            /\ stream' \in StreamType /\ stream'.token = FALSE /\ stream'.buff = 0
            /\ stream'.pc \in {"idle", "segment", "post", "eos", "try"}
            /\ stream'.pc = "try" => playing /\ UNCHANGED playing
  PROVE  BufInv' /\ TokensKept'
<1> USE DEF BufInv, BufTypeOK, StreamHolds, PoolHasArray, PausedHasArray, ReadyPool, Stopping,
            BuffersHavePool
<1>1. Len(pool) \in Nat /\ stream.token \in BOOLEAN
  BY PoolFacts DEF StreamType
<1>2. PoolApart'
  <2>1. stream'.buff = stream.buff
    OBVIOUS
  <2> QED BY <2>1, SamePool
<1>3. BufTypeOK' /\ StreamHolds' /\ PoolHasArray' /\ PausedHasArray'
  OBVIOUS
<1>4. ReadyPool'
  OBVIOUS
<1>5. Stopping' /\ BuffersHavePool'
  OBVIOUS
<1>6. Posts' = Posts /\ Posts \in Nat
  BY DEF Posts, PostPending
<1>7. TokensKept'
  BY <1>1, <1>6 DEF TokensKept
<1> QED BY <1>2, <1>3, <1>4, <1>5, <1>7

\* The element's handlers and the decoder's report.
LEMMA HandlerStep ==
  ASSUME BufInv, TokensKept,
         \/ NullToReady \/ PausedToPlaying \/ PlayingToPaused \/ PausedToReady \/ ReadyToNull
         \/ FlushStart \/ EosEvent \/ EosEventPosts \/ EosEventToDecoder
         \/ \E time, start \in BOOLEAN : Segment(time, start)
         \/ SegmentFlushed \/ Render \/ EosDetected \/ EosDetectedPosts
  PROVE  BufInv' /\ TokensKept'
<1>1. /\ state \in {"null", "ready", "paused", "playing"} /\ playing \in BOOLEAN
      /\ app \in {"idle", "flush", "flushPost", "stop", "stopPost", "stopIdle", "free", "close"}
      /\ app # "idle" => state \in {"paused", "playing"}
      /\ playing => state \in {"paused", "playing"}
      /\ stream \in StreamType
      /\ stream.pc \notin {"look", "pop", "fill"} => stream.token = FALSE /\ stream.buff = 0
  BY DEF BufInv, BufTypeOK, Stopping, ReadyPool, StreamHolds, StreamType
<1>2. CASE NullToReady
  BY <1>1, <1>2, ElementStep DEF NullToReady, AppFree, bufVars, Crash
<1>3. CASE PausedToPlaying
  BY <1>1, <1>3, ElementStep DEF PausedToPlaying, AppFree
<1>4. CASE PlayingToPaused
  BY <1>1, <1>4, ElementStep DEF PlayingToPaused, AppFree, bufVars
<1>5. CASE PausedToReady
  BY <1>1, <1>5, ElementStep DEF PausedToReady, AppFree, bufVars
<1>6. CASE ReadyToNull
  BY <1>1, <1>6, ElementStep DEF ReadyToNull, AppFree
<1>7. CASE FlushStart
  BY <1>1, <1>7, ElementStep DEF FlushStart, AppFree, bufVars
<1>8. CASE EosEvent
  <2>1. /\ stream' \in StreamType /\ stream'.token = FALSE /\ stream'.buff = 0
        /\ stream'.pc \in {"post", "eos"} /\ stream.pc = "idle"
    BY <1>8, OutsideFacts DEF EosEvent, StreamFree, Outside, StreamType, Positions
  <2> QED BY <1>1, <1>8, <2>1, ElementStep DEF EosEvent, bufVars
<1>9. CASE EosEventPosts
  <2>1. /\ stream' \in StreamType /\ stream'.token = FALSE /\ stream'.buff = 0
        /\ stream'.pc = "eos" /\ stream.pc = "post"
    BY <1>1, <1>9 DEF EosEventPosts, At, StreamType, Positions
  <2> QED BY <1>1, <1>9, <2>1, ElementStep DEF EosEventPosts, bufVars
<1>10. CASE EosEventToDecoder
  <2>1. /\ stream' \in StreamType /\ stream'.token = FALSE /\ stream'.buff = 0
        /\ stream'.pc \in {"idle", "try"} /\ (stream'.pc = "try" => playing) /\ stream.pc = "eos"
    BY <1>10, OutsideFacts DEF EosEventToDecoder, BeginEos, Outside, StreamType, Positions
  <2> QED BY <1>1, <1>10, <2>1, ElementStep DEF EosEventToDecoder, bufVars
<1>11. CASE \E time, start \in BOOLEAN : Segment(time, start)
  <2>1. \/ stream' = stream
        \/ /\ stream' \in StreamType /\ stream'.token = FALSE /\ stream'.buff = 0
           /\ stream'.pc = "segment" /\ stream.pc = "idle"
    BY <1>11, OutsideFacts DEF Segment, StreamFree, Outside, StreamType, Positions
  <2>2. UNCHANGED <<state, bufVars, app, crashed>>
    BY <1>11 DEF Segment
  <2>3. CASE UNCHANGED stream
    BY <1>1, <2>2, <2>3, ElementStep DEF bufVars
  <2>4. CASE ~UNCHANGED stream
    BY <1>1, <2>1, <2>2, <2>4, ElementStep DEF bufVars
  <2> QED BY <2>3, <2>4
<1>12. CASE SegmentFlushed
  <2>1. /\ stream' \in StreamType /\ stream'.token = FALSE /\ stream'.buff = 0
        /\ stream'.pc = "idle" /\ stream.pc = "segment"
    BY <1>12, OutsideFacts DEF SegmentFlushed
  <2> QED BY <1>1, <1>12, <2>1, ElementStep DEF SegmentFlushed, DecoderIdle
<1>13. CASE Render
  <2>1. /\ stream' \in StreamType /\ stream'.token = FALSE /\ stream'.buff = 0
        /\ stream'.pc \in {"idle", "try"} /\ (stream'.pc = "try" => playing) /\ stream.pc = "idle"
    BY <1>13, OutsideFacts DEF Render, BeginFrame, StreamFree, Outside, StreamType, Positions
  <2> QED BY <1>1, <1>13, <2>1, ElementStep DEF Render, bufVars
<1>14. CASE EosDetected \/ EosDetectedPosts
  <2>1. UNCHANGED <<state, bufVars, stream, app, crashed>>
    BY <1>14 DEF EosDetected, EosDetectedPosts
  <2> QED BY <1>1, <2>1, ElementStep DEF bufVars
<1> QED BY <1>2, <1>3, <1>4, <1>5, <1>6, <1>7, <1>8, <1>9, <1>10, <1>11, <1>12, <1>13, <1>14

LEMMA BufStep == BufInv /\ TokensKept /\ [SinkNext]_sinkVars => BufInv' /\ TokensKept'
<1> SUFFICES ASSUME BufInv, TokensKept, [SinkNext]_sinkVars  PROVE BufInv' /\ TokensKept'
  OBVIOUS
<1>1. CASE UNCHANGED sinkVars
  BY <1>1 DEF sinkVars, bufVars, BufInv, BufTypeOK, StreamHolds, PoolApart, PoolHasArray,
              PausedHasArray, ReadyPool, Stopping, BuffersHavePool, TokensKept, Posts, PostPending
<1>2. CASE BuffersNext
  BY <1>2, LoopStep, EmptyBufferStep, InterruptStep DEF BuffersNext
<1>3. CASE \E k \in 0..Capacity, ok \in BOOLEAN : ReadyToPaused(k, ok)
  BY <1>3, ReadyToPausedStep
<1> QED BY <1>1, <1>2, <1>3, HandlerStep DEF SinkNext

\* No buffer of the pool is without a token, none comes back to no array and none is in two
\* hands, however the frames, the flushes and the stops of the three threads interleave.
THEOREM BuffersAreAccounted == SinkSpec => []BuffersAccounted
<1>1. BufInv /\ TokensKept => BuffersAccounted
  BY DEF BufInv, TokensKept, BuffersAccounted, PoolApart, TokensCoverPool, Tokens, Posts, BufTypeOK
<1> QED BY <1>1, BufInit, BufStep, PTL DEF SinkSpec

--------------------------------------------------------------------------------
(* The path of the pictures.  What the frame finds at its end holds already when  *)
(* a thread begins to work on it, except while the streaming thread, with the     *)
(* lock, makes the tunnels, and while a thread, with the lock, is between two     *)
(* renderers; the application's thread takes the tunnels down only when no report *)
(* can be believed.                                                               *)

Places == {"idle", "decoder", "renderer", "unlock", "frame", "give", "dispatch", "same", "other",
           "transition", "switch", "between", "none", "setup", "look", "wait", "woken", "ended"}

PathTypeOK ==
  /\ videoOn \in BOOLEAN /\ decoderReady \in BOOLEAN /\ outChanged \in BOOLEAN
  /\ tunSched \in BOOLEAN /\ tunDec \in BOOLEAN
  /\ rend \in {"vid", "egl"}
  /\ at \in [Threads -> Places] /\ asked \in [Threads -> BOOLEAN]

\* The format is known and has not changed since it was looked at.
Reported == decoderReady /\ ~outChanged

\* Neither the application's thread is taking the path down nor has it.
Serving == st = "running" /\ caller = "idle"

\* The streaming thread makes the tunnels.
Making == at["stream"] \in {"decoder", "renderer", "unlock"}

\* A thread moves from one renderer to the other.
Moving(t) == at[t] \in {"switch", "between"}

WorkIsLocked ==
  /\ Making => lock = "stream"
  /\ \A t \in Threads : Moving(t) => lock = t

\* StopCapture has had the lock, and nothing begins a frame before the element plays again.
Quiet == caller \in {"signal", "join", "tunnels", "renderer"} => ~Making

ReportsForgotten == ~Serving => ~videoOn /\ ~Reported

HalfJoined == at["stream"] = "renderer" => decTunnel # "none"

\* The renderer's end of the path: set up, or being moved.
Ends == (tunSched /\ schedTunnel # "none") \/ \E t \in Threads : at[t] = "between"

Joined == Reported /\ (tunSched \/ at["stream"] \notin {"decoder", "renderer"})
            => decTunnel # "none" /\ Ends

PathInv == PathTypeOK /\ WorkIsLocked /\ Quiet /\ ReportsForgotten /\ HalfJoined /\ Joined

LEMMA PathInitInv == PathInit => PathInv
<1> SUFFICES ASSUME PathInit  PROVE PathInv
  OBVIOUS
<1>1. at = [t \in Threads |-> IF t = "stream" THEN "idle" ELSE "none"]
  BY DEF PathInit, Threads
<1>2. PathTypeOK
  BY <1>1 DEF PathInit, PathTypeOK, Threads, Places
<1>3. WorkIsLocked /\ Quiet /\ ReportsForgotten /\ HalfJoined /\ Joined
  BY <1>1 DEF PathInit, WorkIsLocked, Quiet, ReportsForgotten, HalfJoined, Joined,
     Reported, Making, Moving, Threads
<1> QED BY <1>2, <1>3 DEF PathInv

\* A step of the capture thread outside transitionToRenderer that leaves the path as it is.
LEMMA CaptureMoves ==
  ASSUME PathInv, NEW p \in Places \ {"switch", "between"}, at["capture"] \notin {"switch", "between"},
         at' = [at EXCEPT !["capture"] = p],
         UNCHANGED <<st, videoOn, lock, decoderReady, outChanged, tunDec, tunSched, decTunnel, schedTunnel, caller, asked>>,
         rend' \in {"vid", "egl"}
  PROVE  PathInv'
BY DEF PathInv, PathTypeOK, WorkIsLocked, Quiet, ReportsForgotten, HalfJoined, Joined, Ends,
       Serving, Reported, Making, Moving, Threads, Places

\* The application's thread.
LEMMA CallerStep ==
  ASSUME PathInv,
         \/ \E n \in 0..Len(Components) : GetComponents(n)
         \/ PathReadyToPaused \/ Interrupt \/ Resume
         \/ StopReports \/ StopCapture \/ SignalCapture \/ JoinCapture
         \/ TunnelDecDown \/ TunnelSchedDown \/ FreeComponents
  PROVE  PathInv'
<1> USE DEF PathInv, PathTypeOK, WorkIsLocked, Quiet, ReportsForgotten, HalfJoined, Joined, Ends,
            Serving, Reported, Making, Moving, Threads, gfxVars, capVars, threadVars, repVars, tunVars
<1>1. CASE \E n \in 0..Len(Components) : GetComponents(n)
  BY <1>1 DEF GetComponents
<1>2. CASE PathReadyToPaused
  BY <1>2 DEF PathReadyToPaused
<1>3. CASE Interrupt \/ Resume
  <2>1. CASE Interrupt
    BY <2>1 DEF Interrupt
  <2>2. CASE Resume
    BY <2>2 DEF Resume
  <2> QED BY <1>3, <2>1, <2>2
<1>4. CASE StopReports
  BY <1>4 DEF StopReports
<1>5. CASE StopCapture
  BY <1>5 DEF StopCapture
<1>6. CASE SignalCapture
  BY <1>6 DEF SignalCapture, WakeCapture, Goes, Places
<1>7. CASE JoinCapture
  BY <1>7 DEF JoinCapture, Goes, Places
<1>8. CASE TunnelDecDown
  BY <1>8 DEF TunnelDecDown
<1>9. CASE TunnelSchedDown
  BY <1>9 DEF TunnelSchedDown
<1>10. CASE FreeComponents
  BY <1>10 DEF FreeComponents
<1> QED BY <1>1, <1>2, <1>3, <1>4, <1>5, <1>6, <1>7, <1>8, <1>9, <1>10

\* The streaming thread.
LEMMA StreamerStep ==
  ASSUME PathInv,
         \/ RenderBegins \/ RenderJoinsDecoder \/ RenderJoinsRenderer \/ RenderUnlocks
         \/ FrameBegins \/ FrameGiven
  PROVE  PathInv'
<1> USE DEF PathInv, PathTypeOK, WorkIsLocked, Quiet, ReportsForgotten, HalfJoined, Joined, Ends,
            Serving, Reported, Making, Moving, Threads, Places, Goes, SetUpTunnel,
            gfxVars, capVars, repVars, tunVars
<1>1. CASE RenderBegins
  <2>1. /\ at["stream"] = "idle" /\ videoOn /\ Serving /\ lock = "free"
        /\ UNCHANGED <<st, caller, videoOn, decoderReady, tunDec, decTunnel, schedTunnel, rend, asked>>
    BY <1>1 DEF RenderBegins
  <2>2. ~\E t \in Threads : at[t] = "between"
    BY <2>1
  <2>3. CASE FormatNews /\ outChanged' = FALSE /\ tunSched' = FALSE /\ lock' = "stream"
             /\ Goes("stream", "decoder")
    BY <2>1, <2>3
  <2>4. CASE lock' = "leaked" /\ UNCHANGED <<outChanged, tunSched, at>>
    BY <2>1, <2>4
  <2>5. CASE /\ ~FormatNews /\ lock' = "stream" /\ Goes("stream", "decoder")
             /\ UNCHANGED <<outChanged, tunSched>>
    BY <2>1, <2>2, <2>5
  <2> QED BY <1>1, <2>3, <2>4, <2>5 DEF RenderBegins
<1>2. CASE RenderJoinsDecoder
  BY <1>2 DEF RenderJoinsDecoder
<1>3. CASE RenderJoinsRenderer
  BY <1>3 DEF RenderJoinsRenderer
<1>4. CASE RenderUnlocks
  BY <1>4 DEF RenderUnlocks
<1>5. CASE FrameBegins \/ FrameGiven
  BY <1>5 DEF FrameBegins, FrameGiven
<1> QED BY <1>1, <1>2, <1>3, <1>4, <1>5

\* A request, on either thread.
LEMMA RequestStep ==
  ASSUME PathInv, NEW t \in Threads,
         \/ NoRequest(t) \/ SetVideoPath(t)
         \/ \E gfx \in BOOLEAN : PathAsked(t, gfx)
         \/ StartCapture(t) \/ LeaveRenderer(t) \/ JoinRenderer(t)
  PROVE  PathInv'
<1> USE DEF PathInv, PathTypeOK, WorkIsLocked, Quiet, ReportsForgotten, HalfJoined, Joined, Ends,
            Serving, Reported, Making, Moving, Threads, Places, Goes, Dispatches, SetUpTunnel,
            gfxVars, capVars, repVars, tunVars
<1>1. CASE NoRequest(t)
  BY <1>1 DEF NoRequest
<1>2. CASE SetVideoPath(t)
  <2>1. UNCHANGED <<st, videoOn, lock, decoderReady, outChanged, tunDec, tunSched, decTunnel, schedTunnel, caller, rend>>
    BY <1>2 DEF SetVideoPath
  <2>2. CASE Goes(t, "transition") /\ UNCHANGED asked
    BY <1>2, <2>1, <2>2 DEF SetVideoPath
  <2>3. CASE Dispatches(t)
    BY <1>2, <2>1, <2>3 DEF SetVideoPath
  <2> QED BY <1>2, <2>2, <2>3 DEF SetVideoPath
<1>3. CASE \E gfx \in BOOLEAN : PathAsked(t, gfx)
  BY <1>3 DEF PathAsked
<1>4. CASE StartCapture(t)
  BY <1>4 DEF StartCapture
<1>5. CASE LeaveRenderer(t)
  <2>1. UNCHANGED <<st, videoOn, decoderReady, outChanged, tunDec, decTunnel, caller>> /\ at[t] = "switch"
    BY <1>5 DEF LeaveRenderer
  <2>2. CASE lock' = "free" /\ Dispatches(t) /\ UNCHANGED <<rend, schedTunnel, tunSched>>
    BY <2>1, <2>2
  <2>3. CASE /\ rend' \in {"vid", "egl"} /\ schedTunnel' = "none" /\ tunSched' = FALSE
             /\ Goes(t, "between") /\ UNCHANGED <<lock, asked>>
    BY <2>1, <2>3
  <2> QED BY <1>5, <2>2, <2>3 DEF LeaveRenderer
<1>6. CASE JoinRenderer(t)
  BY <1>6 DEF JoinRenderer
<1> QED BY <1>1, <1>2, <1>3, <1>4, <1>5, <1>6

LEMMA PathStep == PathInv /\ [PathNext]_pathVars => PathInv'
<1> SUFFICES ASSUME PathInv, [PathNext]_pathVars  PROVE PathInv'
  OBVIOUS
<1>1. CASE DecoderReports
  BY <1>1 DEF DecoderReports, PathInv, PathTypeOK, WorkIsLocked, Quiet, ReportsForgotten, HalfJoined,
     Joined, Ends, Serving, Reported, Making, Moving, threadVars, tunVars, gfxVars
<1>2. CASE FillBufferDone
  <2>1. CASE UNCHANGED at
    BY <1>2, <2>1 DEF FillBufferDone, PathInv, PathTypeOK, WorkIsLocked, Quiet, ReportsForgotten,
       HalfJoined, Joined, Ends, Serving, Reported, Making, Moving, repVars, tunVars, gfxVars
  <2>2. CASE at["capture"] = "wait" /\ Goes("capture", "woken")
    BY <1>2, <2>2, CaptureMoves DEF FillBufferDone, Goes, Places, PathInv, PathTypeOK, repVars, tunVars, gfxVars
  <2> QED BY <1>2, <2>1, <2>2 DEF FillBufferDone, WakeCapture
<1>3. CASE SetupGfx
  BY <1>3, CaptureMoves DEF SetupGfx, Goes, Places, PathInv, PathTypeOK, repVars, tunVars
<1>4. CASE CaptureLooks \/ DrawImage
  <2>1. PICK p \in Places \ {"switch", "between"} : Goes("capture", p)
    BY <1>4 DEF CaptureLooks, DrawImage, Places
  <2> QED BY <1>4, <2>1, CaptureMoves DEF CaptureLooks, DrawImage, Goes, PathInv, PathTypeOK, repVars, tunVars, gfxVars
<1>5. CASE UNCHANGED pathVars
  BY <1>5 DEF pathVars, PathInv, PathTypeOK, WorkIsLocked, Quiet, ReportsForgotten, HalfJoined,
     Joined, Ends, Serving, Reported, Making, Moving, threadVars, repVars, tunVars, gfxVars
<1> QED BY <1>1, <1>2, <1>3, <1>4, <1>5, CallerStep, StreamerStep, RequestStep DEF PathNext

\* A frame for a decoder whose format is known finds the path set up, or its end on the way
\* from one renderer to the other, whatever the stop, the requests that two threads dispatch
\* and the reports of the decoder have done before it and do meanwhile.
THEOREM FramesFindThePath == PathSpec => []FrameHasPath
<1>1. PathInv => FrameHasPath
  <2> SUFFICES ASSUME PathInv, GivesFrame  PROVE decTunnel # "none" /\ (schedTunnel # "none" \/ at["capture"] = "between")
    BY DEF FrameHasPath
  <2> QED BY DEF PathInv, Joined, Ends, Reported, GivesFrame, Threads
<1> QED BY <1>1, PathInitInv, PathStep, PTL DEF PathSpec

--------------------------------------------------------------------------------
(* The captured frames.  A surface is in the capture thread's hands only between   *)
(* taking a frame and passing it on; the thread is there only while the element    *)
(* may show video; and a flush leaves no frame that it has made stale with the     *)
(* decoder, so that only the one the thread holds has to be told from new ones.    *)

LocalType == [playing : BOOLEAN, eos : BOOLEAN, current : BOOLEAN, taken : SUBSET Surface]

NxTypeOK ==
  /\ nxState \in {"null", "ready", "paused", "playing", "gone"}
  /\ nxApp \in {"idle", "join", "flush", "drop"}
  /\ nxLocal \in LocalType
  /\ captureThread \in BOOLEAN /\ captureEnabled \in BOOLEAN
  /\ videoPlaying \in BOOLEAN /\ nxEosDetected \in BOOLEAN /\ nxFlushStarted \in BOOLEAN
  /\ dec \in [Surface -> {"none", "free", "queued", "out"}]
  /\ shown \subseteq Surface /\ lost \subseteq Surface
  /\ disturbed \in BOOLEAN /\ twice \in BOOLEAN /\ staleShown \in BOOLEAN

\* captureThread tells whether there is one; without it nothing is captured.
ThreadIsKnown ==
  /\ captureThread <=> nxThread # "none"
  /\ nxThread \in {"none", "leave", "begin"} => ~captureEnabled /\ \A s \in Surface : dec[s] \in {"none", "out"}

\* The thread holds a surface when it passes one on, and never else.
HandsFull == nxThread \in {"check", "show"} <=> nxLocal.taken # {}

NoThreadBeforePaused == nxState \in {"null", "ready"} /\ ~disturbed => nxThread = "none"

FlushIsMarked == nxApp \in {"flush", "drop"} => nxFlushStarted

\* The frames that are stale are the one the thread holds, and those it may still take
\* while they are dropped.
NoStaleQueued == nxApp # "drop" => \A s \in stale : s \in Surface => dec[s] # "queued"

StaleIsTold ==
  nxThread = "check" /\ ~nxFlushStarted /\ nxLocal.current => nxLocal.taken \cap stale = {}

NxInv ==
  /\ NxTypeOK
  /\ ThreadIsKnown
  /\ HandsFull
  /\ NoThreadBeforePaused
  /\ FlushIsMarked
  /\ NoStaleQueued
  /\ StaleIsTold
  /\ FramesCaptured

LEMMA NxInitInv == NxInit => NxInv
<1> SUFFICES ASSUME NxInit  PROVE NxInv
  OBVIOUS
<1>1. nxLocal \in LocalType /\ nxLocal.taken = {}
  BY DEF NxInit, NxOutside, NoSurface, LocalType
<1>2. NxTypeOK
  BY <1>1 DEF NxInit, NxTypeOK
<1>3. FramesCaptured
  BY <1>1 DEF NxInit, FramesCaptured, EachSurfaceOnce, NoStaleFrame, ReleasedAfterThread, Out
<1>4. ThreadIsKnown /\ HandsFull /\ NoThreadBeforePaused
  BY <1>1 DEF NxInit, ThreadIsKnown, HandsFull, NoThreadBeforePaused
<1>5. FlushIsMarked /\ NoStaleQueued /\ StaleIsTold
  BY DEF NxInit, FlushIsMarked, NoStaleQueued, StaleIsTold
<1> QED BY <1>2, <1>3, <1>4, <1>5 DEF NxInv

LEMMA OutsideLocal == NxOutside \in LocalType /\ NxOutside.taken = {}
BY DEF NxOutside, NoSurface, LocalType

\* Surfaces that are allocated may disturb, and nothing else.
LEMMA PeerAnswers ==
  ASSUME disturbed \in BOOLEAN, QueryPeerHandles
  PROVE  disturbed' \in BOOLEAN /\ (disturbed => disturbed')
<1>1. CASE AllocCaptureSurfaces
  BY <1>1, Zenon DEF AllocCaptureSurfaces
<1>2. CASE UNCHANGED <<size, disturbed>>
  BY <1>2
<1> QED BY <1>1, <1>2 DEF QueryPeerHandles

\* The application's calls.
LEMMA NxCallStep ==
  ASSUME NxInv, nxState # "gone",
         \/ NxNullToReady \/ NxReadyToPaused \/ NxPausedToPlaying \/ Link \/ NxPlayingToPaused
         \/ NxPausedToReady \/ NxStops \/ NxReadyToNull \/ SetCaptureSize \/ SetPlaySpeed
  PROVE  NxInv'
<1> USE DEF NxInv, NxTypeOK, ThreadIsKnown, HandsFull, NoThreadBeforePaused, FlushIsMarked,
            NoStaleQueued, StaleIsTold, FramesCaptured, EachSurfaceOnce, NoStaleFrame,
            ReleasedAfterThread, Out, nxFlags, nxFrames, mishaps, NxAppFree
<1>1. CASE NxNullToReady \/ NxPlayingToPaused \/ NxPausedToReady
  <2>1. CASE NxNullToReady
    BY <2>1 DEF NxNullToReady
  <2>2. CASE NxPlayingToPaused
    BY <2>2 DEF NxPlayingToPaused
  <2>3. CASE NxPausedToReady
    BY <2>3 DEF NxPausedToReady
  <2> QED BY <1>1, <2>1, <2>2, <2>3
<1>2. CASE NxReadyToPaused
  <2>1. /\ nxState' = "paused" /\ disturbed' \in BOOLEAN /\ (disturbed => disturbed')
        /\ UNCHANGED <<nxApp, nxThread, nxLocal, nxFlags, nxFrames, staleShown, twice>>
    BY <1>2, PeerAnswers DEF NxReadyToPaused
  <2> QED BY <2>1
<1>3. CASE NxPausedToPlaying
  <2>1. /\ nxState' = "playing" /\ videoPlaying' = TRUE
        /\ disturbed' \in BOOLEAN /\ (disturbed => disturbed')
        /\ UNCHANGED <<nxApp, nxLocal, captureEnabled, nxFlushStarted, nxEosDetected, nxFrames,
                       staleShown, twice>>
    BY <1>3, PeerAnswers DEF NxPausedToPlaying
  <2>2. \/ captureThread' = TRUE /\ nxThread' = IF captureThread THEN nxThread ELSE "begin"
        \/ UNCHANGED <<captureThread, nxThread>>
    BY <1>3 DEF NxPausedToPlaying, StartVideo, NothingStarts
  <2>3. CASE captureThread' = TRUE /\ nxThread' = IF captureThread THEN nxThread ELSE "begin"
    <3>1. CASE captureThread
      BY <2>1, <2>3, <3>1
    <3>2. CASE ~captureThread
      BY <2>1, <2>3, <3>2
    <3> QED BY <3>1, <3>2
  <2>4. CASE UNCHANGED <<captureThread, nxThread>>
    BY <2>1, <2>4
  <2> QED BY <2>2, <2>3, <2>4
<1>4. CASE Link
  <2>1. /\ nxState # "null" /\ disturbed \in BOOLEAN
        /\ UNCHANGED <<nxState, nxApp, nxLocal, captureEnabled, videoPlaying, nxFlushStarted,
                       nxEosDetected, nxFrames, staleShown, twice>>
    BY <1>4 DEF Link
  <2>2. /\ disturbed' \in BOOLEAN /\ (disturbed => disturbed')
        /\ \/ /\ captureThread' = TRUE /\ nxThread' = IF captureThread THEN nxThread ELSE "begin"
              /\ nxState = "ready" => disturbed'
           \/ UNCHANGED <<captureThread, nxThread>>
    <3>1. CASE QueryPeerHandles /\ nxState # "ready" /\ StartVideo
      BY <2>1, <3>1, PeerAnswers DEF StartVideo
    <3>2. CASE nxState = "ready" /\ StartVideo /\ disturbed' = TRUE
      BY <3>2 DEF StartVideo
    <3>3. CASE QueryPeerHandles /\ NothingStarts
      BY <2>1, <3>3, PeerAnswers DEF NothingStarts
    <3> QED BY <1>4, <3>1, <3>2, <3>3 DEF Link
  <2>3. CASE UNCHANGED <<captureThread, nxThread>>
    BY <2>1, <2>2, <2>3
  <2>4. CASE /\ captureThread' = TRUE /\ nxThread' = IF captureThread THEN nxThread ELSE "begin"
             /\ nxState = "ready" => disturbed'
    <3>1. CASE captureThread
      BY <2>1, <2>2, <2>4, <3>1
    <3>2. CASE ~captureThread
      BY <2>1, <2>2, <2>4, <3>2
    <3> QED BY <3>1, <3>2
  <2> QED BY <2>2, <2>3, <2>4
<1>5. CASE NxStops
  BY <1>5 DEF NxStops
<1>6. CASE NxReadyToNull
  BY <1>6 DEF NxReadyToNull
<1>7. CASE SetCaptureSize \/ SetPlaySpeed
  BY <1>7 DEF SetCaptureSize, SetPlaySpeed
<1> QED BY <1>1, <1>2, <1>3, <1>4, <1>5, <1>6, <1>7

\* Flushes, segments and data.
LEMMA NxFlushStep ==
  ASSUME NxInv,
         \/ NxFlushStart \/ NxFlush \/ NxFlushDrops \/ NxRender
         \/ \E b \in BOOLEAN : NxSegment(b)
  PROVE  NxInv'
<1> USE DEF NxInv, NxTypeOK, ThreadIsKnown, HandsFull, NoThreadBeforePaused, FlushIsMarked,
            NoStaleQueued, StaleIsTold, FramesCaptured, EachSurfaceOnce, NoStaleFrame,
            ReleasedAfterThread, Out, nxFlags, nxFrames, mishaps, NxAppFree
<1>1. CASE NxFlushStart
  BY <1>1 DEF NxFlushStart
<1>2. CASE NxFlush
  BY <1>2 DEF NxFlush
<1>3. CASE NxFlushDrops
  BY <1>3 DEF NxFlushDrops
<1>4. CASE NxRender
  BY <1>4, ZenonT(60) DEF NxRender
<1>5. ASSUME NEW b \in BOOLEAN, NxSegment(b)  PROVE NxInv'
  <2>1. /\ nxFlushStarted' = FALSE /\ nxApp \notin {"flush", "drop"}
        /\ UNCHANGED <<nxState, nxApp, nxThread, captureThread, captureEnabled, videoPlaying, dec,
                       shown, lost, mishaps>>
    BY <1>5 DEF NxSegment
  <2>2. nxEosDetected' \in BOOLEAN
    BY <1>5, Zenon DEF NxSegment
  <2>3. /\ nxLocal' \in LocalType /\ nxLocal'.taken = nxLocal.taken
        /\ nxLocal'.current => nxLocal.current /\ ~b
    BY <1>5 DEF NxSegment, LocalType
  <2>4. stale' = IF nxFlushStarted /\ ~b THEN {} ELSE stale
    BY <1>5 DEF NxSegment
  <2>5. NxTypeOK'
    BY <2>1, <2>2, <2>3
  <2> QED BY <2>1, <2>3, <2>4, <2>5
<1> QED BY <1>1, <1>2, <1>3, <1>4, <1>5

\* The change of the video path hands out surfaces that nobody has, or disturbs.
LEMMA PathChangeStep ==
  ASSUME NxInv, nxThread \notin {"none", "leave"}, NEW gfx \in BOOLEAN, NxSetVideoPath(gfx),
         nxThread' \in {nxThread, "top"}, nxThread' # "begin",
         nxThread \notin {"check", "show"},
         UNCHANGED <<nxState, nxApp, nxLocal, captureThread, quitCaptureThread, videoPlaying,
                     videoStarted, startAfterLink, nxFlushStarted, nxEosDetected, size, shown,
                     lost, stale>>
  PROVE  NxInv'
<1> USE DEF NxInv, NxTypeOK, ThreadIsKnown, HandsFull, NoThreadBeforePaused, FlushIsMarked,
            NoStaleQueued, StaleIsTold, FramesCaptured, EachSurfaceOnce, NoStaleFrame,
            ReleasedAfterThread, Out
<1>1. CASE gfx /\ ~captureEnabled /\ disturbed' = (disturbed \/ Out # {})
           /\ dec' = [s \in Surface |-> IF size = "none" THEN "none" ELSE "free"]
  BY <1>1 DEF NxSetVideoPath
<1>2. CASE ~gfx /\ captureEnabled
  BY <1>2 DEF NxSetVideoPath
<1>3. CASE ~gfx /\ ~captureEnabled
  BY <1>3 DEF NxSetVideoPath
<1>4. CASE gfx /\ UNCHANGED <<dec, disturbed>>
  BY <1>4 DEF NxSetVideoPath
<1> QED BY <1>1, <1>2, <1>3, <1>4 DEF NxSetVideoPath

\* The capture thread, the listeners it runs, and the decoder.
LEMMA NxThreadStep ==
  ASSUME NxInv, nxState # "gone",
         \/ ThreadStarts \/ LoopTop \/ LoopWork \/ StatusDetectsEos \/ ProcessFrame
         \/ GetNothing \/ LoopAgain \/ ThreadStopsCapture \/ ThreadLeaves
         \/ \E b \in BOOLEAN : VideoPathChange(b)
  PROVE  NxInv'
<1> USE DEF NxInv, NxTypeOK, ThreadIsKnown, HandsFull, NoThreadBeforePaused, FlushIsMarked,
            NoStaleQueued, StaleIsTold, FramesCaptured, EachSurfaceOnce, NoStaleFrame,
            ReleasedAfterThread, Out, nxFlags, nxFrames, mishaps, Step
<1>1. CASE ThreadStarts
  <2>1. CASE NxSetVideoPath(TRUE)
    <3> USE DEF ThreadStarts
    <3>1. nxThread = "begin" /\ nxThread' = "top"
      BY <1>1
    <3>2. UNCHANGED <<nxState, nxApp, nxLocal, captureThread, quitCaptureThread, videoPlaying,
                      videoStarted, startAfterLink, nxFlushStarted, nxEosDetected, size, shown,
                      lost, stale>>
      BY <1>1
    <3> QED BY <2>1, <3>1, <3>2, PathChangeStep
  <2>2. CASE UNCHANGED <<captureEnabled, dec, mishaps>>
    BY <1>1, <2>2 DEF ThreadStarts
  <2> QED BY <1>1, <2>1, <2>2 DEF ThreadStarts
<1>2. CASE LoopTop
  BY <1>2, ZenonT(60) DEF LoopTop, LocalType
<1>3. CASE LoopWork
  BY <1>3, OutsideLocal DEF LoopWork
<1>4. CASE StatusDetectsEos
  BY <1>4, OutsideLocal DEF StatusDetectsEos
<1>5. CASE ProcessFrame
  <2>1. /\ nxThread = "process" /\ nxThread' = "get"
        /\ UNCHANGED <<nxState, nxApp, nxFlags, nxFrames, staleShown, twice>>
    BY <1>5 DEF ProcessFrame
  <2>2. nxLocal' \in LocalType /\ nxLocal'.taken = nxLocal.taken
    BY <1>5 DEF ProcessFrame, LocalType
  <2>3. disturbed' \in BOOLEAN /\ (disturbed => disturbed')
    BY <1>5, PeerAnswers DEF ProcessFrame, QueryPeerHandles
  <2> QED BY <2>1, <2>2, <2>3
<1>6. CASE GetNothing
  BY <1>6, OutsideLocal, ZenonT(60) DEF GetNothing
<1>7. CASE LoopAgain
  BY <1>7 DEF LoopAgain
<1>8. CASE ThreadStopsCapture
  BY <1>8 DEF ThreadStopsCapture
<1>9. CASE ThreadLeaves
  BY <1>9, OutsideLocal, ZenonT(60) DEF ThreadLeaves
<1>10. CASE \E b \in BOOLEAN : VideoPathChange(b)
  BY <1>10, PathChangeStep DEF VideoPathChange
<1> QED BY <1>1, <1>2, <1>3, <1>4, <1>5, <1>6, <1>7, <1>8, <1>9, <1>10

LEMMA NxFrameStep ==
  ASSUME NxInv, nxState # "gone",
         \/ CheckFrame \/ ShowFrame
         \/ \E s \in Surface : GetFrame(s) \/ BufferRelease(s) \/ DecoderCaptures(s)
  PROVE  NxInv'
<1> USE DEF NxInv, NxTypeOK, ThreadIsKnown, HandsFull, NoThreadBeforePaused, FlushIsMarked,
            NoStaleQueued, StaleIsTold, FramesCaptured, EachSurfaceOnce, NoStaleFrame,
            ReleasedAfterThread, Out, nxFlags, nxFrames, mishaps, Step
<1>1. CASE CheckFrame
  BY <1>1, OutsideLocal DEF CheckFrame, PassFrame, LocalType
<1>2. CASE ShowFrame
  BY <1>2 DEF ShowFrame, NoSurface, LocalType
<1>3. ASSUME NEW s \in Surface, GetFrame(s)  PROVE NxInv'
  BY <1>3 DEF GetFrame, LocalType
<1>4. ASSUME NEW s \in Surface, BufferRelease(s)  PROVE NxInv'
  BY <1>4 DEF BufferRelease
<1>5. ASSUME NEW s \in Surface, DecoderCaptures(s)  PROVE NxInv'
  BY <1>5 DEF DecoderCaptures
<1> QED BY <1>1, <1>2, <1>3, <1>4, <1>5

LEMMA NxStep == NxInv /\ [NxNext]_nxVars => NxInv'
<1> SUFFICES ASSUME NxInv, [NxNext]_nxVars  PROVE NxInv'
  OBVIOUS
<1>1. CASE UNCHANGED nxVars
  BY <1>1
     DEF NxInv, NxTypeOK, ThreadIsKnown, HandsFull, NoThreadBeforePaused, FlushIsMarked,
         NoStaleQueued, StaleIsTold, FramesCaptured, EachSurfaceOnce, NoStaleFrame,
         ReleasedAfterThread, Out, nxVars, nxFlags, nxFrames, mishaps
<1>2. CASE NxNext
  <2>1. nxState # "gone"
    BY <1>2 DEF NxNext
  <2> QED BY <1>2, <2>1, NxCallStep, NxFlushStep, NxThreadStep, NxFrameStep DEF NxNext
<1> QED BY <1>1, <1>2

\* Every captured surface is in one place and given back once, no frame from before a flush
\* is shown after it, and nothing is released under the capture thread, for any number of
\* surfaces.
THEOREM FramesAreCaptured == NxSpec => []FramesCaptured
<1>1. NxInv => FramesCaptured
  BY DEF NxInv
<1> QED BY <1>1, NxInitInv, NxStep, PTL DEF NxSpec

================================================================================

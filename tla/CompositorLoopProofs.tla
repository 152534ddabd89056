------------------------- MODULE CompositorLoopProofs --------------------------
(***************************************************************************)
(* The event queue of CompositorLoop, for a queue of any size and any      *)
(* number of events.  The inductive invariant says what the mutex keeps    *)
(* true of the slots: those below eventIndex are filled, and so are those  *)
(* below the index that a nested handler has copied and not yet used.      *)
(***************************************************************************)
EXTENDS CompositorLoop, SequenceTheorems, TLAPS

\* InOrder, slot by slot.
Ordered ==
  ~raced =>
    /\ Len(delivered) + eventIndex = posted - InFlight
    /\ \A i \in 1..Len(delivered) : delivered[i] = i
    /\ \A i \in 0..(eventIndex - 1) : queue[i].id = Len(delivered) + i + 1

\* The index copied by a nested handler stays usable until it is used: the
\* compositor thread may reset eventIndex below it, and nothing moves it above.
ClaimSafe ==
  claimed # Unclaimed =>
    /\ IsNested
    /\ posted > 0
    /\ eventIndex <= claimed
    /\ \A i \in 0..(claimed - 1) : queue[i].id # 0

IInv ==
  /\ TypeOK
  /\ Alive => eventIndex < QueueSize
  /\ resEnd = "flagged" => ~IsNested
  /\ raced => IsNested
  /\ NoGarbageDispatched
  /\ ClaimSafe
  /\ Ordered

\* The events waiting in the queue, as a sequence.
LEMMA PendingProperties ==
  ASSUME TypeOK
  PROVE  /\ Pending \in Seq(0..MaxEvents)
         /\ Len(Pending) = eventIndex
         /\ \A i \in 1..eventIndex : Pending[i] = queue[i - 1].id
<1>1. \A i \in 1..eventIndex : queue[i - 1].id \in 0..MaxEvents
  BY LoopAssumption DEF TypeOK, Event
<1>2. eventIndex \in Nat
  BY LoopAssumption DEF TypeOK
<1> QED BY <1>1, <1>2 DEF Pending

\* The slot-wise invariant gives the property of the whole sequence.
LEMMA OrderedInOrder == TypeOK /\ Ordered => InOrder
<1> SUFFICES ASSUME TypeOK, Ordered, ~raced
             PROVE  delivered \o Pending = [i \in 1..(posted - InFlight) |-> i]
  BY DEF InOrder
<1> DEFINE n == posted - InFlight
           all == delivered \o Pending
<1>1. /\ delivered \in Seq(0..MaxEvents) /\ Len(delivered) \in Nat
      /\ eventIndex \in Nat
  BY LoopAssumption DEF TypeOK
<1>2. /\ all \in Seq(0..MaxEvents)
      /\ Len(all) = Len(delivered) + eventIndex
      /\ \A i \in 1..(Len(delivered) + eventIndex) :
           all[i] = IF i <= Len(delivered) THEN delivered[i] ELSE Pending[i - Len(delivered)]
  <2> DEFINE p == Pending
  <2>1. p \in Seq(0..MaxEvents) /\ Len(p) = eventIndex
    BY PendingProperties
  <2> HIDE DEF p
  <2>2. /\ delivered \o p \in Seq(0..MaxEvents)
        /\ Len(delivered \o p) = Len(delivered) + Len(p)
        /\ \A i \in 1..(Len(delivered) + Len(p)) :
             (delivered \o p)[i] = IF i <= Len(delivered) THEN delivered[i]
                                                          ELSE p[i - Len(delivered)]
    BY <1>1, <2>1, ConcatProperties
  <2> QED BY <2>1, <2>2 DEF p
<1>3. Len(delivered) + eventIndex = n
  BY DEF Ordered
<1> HIDE DEF all
<1>4. ASSUME NEW i \in 1..n PROVE all[i] = i
  <2>1. CASE i <= Len(delivered)
    BY <1>1, <1>2, <1>3, <2>1 DEF Ordered
  <2>2. CASE i > Len(delivered)
    <3>1. i - Len(delivered) \in 1..eventIndex
      BY <1>1, <1>3, <2>2
    <3>2. Pending[i - Len(delivered)] = queue[i - Len(delivered) - 1].id
      BY <3>1, PendingProperties
    <3>3. queue[i - Len(delivered) - 1].id = Len(delivered) + (i - Len(delivered) - 1) + 1
      BY <1>1, <3>1 DEF Ordered
    <3> QED BY <1>1, <1>2, <1>3, <2>2, <3>2, <3>3
  <2> QED BY <1>1, <2>1, <2>2
<1>5. all = [i \in 1..n |-> all[i]]
  BY <1>1, <1>2, <1>3, LenProperties
<1> QED BY <1>4, <1>5 DEF all

\* Nothing has been posted and no slot is in use.
LEMMA InitInv == Init => IInv
<1> SUFFICES ASSUME Init PROVE IInv
  OBVIOUS
<1>1. TypeOK
  <2>1. NoEvent \in Event
    BY LoopAssumption DEF Event, Kinds, NoEvent
  <2>2. delivered \in Seq(0..MaxEvents)
    BY DEF Init
  <2>3. callbacks \in [Surfaces -> 0..MaxCallbacks]
    BY LoopAssumption DEF Init
  <2>4. queue \in [0..(QueueSize - 1) -> Event]
    BY <2>1 DEF Init
  <2>5. eventIndex \in 0..QueueSize /\ posted \in 0..MaxEvents
    BY LoopAssumption DEF Init
  <2> QED BY <2>2, <2>3, <2>4, <2>5 DEF Init, TypeOK
<1> QED BY <1>1, LoopAssumption
        DEF Init, IInv, NoGarbageDispatched, ClaimSafe, Ordered, InFlight, Alive

\* A step that does not touch the queue only has to keep the types, and not to
\* bring an aborted process back.
LEMMA QuietStep ==
  ASSUME IInv, TypeOK', UNCHANGED queueVars,
         Alive' => Alive, resEnd' = "flagged" => ~IsNested
  PROVE  IInv'
BY DEF IInv, queueVars, NoGarbageDispatched, ClaimSafe, Ordered, InFlight

\* A producer on the embedder's side stores the next event in the next slot.
LEMMA ApiPostStep ==
  ASSUME IInv, TypeOK', Alive, ~IsNested, NEW kind \in Kinds,
         posted < MaxEvents, posted' = posted + 1,
         Post(eventIndex, kind, posted'),
         UNCHANGED <<claimed, delivered, raced>>,
         resEnd' = "flagged" => ~IsNested
  PROVE  IInv'
<1>1. /\ eventIndex \in 0..(QueueSize - 1)
      /\ eventIndex' = eventIndex + 1
      /\ queue' = [queue EXCEPT ![eventIndex] = [id |-> posted + 1, kind |-> kind]]
      /\ Alive' => eventIndex' < QueueSize
  BY LoopAssumption DEF IInv, TypeOK, Post, Alive
<1>2. posted \in Nat /\ claimed = Unclaimed /\ claimed' = Unclaimed
  BY DEF IInv, TypeOK, ClaimSafe
<1>3. /\ queue'[eventIndex].id = posted + 1
      /\ \A i \in 0..(eventIndex - 1) : queue'[i] = queue[i]
  BY <1>1, LoopAssumption DEF IInv, TypeOK
<1>4. NoGarbageDispatched'
  BY <1>1, <1>2, <1>3 DEF IInv, NoGarbageDispatched
<1>5. Ordered'
  <2> SUFFICES ASSUME ~raced'
               PROVE  /\ Len(delivered') + eventIndex' = posted' - InFlight'
                      /\ \A i \in 1..Len(delivered') : delivered'[i] = i
                      /\ \A i \in 0..(eventIndex' - 1) :
                           queue'[i].id = Len(delivered') + i + 1
    BY DEF Ordered
  <2>1. /\ Len(delivered) + eventIndex = posted
        /\ \A i \in 1..Len(delivered) : delivered[i] = i
        /\ \A i \in 0..(eventIndex - 1) : queue[i].id = Len(delivered) + i + 1
        /\ Len(delivered) \in Nat
    BY <1>2 DEF IInv, Ordered, InFlight, TypeOK
  <2> QED BY <1>1, <1>2, <1>3, <2>1 DEF InFlight
<1> QED BY <1>1, <1>2, <1>4, <1>5 DEF IInv, ClaimSafe

\* Copying eventIndex claims the slot that comes next.
LEMMA NestedClaimStep ==
  ASSUME IInv, TypeOK', NestedClaim
  PROVE  IInv'
<1>1. /\ posted \in Nat /\ posted' = posted + 1
      /\ eventIndex \in 0..(QueueSize - 1)
      /\ claimed = Unclaimed /\ claimed' = eventIndex /\ claimed' # Unclaimed
      /\ UNCHANGED <<queue, eventIndex, delivered, raced>>
      /\ Alive' <=> Alive
  BY LoopAssumption DEF IInv, TypeOK, NestedClaim, Alive, Unclaimed
<1>2. ClaimSafe'
  BY <1>1 DEF IInv, ClaimSafe, NoGarbageDispatched, NestedClaim
<1>3. Ordered'
  BY <1>1 DEF IInv, Ordered, InFlight
<1> QED BY <1>1, <1>2, <1>3 DEF IInv, NestedClaim, NoGarbageDispatched, sizeVars

\* The slots below the claimed one are filled, and eventIndex is not above it: the
\* slots below the new eventIndex are filled, whichever event they hold.
LEMMA NestedPostStep ==
  ASSUME IInv, TypeOK', NEW kind \in Kinds, NestedPost(kind)
  PROVE  IInv'
<1>1. /\ claimed \in 0..(QueueSize - 1) /\ claimed' = Unclaimed
      /\ posted \in Nat \ {0} /\ posted' = posted
      /\ eventIndex \in Nat /\ eventIndex' = eventIndex + 1 /\ eventIndex <= claimed
      /\ queue' = [queue EXCEPT ![claimed] = [id |-> posted, kind |-> kind]]
      /\ raced' = (raced \/ claimed # eventIndex)
      /\ delivered' = delivered
      /\ Alive' => eventIndex' < QueueSize
      /\ resEnd' = resEnd
  BY LoopAssumption DEF IInv, TypeOK, ClaimSafe, NestedPost, Post, Alive, sizeVars
<1>2. /\ queue'[claimed].id = posted
      /\ \A i \in 0..(claimed - 1) : queue'[i] = queue[i]
  BY <1>1, LoopAssumption DEF IInv, TypeOK
<1>3. NoGarbageDispatched'
  <2> SUFFICES ASSUME NEW i \in 0..(eventIndex' - 1) PROVE queue'[i].id # 0
    BY DEF NoGarbageDispatched
  <2>1. CASE i = claimed
    <3>1. posted # 0
      BY <1>1
    <3> QED BY <1>2, <2>1, <3>1
  <2>2. CASE i # claimed
    <3>1. i \in 0..(claimed - 1)
      BY <1>1, <2>2
    <3>2. queue[i].id # 0
      BY <1>1, <3>1 DEF IInv, ClaimSafe, Unclaimed
    <3> QED BY <1>2, <3>1, <3>2
  <2> QED BY <2>1, <2>2
<1>4. Ordered'
  <2> SUFFICES ASSUME ~raced'
               PROVE  /\ Len(delivered') + eventIndex' = posted' - InFlight'
                      /\ \A i \in 1..Len(delivered') : delivered'[i] = i
                      /\ \A i \in 0..(eventIndex' - 1) :
                           queue'[i].id = Len(delivered') + i + 1
    BY DEF Ordered
  <2>1. claimed = eventIndex /\ ~raced
    BY <1>1
  <2>2. InFlight = 1 /\ InFlight' = 0
    BY <1>1 DEF InFlight, Unclaimed
  <2>3. /\ Len(delivered) + eventIndex = posted - 1
        /\ \A i \in 1..Len(delivered) : delivered[i] = i
        /\ \A i \in 0..(eventIndex - 1) : queue[i].id = Len(delivered) + i + 1
        /\ Len(delivered) \in Nat
    BY <2>1, <2>2 DEF IInv, Ordered, TypeOK
  <2> QED BY <1>1, <1>2, <2>1, <2>2, <2>3
<1>5. raced' => IsNested
  BY <1>1 DEF IInv, ClaimSafe, Unclaimed
<1> QED BY <1>1, <1>3, <1>4, <1>5 DEF IInv, ClaimSafe

\* The batch is appended to what has been dispatched, and its slots stay filled
\* below a claimed index.
LEMMA ProcessEventsStep ==
  ASSUME IInv, TypeOK', ProcessEvents
  PROVE  IInv'
<1>1. /\ eventIndex' = 0 /\ eventIndex \in Nat
      /\ delivered' = delivered \o Pending
      /\ UNCHANGED <<queue, claimed, posted, raced, resEnd>>
      /\ pc = "processEvents" /\ pc' = "checkRepaint"
      /\ delivered \in Seq(0..MaxEvents) /\ Len(delivered) \in Nat
  BY LoopAssumption DEF IInv, TypeOK, ProcessEvents, sizeVars
<1>2. ClaimSafe'
  <2>1. claimed # Unclaimed => 0 <= claimed
    BY DEF IInv, TypeOK
  <2> QED BY <1>1, <2>1 DEF IInv, ClaimSafe
<1>3. Ordered'
  <2> SUFFICES ASSUME ~raced
               PROVE  /\ Len(delivered') = posted - InFlight
                      /\ \A i \in 1..Len(delivered') : delivered'[i] = i
    BY <1>1 DEF Ordered, InFlight
  <2>1. InOrder
    BY OrderedInOrder DEF IInv
  <2>2. delivered' = [i \in 1..(posted - InFlight) |-> i]
    BY <1>1, <2>1 DEF InOrder
  <2>3. Len(delivered') = Len(delivered) + eventIndex
    BY <1>1, PendingProperties, ConcatProperties DEF IInv
  <2>4. Len(delivered) + eventIndex = posted - InFlight
    BY DEF IInv, Ordered
  <2> QED BY <2>2, <2>3, <2>4
<1>4. 0 < QueueSize
  BY LoopAssumption
<1> QED BY <1>1, <1>2, <1>3, <1>4 DEF IInv, NoGarbageDispatched

\* Storing an event in a free slot keeps the types.
LEMMA PostTypes ==
  ASSUME TypeOK, eventIndex < QueueSize, NEW slot \in 0..(QueueSize - 1),
         NEW kind \in Kinds, NEW id \in 0..MaxEvents, Post(slot, kind, id)
  PROVE  /\ queue' \in [0..(QueueSize - 1) -> Event]
         /\ eventIndex' \in 0..QueueSize
         /\ pc' \in {pc, "aborted"}
         /\ Alive' => eventIndex' < QueueSize
<1>1. [id |-> id, kind |-> kind] \in Event
  BY DEF Event
<1> QED BY <1>1, LoopAssumption DEF TypeOK, Post, Alive

\* The four calls of the embedder and the parent that post an event.
LEMMA ApiPost ==
  ASSUME IInv, NEW kind \in Kinds, Alive, ~IsNested,
         posted < MaxEvents, posted' = posted + 1,
         Post(eventIndex, kind, posted'),
         allowImmediateRepaint' \in BOOLEAN, needRepaint' \in BOOLEAN,
         timerArmed' \in BOOLEAN, resEnd' \in {resEnd, "none"},
         UNCHANGED <<claimed, delivered, raced, callbacks, running, outputSizeChanged, outputSize,
                     unheard, rendererSize, announcedSize>>
  PROVE  IInv'
<1>1. /\ eventIndex \in 0..(QueueSize - 1) /\ eventIndex < QueueSize
      /\ posted' \in 0..MaxEvents
  BY LoopAssumption DEF IInv, TypeOK
<1>2. /\ queue' \in [0..(QueueSize - 1) -> Event]
      /\ eventIndex' \in 0..QueueSize
      /\ pc' \in {pc, "aborted"}
  BY <1>1, PostTypes DEF IInv
<1>3. TypeOK'
  BY <1>1, <1>2 DEF IInv, TypeOK
<1>4. resEnd' = "flagged" => ~IsNested
  OBVIOUS
<1> QED BY <1>3, <1>4, ApiPostStep

LEMMA InputInv == IInv /\ Input => IInv'
<1> SUFFICES ASSUME IInv, Input PROVE IInv'
  OBVIOUS
<1>1. ASSUME NEW kind \in {"input", "move"}, ApiInput(kind) PROVE IInv'
  BY <1>1, ApiPost DEF ApiInput, Kinds, IInv, TypeOK, paintVars, sizeVars
<1>2. ASSUME NEW kind \in {"input", "move"}, NestedPost(kind) PROVE IInv'
  <2>1. kind \in Kinds /\ Alive /\ Post(claimed, kind, posted)
    BY <1>2 DEF NestedPost, Kinds
  <2>2. /\ eventIndex < QueueSize /\ claimed \in 0..(QueueSize - 1)
        /\ posted \in 0..MaxEvents
    BY <1>2 DEF IInv, TypeOK, NestedPost
  <2>3. /\ queue' \in [0..(QueueSize - 1) -> Event]
        /\ eventIndex' \in 0..QueueSize
        /\ pc' \in {pc, "aborted"}
    BY <2>1, <2>2, PostTypes DEF IInv
  <2>4. TypeOK'
    BY <1>2, <2>3 DEF IInv, TypeOK, NestedPost, paintVars, sizeVars
  <2> QED BY <1>2, <2>1, <2>4, NestedPostStep
<1>3. ASSUME NestedClaim PROVE IInv'
  <2>1. TypeOK'
    BY <1>3, LoopAssumption DEF IInv, TypeOK, NestedClaim, paintVars, sizeVars
  <2> QED BY <1>3, <2>1, NestedClaimStep
<1> QED BY <1>1, <1>2, <1>3 DEF Input

LEMMA ResolutionChangeInv == IInv /\ ResolutionChange => IInv'
<1> SUFFICES ASSUME IInv, ResolutionChange PROVE IInv'
  OBVIOUS
<1>1. ASSUME NEW kind \in Kinds, ResolutionChangePost(kind), Alive, ~IsNested,
             resEnd' \in {resEnd, "none"},
             UNCHANGED <<running, outputSizeChanged, outputSize, unheard, rendererSize,
                         announcedSize>>
      PROVE  IInv'
  <2>1. allowImmediateRepaint' \in BOOLEAN /\ needRepaint' \in BOOLEAN /\ timerArmed' \in BOOLEAN
    BY <1>1 DEF ResolutionChangePost, ScheduleRepaint, IInv, TypeOK
  <2> QED BY <1>1, <2>1, ApiPost DEF ResolutionChangePost
<1>2. CASE ResolutionChangeBegin
  BY <1>1, <1>2 DEF ResolutionChangeBegin, Kinds, sizeVars
<1>3. ASSUME NEW z \in Sizes, ResolutionChangeEndSize(z) PROVE IInv'
  <2>1. TypeOK'
    BY <1>3 DEF IInv, TypeOK, ResolutionChangeEndSize, StoreSize, paintVars, queueVars
  <2> QED BY <1>3, <2>1, QuietStep DEF ResolutionChangeEndSize, Alive
<1>4. CASE ResolutionChangeEndFlag
  <2>1. TypeOK'
    BY <1>4 DEF IInv, TypeOK, ResolutionChangeEndFlag, paintVars, queueVars
  <2>2. resEnd' = "flagged" => ~IsNested
    BY <1>4, LoopAssumption DEF ResolutionChangeEndFlag
  <2> QED BY <1>4, <2>1, <2>2, QuietStep DEF ResolutionChangeEndFlag, Alive
<1>5. CASE ResolutionChangeEndPost
  <2>1. ~IsNested /\ "resolutionChangeEnd" \in Kinds
    BY <1>5 DEF IInv, ResolutionChangeEndPost, Kinds
  <2> QED BY <1>1, <1>5, <2>1 DEF ResolutionChangeEndPost
<1> QED BY <1>2, <1>3, <1>4, <1>5 DEF ResolutionChange

LEMMA TimerInv == IInv /\ Timer => IInv'
<1> SUFFICES ASSUME IInv, Timer PROVE IInv'
  OBVIOUS
<1>1. CASE ProcessEvents
  <2>1. delivered \in Seq(0..MaxEvents) /\ Pending \in Seq(0..MaxEvents)
    BY PendingProperties DEF IInv, TypeOK
  <2>2. delivered' \in Seq(0..MaxEvents)
    <3> DEFINE p == Pending
    <3> HIDE DEF p
    <3>1. delivered \o p \in Seq(0..MaxEvents)
      BY <2>1, ConcatProperties DEF p
    <3> QED BY <1>1, <3>1 DEF ProcessEvents, p
  <2>3. needRepaint' \in BOOLEAN /\ timerArmed' \in BOOLEAN
    BY <1>1 DEF ProcessEvents, ScheduleRepaint, IInv, TypeOK
  <2>4. eventIndex' \in 0..QueueSize
    BY <1>1, LoopAssumption DEF ProcessEvents
  <2>5. /\ pc' = "checkRepaint"
        /\ UNCHANGED <<allowImmediateRepaint, callbacks, running, outputSizeChanged, outputSize,
                       unheard, rendererSize, announcedSize, resEnd, queue, claimed, posted, raced>>
    BY <1>1 DEF ProcessEvents, sizeVars
  <2>6. TypeOK'
    BY <2>2, <2>3, <2>4, <2>5 DEF IInv, TypeOK
  <2> QED BY <1>1, <2>6, ProcessEventsStep
<1>2. ASSUME UNCHANGED queueVars, UNCHANGED resEnd, pc # "aborted", TypeOK'
      PROVE  IInv'
  BY <1>2, QuietStep DEF IInv, Alive
<1>3. CASE TimerFires
  <2>1. TypeOK'
    BY <1>3 DEF IInv, TypeOK, TimerFires, queueVars
  <2> QED BY <1>2, <1>3, <2>1 DEF TimerFires
<1>4. CASE ResizeRenderer
  <2>1. TypeOK'
    BY <1>4 DEF IInv, TypeOK, ResizeRenderer, ScheduleRepaint, queueVars
  <2> QED BY <1>2, <1>4, <2>1 DEF ResizeRenderer
<1>5. CASE ResizeOutput
  <2>1. TypeOK'
    BY <1>5 DEF IInv, TypeOK, ResizeOutput, paintVars, queueVars
  <2> QED BY <1>2, <1>5, <2>1 DEF ResizeOutput
<1>6. CASE CheckRepaint
  <2>1. TypeOK'
    BY <1>6 DEF IInv, TypeOK, CheckRepaint, sizeVars, queueVars
  <2> QED BY <1>2, <1>6, <2>1 DEF CheckRepaint, sizeVars
<1>7. CASE ComposeFrame
  <2>1. callbacks' \in [Surfaces -> 0..MaxCallbacks]
    BY <1>7, LoopAssumption DEF ComposeFrame
  <2>2. TypeOK'
    BY <1>7, <2>1 DEF IInv, TypeOK, ComposeFrame, sizeVars, queueVars
  <2> QED BY <1>2, <1>7, <2>2 DEF ComposeFrame, sizeVars
<1>8. CASE RearmTimer
  <2>1. TypeOK'
    BY <1>8 DEF IInv, TypeOK, RearmTimer, sizeVars, queueVars
  <2> QED BY <1>2, <1>8, <2>1 DEF RearmTimer, sizeVars
<1> QED BY <1>1, <1>3, <1>4, <1>5, <1>6, <1>7, <1>8 DEF Timer

LEMMA ClientsInv == IInv /\ Clients => IInv'
<1> SUFFICES ASSUME IInv, Clients PROVE IInv'
  OBVIOUS
<1>1. ASSUME UNCHANGED queueVars, UNCHANGED resEnd, UNCHANGED pc, TypeOK'
      PROVE  IInv'
  BY <1>1, QuietStep DEF IInv, Alive
<1>2. CASE SurfaceCommit
  <2>1. TypeOK'
    BY <1>2 DEF IInv, TypeOK, SurfaceCommit, ScheduleRepaint, sizeVars, queueVars
  <2> QED BY <1>1, <1>2, <2>1 DEF SurfaceCommit, sizeVars
<1>3. ASSUME NEW s \in Surfaces, SurfaceFrame(s) PROVE IInv'
  <2>1. callbacks' \in [Surfaces -> 0..MaxCallbacks]
    BY <1>3, LoopAssumption DEF IInv, TypeOK, SurfaceFrame
  <2>2. TypeOK'
    BY <1>3, <2>1 DEF IInv, TypeOK, SurfaceFrame, sizeVars, queueVars
  <2> QED BY <1>1, <1>3, <2>2 DEF SurfaceFrame, sizeVars
<1>4. ASSUME NEW s \in Surfaces, SurfaceDestroy(s) PROVE IInv'
  <2>1. callbacks' \in [Surfaces -> 0..MaxCallbacks]
    BY <1>4, LoopAssumption DEF IInv, TypeOK, SurfaceDestroy
  <2>2. TypeOK'
    BY <1>4, <2>1 DEF IInv, TypeOK, SurfaceDestroy, ScheduleRepaint, sizeVars, queueVars
  <2> QED BY <1>1, <1>4, <2>2 DEF SurfaceDestroy, sizeVars
<1> QED BY <1>2, <1>3, <1>4 DEF Clients

LEMMA StepInv == IInv /\ [Next]_vars => IInv'
<1> SUFFICES ASSUME IInv, [Next]_vars PROVE IInv'
  OBVIOUS
<1>1. ASSUME UNCHANGED queueVars, UNCHANGED resEnd, UNCHANGED pc, TypeOK'
      PROVE  IInv'
  BY <1>1, QuietStep DEF IInv, Alive
<1>2. CASE InvalidateScene
  <2>1. TypeOK'
    BY <1>2 DEF IInv, TypeOK, InvalidateScene, ScheduleRepaint, sizeVars, queueVars
  <2> QED BY <1>1, <1>2, <2>1 DEF InvalidateScene, sizeVars
<1>3. ASSUME NEW z \in Sizes, SetOutputSize(z) PROVE IInv'
  <2>1. TypeOK'
    BY <1>3 DEF IInv, TypeOK, SetOutputSize, StoreSize, paintVars, queueVars
  <2> QED BY <1>1, <1>3, <2>1 DEF SetOutputSize
<1>4. ASSUME NEW z \in Sizes, ComposeEmbedded(z) PROVE IInv'
  <2>1. TypeOK'
    BY <1>4 DEF IInv, TypeOK, ComposeEmbedded, paintVars, queueVars
  <2> QED BY <1>1, <1>4, <2>1 DEF ComposeEmbedded
<1>5. CASE UNCHANGED vars
  <2>1. TypeOK'
    BY <1>5 DEF IInv, TypeOK, vars, paintVars, sizeVars, queueVars
  <2> QED BY <1>1, <1>5, <2>1 DEF vars, sizeVars
<1>6. CASE Started
  <2>1. TypeOK'
    BY <1>6 DEF IInv, TypeOK, Started, paintVars, queueVars
  <2> QED BY <1>1, <1>6, <2>1 DEF Started
<1>7. ASSUME NEW z \in Sizes, NestedMode(z) PROVE IInv'
  <2>1. TypeOK'
    BY <1>7 DEF IInv, TypeOK, NestedMode, paintVars, queueVars
  <2> QED BY <1>1, <1>7, <2>1 DEF NestedMode
<1> QED BY <1>2, <1>3, <1>4, <1>5, <1>6, <1>7, TimerInv, ResolutionChangeInv, InputInv, ClientsInv DEF Next

\* Every slot below eventIndex, and below an index a nested handler has copied, is filled.
THEOREM InvariantHolds == Spec => []IInv
BY InitInv, StepInv, PTL DEF Spec

\* The loop's state stays well typed for any queue size, and so the queue is never
\* written outside its slots: a full queue stops the process first.
THEOREM TypeCorrect == Spec => []TypeOK
<1>1. IInv => TypeOK
  BY DEF IInv
<1> QED BY <1>1, InvariantHolds, PTL

\* Input is neither lost, repeated nor reordered, for any number of events and any
\* queue size, whatever the timer handler and the calls of the embedder do.
THEOREM InputInOrder == Spec => []InOrder
<1>1. IInv => InOrder
  BY OrderedInOrder DEF IInv
<1> QED BY <1>1, InvariantHolds, PTL

\* The loop dispatches only slots that hold an event, the race of the nested
\* handlers included.
THEOREM NoGarbage == Spec => []NoGarbageDispatched
<1>1. IInv => NoGarbageDispatched
  BY DEF IInv
<1> QED BY <1>1, InvariantHolds, PTL

\* Every step that neither posts nor dispatches leaves the abstract queue alone.
LEMMA QuietForFifo ==
  ASSUME IInv, [Next]_vars, ~ProcessEvents, ~Input,
         ~ResolutionChangeBegin, ~ResolutionChangeEndPost
  PROVE  UNCHANGED <<posted, delivered, Alive>>
<1>1. CASE Timer
  BY <1>1 DEF Timer, TimerFires, ResizeRenderer, ResizeOutput, CheckRepaint, ComposeFrame,
              RearmTimer, queueVars, Alive
<1>2. CASE ResolutionChange
  BY <1>2 DEF ResolutionChange, ResolutionChangeEndSize, ResolutionChangeEndFlag, queueVars, Alive
<1>3. CASE Clients
  BY <1>3 DEF Clients, SurfaceCommit, SurfaceFrame, SurfaceDestroy, queueVars, Alive
<1>4. CASE InvalidateScene
  BY <1>4 DEF InvalidateScene, queueVars, Alive
<1>5. ASSUME NEW z \in Sizes, SetOutputSize(z) \/ NestedMode(z)
      PROVE  UNCHANGED <<posted, delivered, Alive>>
  BY <1>5 DEF SetOutputSize, NestedMode, queueVars, Alive
<1>6. ASSUME NEW z \in Sizes, ComposeEmbedded(z) PROVE UNCHANGED <<posted, delivered, Alive>>
  BY <1>6 DEF ComposeEmbedded, queueVars, Alive
<1>7. CASE UNCHANGED vars
  BY <1>7 DEF vars, queueVars, Alive
<1>8. CASE Started
  BY <1>8 DEF Started, queueVars, Alive
<1> QED BY <1>1, <1>2, <1>3, <1>4, <1>5, <1>6, <1>7, <1>8 DEF Next

\* Posting an event is Send, dispatching the batch is DispatchAll, and everything
\* else is a stutter of the abstract queue.
LEMMA FifoStep ==
  ASSUME IInv, [Next]_vars, ~IsNested
  PROVE  [Fifo!FifoNext]_Fifo!fifoVars
<1>1. claimed = Unclaimed /\ ~raced
  BY DEF IInv, ClaimSafe
<1>2. CASE ProcessEvents
  <2>1. delivered \o Pending = [i \in 1..(posted - InFlight) |-> i]
    BY <1>1, OrderedInOrder DEF IInv, InOrder
  <2>2. posted - InFlight = posted
    BY <1>1 DEF InFlight, IInv, TypeOK
  <2>3. delivered' = [i \in 1..posted |-> i] /\ posted' = posted
    BY <1>2, <2>1, <2>2 DEF ProcessEvents
  <2>4. Alive /\ Alive'
    BY <1>2 DEF ProcessEvents, Alive
  <2> QED BY <2>3, <2>4 DEF Fifo!FifoNext, Fifo!DispatchAll
<1>3. ASSUME Alive, posted' = posted + 1, delivered' = delivered
      PROVE  Fifo!FifoNext
  <2>1. (~Alive)' \in BOOLEAN
    BY DEF Alive
  <2> QED BY <1>3, <2>1 DEF Fifo!FifoNext, Fifo!Send
<1>4. CASE Input
  BY <1>1, <1>3, <1>4 DEF Input, ApiInput, NestedPost, NestedClaim
<1>5. CASE ResolutionChangeBegin \/ ResolutionChangeEndPost
  BY <1>3, <1>5 DEF ResolutionChangeBegin, ResolutionChangeEndPost, ResolutionChangePost
<1>6. CASE UNCHANGED <<posted, delivered, Alive>>
  BY <1>6 DEF Fifo!fifoVars
<1> QED BY <1>2, <1>4, <1>5, <1>6, QuietForFifo

\* The input path of a compositor driven by its embedder implements the abstract
\* queue, for any queue size and any number of events.
THEOREM LoopImplementsFifo == ~IsNested => (Spec => ImplementsFifo)
<1> SUFFICES ASSUME ~IsNested PROVE Spec => ImplementsFifo
  OBVIOUS
<1>1. Init => Fifo!FifoInit
  BY DEF Init, Fifo!FifoInit, Alive
<1>2. IInv /\ [Next]_vars => [Fifo!FifoNext]_Fifo!fifoVars
  BY FifoStep
<1> QED BY <1>1, <1>2, InvariantHolds, PTL DEF Spec, ImplementsFifo, Fifo!FifoSpec

\* The frame clock never stops: the handler takes the armed timer away only when it
\* leaves the event loop, and comes back to the loop only by arming it again.
THEOREM ClockNeverStops == Spec => []FrameClockRuns
<1>1. Init => FrameClockRuns
  BY DEF Init, FrameClockRuns
<1>2. FrameClockRuns /\ [Next]_vars => FrameClockRuns'
  <2> SUFFICES ASSUME FrameClockRuns, [Next]_vars, pc' = "idle" PROVE timerArmed'
    BY DEF FrameClockRuns
  <2>1. CASE Timer
    BY <2>1 DEF Timer, TimerFires, ResizeRenderer, ResizeOutput, ProcessEvents, CheckRepaint,
                ComposeFrame, RearmTimer
  <2>2. CASE ResolutionChange
    BY <2>2 DEF ResolutionChange, ResolutionChangeBegin, ResolutionChangeEndSize,
                ResolutionChangeEndFlag, ResolutionChangeEndPost, ResolutionChangePost, Post,
                ScheduleRepaint, FrameClockRuns, paintVars
  <2>3. CASE Input
    BY <2>3 DEF Input, ApiInput, NestedClaim, NestedPost, Post, FrameClockRuns, paintVars
  <2>4. CASE Clients \/ InvalidateScene
    BY <2>4 DEF Clients, SurfaceCommit, SurfaceFrame, SurfaceDestroy, InvalidateScene,
                ScheduleRepaint, FrameClockRuns
  <2>5. CASE Started \/ \E z \in Sizes : SetOutputSize(z) \/ NestedMode(z) \/ ComposeEmbedded(z)
    BY <2>5 DEF Started, SetOutputSize, NestedMode, ComposeEmbedded, FrameClockRuns, paintVars
  <2>6. CASE UNCHANGED vars
    BY <2>6 DEF vars, paintVars, FrameClockRuns
  <2> QED BY <2>1, <2>2, <2>3, <2>4, <2>5, <2>6 DEF Next
<1> QED BY <1>1, <1>2, PTL DEF Spec
================================================================================

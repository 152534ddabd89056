---------------------------- MODULE SurfaceBuffers -----------------------------
(***************************************************************************)
(* The buffers of a client on their way through the compositor: attach,    *)
(* commit and release (westeros-compositor.cpp), shm pools and the         *)
(* forwarding of a repeater (westeros-nested.cpp), and the buffers of      *)
(* wl_sb (westeros-simplebuffer.cpp).                                      *)
(*                                                                         *)
(* A local compositor copies what is committed and releases the buffer at  *)
(* once.  A repeater has its own wl_shm, whose pools and buffers stand for *)
(* objects of the parent compositor, and may clone EGL buffers: the client *)
(* gets such a buffer back only after the parent has released the clone.   *)
(* The parent's releases arrive on the thread of the nested connection,    *)
(* which queues them; the compositor thread sends them on before it        *)
(* dispatches the events of a frame.  Only the queue has a lock: what the  *)
(* nested thread does before that, the compositor thread may come between. *)
(*                                                                         *)
(* A surface or buffer stands for its address.  When the client            *)
(* disconnects, its objects go in the order of their ids: any order.       *)
(***************************************************************************)
EXTENDS Naturals, FiniteSets

CONSTANTS
  Surfaces, Buffers, Pools,
  Clones,          \* wl_buffer proxies of the nested connection
  Careful,         \* clients destroy only buffers they own, and are not cut off
                   \* between attach and commit
  AddressReuse,    \* a new surface may get the address of a destroyed one
  None

ASSUME BufferAssumption ==
  /\ Careful \in BOOLEAN /\ AddressReuse \in BOOLEAN
  /\ None \notin Surfaces \cup Buffers \cup Pools \cup Clones

VARIABLES
  mode,        \* how the compositor was configured; never changes
  surface,     \* "new", "live" or "gone"
  attached,    \* surface->attachedBufferResource
  kind,        \* what each buffer resource is; "none" when there is none
  owned,       \* buffers the client may write to and attach
  onto,        \* surface each buffer was last attached to, while it lives
  pool,        \* WstShmPool
  poolOf,      \* pool of a repeater's shm buffer
  clone,       \* bufferInfo of each clone the parent holds
  latest,      \* surfaceInfo->buffer of each nested surface
  toRelease,   \* nc->buffersToRelease: how often each surface has each buffer in it
  releasing,   \* the nested thread's position in buffer_release, and the clone it is about
  raced,       \* a surface came or went under buffer_release (history)
  dying        \* the client's objects are being destroyed

client == <<kind, owned, onto>>
pools == <<pool, poolOf>>
nested == <<clone, latest, toRelease>>
parent == <<releasing, raced>>
vars == <<mode, parent, surface, attached, client, pools, nested, dying>>

--------------------------------------------------------------------------------
\* local: renders itself.  repeater: forwards shm and wl_sb buffers.  cloner: a
\* repeater that also clones EGL buffers (wl_egl_remote_* or a device buffer).
Modes == {"local", "repeater", "cloner"}
Kinds == {"none", "shm", "sb", "egl"}
IsRepeater == mode # "local"

Live == {s \in Surfaces : surface[s] = "live"}
NoPool == [refs |-> 0, resource |-> FALSE]
NoClone == [remote |-> None, surface |-> None]
NotReleasing == [step |-> "idle", clone |-> None]
EmptyQueue == [s \in Surfaces |-> [b \in Buffers |-> 0]]

\* wstShmPoolUnRef
UnRef(p) == [pool EXCEPT ![p].refs = @ - 1]

\* wl_buffer_send_release
Released(b) == IF b = None THEN owned ELSE owned \cup {b}

--------------------------------------------------------------------------------
(* Surfaces. *)

\* surfaceInfoMap gains or loses s on the compositor thread: while the nested thread
\* walks the map, that tears the walk; after it, the nested thread still has the
\* surface it found.
SurfaceInfoMapChanges(s) ==
  /\ releasing' = IF releasing.step = "walk" THEN [releasing EXCEPT !.step = "torn"]
                  ELSE releasing
  /\ raced' = \/ raced
              \/ releasing.step = "walk"
              \/ releasing.step \in {"found", "push"} /\ clone[releasing.clone].surface = s

\* wstSurfaceCreate
CreateSurface(s) ==
  /\ ~dying
  /\ surface[s] \in (IF AddressReuse THEN {"new", "gone"} ELSE {"new"})
  /\ surface' = [surface EXCEPT ![s] = "live"]
  /\ attached' = [attached EXCEPT ![s] = None]
  /\ latest' = [latest EXCEPT ![s] = None]
  /\ SurfaceInfoMapChanges(s)
  /\ UNCHANGED <<mode, client, pools, clone, toRelease, dying>>

\* Variant: the queued releases of the surface are kept.
NestedDestroyKeepsQueue(s) ==
  /\ clone' = IF latest[s] \in {None, releasing.clone} THEN clone
              ELSE [clone EXCEPT ![latest[s]] = NoClone]
  /\ latest' = [latest EXCEPT ![s] = None]
  /\ UNCHANGED toRelease

\* WstNestedConnectionDestroySurface: the surface's latest clone is destroyed (one that
\* is being released for the second time), and its entries in buffersToRelease are
\* dropped.
NestedDestroySurface(s) ==
  /\ clone' = IF latest[s] \in {None, releasing.clone} THEN clone
              ELSE [clone EXCEPT ![latest[s]] = NoClone]
  /\ latest' = [latest EXCEPT ![s] = None]
  /\ toRelease' = [toRelease EXCEPT ![s] = EmptyQueue[s]]

\* wstSurfaceDestroy: what is attached is released.
DestroySurface(s) ==
  /\ s \in Live
  /\ surface' = [surface EXCEPT ![s] = "gone"]
  /\ owned' = Released(attached[s])
  /\ attached' = [attached EXCEPT ![s] = None]
  /\ onto' = [b \in Buffers |-> IF onto[b] = s THEN None ELSE onto[b]]
  /\ NestedDestroySurface(s)
  /\ SurfaceInfoMapChanges(s)
  /\ UNCHANGED <<mode, kind, pools, dying>>

\* Variant: the buffer that is replaced is not released.
AttachForgetting(s, b) ==
  /\ ~dying
  /\ s \in Live
  /\ b # None => b \in owned \/ (b = attached[s] /\ kind[b] # "none")
  /\ attached' = [attached EXCEPT ![s] = b]
  /\ owned' = owned \ {b}
  /\ onto' = IF b = None THEN onto ELSE [onto EXCEPT ![b] = s]
  /\ UNCHANGED <<mode, parent, surface, kind, pools, nested, dying>>

\* wstISurfaceAttach
Attach(s, b) ==
  /\ ~dying
  /\ s \in Live
  /\ b # None => b \in owned \/ (b = attached[s] /\ kind[b] # "none")
  /\ attached' = [attached EXCEPT ![s] = b]
  /\ owned' = (IF attached[s] # b THEN Released(attached[s]) ELSE owned) \ {b}
  /\ onto' = IF b = None THEN onto ELSE [onto EXCEPT ![b] = s]
  /\ UNCHANGED <<mode, parent, surface, kind, pools, nested, dying>>

\* wstISurfaceCommit when the content is copied, or goes to the parent without any
\* word about its release, or nothing is attached, or the clone fails.
Commit(s) ==
  /\ ~dying
  /\ s \in Live
  /\ owned' = Released(attached[s])
  /\ attached' = [attached EXCEPT ![s] = None]
  /\ UNCHANGED <<mode, parent, surface, kind, onto, pools, nested, dying>>

\* The parent compositor is given clone c of what is attached to s.
\* WstNestedConnectionAttachAndCommitClone; AttachAndCommitDevice does the same.
AttachAndCommitClone(s, c) ==
  /\ clone[c] = NoClone
  /\ clone' = [clone EXCEPT ![c] = [remote |-> attached[s], surface |-> s]]
  /\ latest' = [latest EXCEPT ![s] = c]
  /\ UNCHANGED toRelease

\* Variant: the buffer is released at once, like any other.
CommitCloneReleases(s, c) ==
  /\ ~dying
  /\ s \in Live
  /\ mode = "cloner"
  /\ attached[s] # None /\ kind[attached[s]] = "egl"
  /\ AttachAndCommitClone(s, c)
  /\ attached' = [attached EXCEPT ![s] = None]
  /\ owned' = Released(attached[s])
  /\ UNCHANGED <<mode, parent, surface, kind, onto, pools, dying>>

\* The same of an EGL buffer that can be cloned: the surface forgets it, so that it is
\* not released before the parent releases the clone.
CommitClone(s, c) ==
  /\ ~dying
  /\ s \in Live
  /\ mode = "cloner"
  /\ attached[s] # None /\ kind[attached[s]] = "egl"
  /\ AttachAndCommitClone(s, c)
  /\ attached' = [attached EXCEPT ![s] = None]
  /\ UNCHANGED <<mode, parent, surface, client, pools, dying>>

--------------------------------------------------------------------------------
(* Buffers and pools. *)

\* wstIShmCreatePool of a repeater; the parent has wl_shm.
CreatePool(p) ==
  /\ ~dying
  /\ IsRepeater
  /\ pool[p] = NoPool
  /\ pool' = [pool EXCEPT ![p] = [refs |-> 1, resource |-> TRUE]]
  /\ UNCHANGED <<mode, parent, surface, attached, client, poolOf, nested, dying>>

\* wstShmDestroyPool
DestroyPool(p) ==
  /\ pool[p].resource
  /\ pool' = [UnRef(p) EXCEPT ![p].resource = FALSE]
  /\ UNCHANGED <<mode, parent, surface, attached, client, poolOf, nested, dying>>

\* Variant: the buffer does not count in its pool.
CreateShmBufferUncounted(b, p) ==
  /\ ~dying
  /\ kind[b] = "none"
  /\ pool[p].resource
  /\ poolOf' = [poolOf EXCEPT ![b] = p]
  /\ kind' = [kind EXCEPT ![b] = "shm"]
  /\ owned' = owned \cup {b}
  /\ UNCHANGED <<mode, parent, surface, attached, onto, pool, nested, dying>>

\* wstIShmPoolCreateBuffer
CreateShmBuffer(b, p) ==
  /\ ~dying
  /\ kind[b] = "none"
  /\ pool[p].resource
  /\ pool' = [pool EXCEPT ![p].refs = @ + 1]
  /\ poolOf' = [poolOf EXCEPT ![b] = p]
  /\ kind' = [kind EXCEPT ![b] = "shm"]
  /\ owned' = owned \cup {b}
  /\ UNCHANGED <<mode, parent, surface, attached, onto, nested, dying>>

\* wstSBCreateBuffer
CreateSbBuffer(b) ==
  /\ ~dying
  /\ kind[b] = "none"
  /\ kind' = [kind EXCEPT ![b] = "sb"]
  /\ owned' = owned \cup {b}
  /\ UNCHANGED <<mode, parent, surface, attached, onto, pools, nested, dying>>

\* A buffer of an EGL implementation, or of libwayland's wl_shm in a local compositor.
CreateBuffer(b) ==
  /\ ~dying
  /\ kind[b] = "none"
  /\ kind' = [kind EXCEPT ![b] = IF IsRepeater THEN "egl" ELSE "shm"]
  /\ owned' = owned \cup {b}
  /\ UNCHANGED <<mode, parent, surface, attached, onto, pools, nested, dying>>

\* Variant: the surface keeps a destroyed buffer attached.
SbReleaseBufferNot(b) == {attached}

\* sbReleaseBuffer detaches a wl_sb buffer from the first surface that has it, which may
\* be any of them; nothing detaches a buffer of another kind.  The possible results.
SbReleaseBuffer(b) ==
  LET holders == {s \in Live : attached[s] = b}
  IN  IF kind[b] = "sb" /\ holders # {}
      THEN {[attached EXCEPT ![s] = None] : s \in holders} ELSE {attached}

\* wstShmBufferDestroy: the buffer no longer counts in its pool.
ShmBufferDestroy(b) ==
  /\ pool' = IF poolOf[b] # None THEN UnRef(poolOf[b]) ELSE pool
  /\ poolOf' = [poolOf EXCEPT ![b] = None]

\* wl_buffer.destroy, or the end of the client.
DestroyBuffer(b) ==
  /\ kind[b] # "none"
  /\ Careful /\ ~dying => b \in owned \/ (kind[b] = "sb" /\ \E s \in Live : attached[s] = b)
  /\ kind' = [kind EXCEPT ![b] = "none"]
  /\ owned' = owned \ {b}
  /\ onto' = [onto EXCEPT ![b] = None]
  /\ attached' \in SbReleaseBuffer(b)
  /\ ShmBufferDestroy(b)
  /\ UNCHANGED <<mode, parent, surface, nested, dying>>

Disconnect ==
  /\ ~dying
  /\ Careful => \A s \in Live : attached[s] # None => kind[attached[s]] = "sb"
  /\ dying' = TRUE
  /\ UNCHANGED <<mode, parent, surface, attached, client, pools, nested>>

\* The last object of the client is gone.
ClientGone ==
  /\ dying
  /\ Live = {} /\ \A b \in Buffers : kind[b] = "none" /\ \A p \in Pools : ~pool[p].resource
  /\ dying' = FALSE
  /\ UNCHANGED <<mode, parent, surface, attached, client, pools, nested>>

--------------------------------------------------------------------------------
(* The release of a clone: buffer_release on the nested connection's thread, then  *)
(* WstNestedConnectionReleaseRemoteBuffers on the compositor's.                    *)

\* The proxy of the clone is destroyed; bufferInfo stays until the end of the handler.
ParentReleases(c) ==
  /\ releasing = NotReleasing
  /\ clone[c] # NoClone
  /\ releasing' = [step |-> "walk", clone |-> c]
  /\ UNCHANGED <<mode, raced, surface, attached, client, pools, nested, dying>>

\* The walk of surfaceInfoMap ends.  One that was torn may find what is gone, or miss
\* what is there.
FindSurface ==
  /\ \/ releasing.step = "walk" /\ clone[releasing.clone].surface \in Live
     \/ releasing.step = "torn"
  /\ releasing' = [releasing EXCEPT !.step = "found"]
  /\ UNCHANGED <<mode, raced, surface, attached, client, pools, nested, dying>>

\* The surface is gone: the release goes no further.
SurfaceNotFound ==
  /\ \/ releasing.step = "walk" /\ clone[releasing.clone].surface \notin Live
     \/ releasing.step = "torn"
  /\ clone' = [clone EXCEPT ![releasing.clone] = NoClone]
  /\ releasing' = NotReleasing
  /\ UNCHANGED <<mode, raced, surface, attached, client, pools, latest, toRelease, dying>>

\* surfaceInfo->buffer is cleared, even when it is a newer clone by now.
ForgetClone ==
  /\ releasing.step = "found"
  /\ latest' = [latest EXCEPT ![clone[releasing.clone].surface] = None]
  /\ releasing' = [releasing EXCEPT !.step = "push"]
  /\ UNCHANGED <<mode, raced, surface, attached, client, pools, clone, toRelease, dying>>

\* The client's buffer is queued, under the lock, whatever has become of the surface.
QueueRelease ==
  LET info == clone[releasing.clone]
  IN  /\ releasing.step = "push"
      /\ toRelease' = [toRelease EXCEPT ![info.surface][info.remote] = @ + 1]
      /\ clone' = [clone EXCEPT ![releasing.clone] = NoClone]
      /\ releasing' = NotReleasing
      /\ UNCHANGED <<mode, raced, surface, attached, client, pools, latest, dying>>

\* wstCompositorProcessEvents sends every queued release.  (All of them go, so that their
\* order in the queue is left out.)
ReleaseRemoteBuffers ==
  /\ ~dying
  /\ toRelease # EmptyQueue
  /\ owned' = owned \cup {b \in Buffers : \E s \in Surfaces : toRelease[s][b] > 0}
  /\ toRelease' = EmptyQueue
  /\ UNCHANGED <<mode, parent, surface, attached, kind, onto, pools, clone, latest, dying>>

--------------------------------------------------------------------------------
Init ==
  /\ mode \in Modes
  /\ surface = [s \in Surfaces |-> "new"]
  /\ attached = [s \in Surfaces |-> None]
  /\ kind = [b \in Buffers |-> "none"]
  /\ owned = {}
  /\ onto = [b \in Buffers |-> None]
  /\ pool = [p \in Pools |-> NoPool]
  /\ poolOf = [b \in Buffers |-> None]
  /\ clone = [c \in Clones |-> NoClone]
  /\ latest = [s \in Surfaces |-> None]
  /\ toRelease = EmptyQueue
  /\ releasing = NotReleasing
  /\ raced = FALSE
  /\ dying = FALSE

Next ==
  \/ \E s \in Surfaces :
       \/ CreateSurface(s)
       \/ DestroySurface(s)
       \/ \E b \in Buffers \cup {None} : Attach(s, b)
       \/ Commit(s)
       \/ \E c \in Clones : CommitClone(s, c)
  \/ \E p \in Pools :
       \/ CreatePool(p)
       \/ DestroyPool(p)
       \/ \E b \in Buffers : CreateShmBuffer(b, p)
  \/ \E b \in Buffers :
       \/ CreateSbBuffer(b)
       \/ CreateBuffer(b)
       \/ DestroyBuffer(b)
  \/ \E c \in Clones : ParentReleases(c)
  \/ FindSurface \/ SurfaceNotFound \/ ForgetClone \/ QueueRelease
  \/ Disconnect \/ ClientGone \/ ReleaseRemoteBuffers

Spec == Init /\ [][Next]_vars

--------------------------------------------------------------------------------
(* Properties. *)

TypeOK ==
  /\ mode \in Modes
  /\ surface \in [Surfaces -> {"new", "live", "gone"}]
  /\ attached \in [Surfaces -> Buffers \cup {None}]
  /\ kind \in [Buffers -> Kinds]
  /\ owned \subseteq Buffers
  /\ onto \in [Buffers -> Surfaces \cup {None}]
  /\ pool \in [Pools -> [refs : Nat, resource : BOOLEAN]]
  /\ poolOf \in [Buffers -> Pools \cup {None}]
  /\ clone \in [Clones -> [remote : Buffers \cup {None}, surface : Surfaces \cup {None}]]
  /\ latest \in [Surfaces -> Clones \cup {None}]
  /\ toRelease \in [Surfaces -> [Buffers -> Nat]]
  /\ releasing \in [step : {"idle", "walk", "torn", "found", "push"},
                    clone : Clones \cup {None}]
  /\ raced \in BOOLEAN
  /\ dying \in BOOLEAN

\* The releases of buffer b owed to the client, by what will send them: a surface it is
\* attached to, a clone of it (unless the surface is gone, when the release goes no
\* further), an entry of the queue.
Debts(b) ==
  {<<"attached", s>> : s \in {t \in Surfaces : attached[t] = b}}
    \cup {<<"clone", c>> :
            c \in {d \in Clones : clone[d].remote = b /\ clone[d].surface \in Live}}
    \cup UNION {{<<"queued", s, n>> : n \in 1..toRelease[s][b]} : s \in Surfaces}

\* A release is sent only for a buffer that exists: what is attached does, and so does
\* what is queued, whenever the compositor thread may send it.
ReleasesReachLiveBuffers ==
  /\ \A s \in Surfaces : attached[s] # None => kind[attached[s]] # "none"
  /\ ~dying => \A s \in Surfaces, b \in Buffers : toRelease[s][b] > 0 => kind[b] # "none"

\* No buffer is released twice for one attach: a buffer the client owns is owed nothing,
\* and one it does not own is owed at most one release.
ReleasedOnce ==
  \A b \in Buffers : kind[b] # "none" => Cardinality(Debts(b)) <= (IF b \in owned THEN 0 ELSE 1)

\* Every buffer handed over is owed a release as long as its surface lives: attach,
\* commit, the parent's release and the frame pass the debt on and never drop it.
\* (Destroying the surface does drop it.)
ReleaseOwed ==
  \A b \in Buffers :
    kind[b] # "none" /\ b \notin owned /\ onto[b] # None => Cardinality(Debts(b)) = 1

\* One release for one attach, no more and no less, over commits, clones, frames, the
\* steps of the parent's releases and destructions of buffers and surfaces; until a
\* surface comes or goes under a release (QueuedForLiving).
ReleasedPerAttach == raced \/ (ReleasedOnce /\ ReleaseOwed)

\* A pool of a repeater lives exactly as long as its resource or one of its buffers:
\* in whatever order they are destroyed, the last one frees it.
PoolCounted ==
  \A p \in Pools :
    pool[p].refs = Cardinality({b \in Buffers : poolOf[b] = p})
                     + (IF pool[p].resource THEN 1 ELSE 0)

\* What a release, a commit or a frame of a repeater touches is there: the buffers, until
\* a surface comes or goes under a release of the parent, and the pools that back them,
\* always.
BuffersAndPoolsLive == (raced \/ ReleasesReachLiveBuffers) /\ PoolCounted

\* Not so: a release is queued only for a surface that lives, which the walk of
\* surfaceInfoMap and the purge of WstNestedConnectionDestroySurface are for.  The
\* surface can be destroyed between the walk and the push.
QueuedForLiving == \A s \in Surfaces, b \in Buffers : toRelease[s][b] > 0 => s \in Live

\* Not so: the clone destroyed with its surface has not been destroyed before.
\* buffer_release destroys it first and takes it from its surface later.
ClonesDestroyedOnce ==
  [][\A s \in Surfaces :
       s \in Live /\ s \notin Live' /\ latest[s] # None => latest[s] # releasing.clone]_vars
================================================================================

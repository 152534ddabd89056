-------------------------- MODULE SurfaceBuffersProofs --------------------------
(***************************************************************************)
(* What SurfaceBuffers promises about releases and pools holds for any     *)
(* number of surfaces, buffers, pools and clones.  The pools are counted   *)
(* right whatever a client does; that releases match attaches needs a      *)
(* client that is Careful and addresses that are not used again, without   *)
(* which TLC refutes it, and is known only until a surface comes or goes   *)
(* under one of the parent's releases.  The inductive invariant follows    *)
(* each buffer: at most one thing owes its release, on the surface it was  *)
(* last attached to, and nothing does once the client owns the buffer.     *)
(***************************************************************************)
EXTENDS SurfaceBuffers, FiniteSetTheorems, TLAPS

--------------------------------------------------------------------------------
(* Pools. *)

InPool(p) == {b \in Buffers : poolOf[b] = p}

PoolInv ==
  /\ TypeOK
  /\ \A p \in Pools : IsFiniteSet(InPool(p))
  /\ PoolCounted
  /\ \A b \in Buffers : kind[b] = "none" => poolOf[b] = None

\* Initially there are no pools.
LEMMA PoolInit == Init => PoolInv
<1> SUFFICES ASSUME Init PROVE PoolInv
  OBVIOUS
<1>1. TypeOK
  BY DEF Init, TypeOK, Kinds, NoPool, NoClone, EmptyQueue, NotReleasing
<1>2. ASSUME NEW p \in Pools
      PROVE  InPool(p) = {} /\ pool[p].refs = 0 /\ ~pool[p].resource
  BY <1>2, BufferAssumption DEF Init, InPool, NoPool
<1>3. IsFiniteSet({}) /\ Cardinality({}) = 0
  BY FS_EmptySet
<1> QED BY <1>1, <1>2, <1>3 DEF Init, PoolInv, PoolCounted, InPool

\* The surfaces' part of the state does not matter to the pools.
LEMMA PoolsUntouched ==
  ASSUME PoolInv, TypeOK', UNCHANGED pools,
         \A b \in Buffers : kind'[b] = "none" => kind[b] = "none" \/ poolOf[b] = None
  PROVE  PoolInv'
BY DEF PoolInv, PoolCounted, InPool, pools

LEMMA CreatePoolPools ==
  ASSUME PoolInv, NEW p \in Pools, CreatePool(p)
  PROVE  PoolInv'
<1>1. /\ pool[p].refs = 0 /\ ~pool[p].resource
      /\ pool' = [pool EXCEPT ![p] = [refs |-> 1, resource |-> TRUE]]
      /\ UNCHANGED <<mode, releasing, raced, surface, attached, kind, owned, onto, poolOf, clone, latest,
                    toRelease, dying>>
  BY DEF CreatePool, NoPool, client, nested, parent
<1>2. TypeOK'
  BY <1>1 DEF PoolInv, TypeOK
<1>3. pool[p].refs = Cardinality(InPool(p))
  <2>1. pool[p].refs = Cardinality(InPool(p)) + 0
    BY <1>1 DEF PoolInv, PoolCounted, InPool
  <2>2. Cardinality(InPool(p)) \in Nat
    BY FS_CardinalityType DEF PoolInv
  <2> QED BY <2>1, <2>2
<1>4. ASSUME NEW q \in Pools
      PROVE  pool'[q].refs = Cardinality(InPool(q)') + (IF pool'[q].resource THEN 1 ELSE 0)
  <2>1. InPool(q)' = InPool(q)
    BY <1>1 DEF InPool
  <2>2. CASE q = p
    BY <1>1, <1>3, <2>1, <2>2 DEF PoolInv, TypeOK
  <2>3. CASE q # p
    BY <1>1, <2>1, <2>3 DEF PoolInv, PoolCounted, TypeOK, InPool
  <2> QED BY <2>2, <2>3
<1> QED BY <1>1, <1>2, <1>4 DEF PoolInv, PoolCounted, InPool

\* wl_shm_pool.destroy: the pool may go on for its buffers.
LEMMA DestroyPoolPools ==
  ASSUME PoolInv, NEW p \in Pools, DestroyPool(p)
  PROVE  PoolInv'
<1> DEFINE n == Cardinality(InPool(p))
<1>1. n \in Nat
  BY FS_CardinalityType DEF PoolInv
<1>2. pool[p].resource /\ pool[p].refs = n + 1
  BY DEF DestroyPool, PoolInv, PoolCounted, InPool
<1> HIDE DEF n
<1>3. /\ pool' = [pool EXCEPT ![p].refs = n, ![p].resource = FALSE]
      /\ UNCHANGED <<mode, releasing, raced, surface, attached, kind, owned, onto, poolOf, clone, latest,
                    toRelease, dying>>
  BY <1>1, <1>2 DEF DestroyPool, UnRef, PoolInv, TypeOK, client, nested, parent
<1>4. /\ pool' \in [Pools -> [refs : Nat, resource : BOOLEAN]]
      /\ pool'[p].refs = n /\ ~pool'[p].resource
      /\ \A q \in Pools \ {p} : pool'[q] = pool[q]
  BY <1>1, <1>3 DEF PoolInv, TypeOK
<1>5. TypeOK'
  BY <1>3, <1>4 DEF PoolInv, TypeOK
<1>6. ASSUME NEW q \in Pools
      PROVE  pool'[q].refs = Cardinality(InPool(q)') + (IF pool'[q].resource THEN 1 ELSE 0)
  <2>1. InPool(q)' = InPool(q)
    BY <1>3 DEF InPool
  <2>2. CASE q = p
    BY <1>1, <1>4, <2>1, <2>2 DEF n
  <2>3. CASE q # p
    BY <1>4, <2>1, <2>3 DEF PoolInv, PoolCounted, InPool
  <2> QED BY <2>2, <2>3
<1> QED BY <1>3, <1>5, <1>6 DEF PoolInv, PoolCounted, InPool

LEMMA CreateShmBufferPools ==
  ASSUME PoolInv, NEW b \in Buffers, NEW p \in Pools, CreateShmBuffer(b, p)
  PROVE  PoolInv'
<1>1. /\ poolOf[b] = None
      /\ pool' = [pool EXCEPT ![p].refs = @ + 1]
      /\ poolOf' = [poolOf EXCEPT ![b] = p]
      /\ kind' = [kind EXCEPT ![b] = "shm"]
      /\ owned' = owned \cup {b}
      /\ UNCHANGED <<mode, releasing, raced, surface, attached, onto, clone, latest, toRelease, dying>>
  BY DEF CreateShmBuffer, PoolInv, nested, parent
<1>2. /\ pool' \in [Pools -> [refs : Nat, resource : BOOLEAN]]
      /\ \A q \in Pools : /\ pool'[q].refs = IF q = p THEN pool[q].refs + 1 ELSE pool[q].refs
                          /\ pool'[q].resource = pool[q].resource
  BY <1>1 DEF PoolInv, TypeOK
<1>3. TypeOK'
  BY <1>1, <1>2 DEF PoolInv, TypeOK, Kinds
<1>4. ASSUME NEW q \in Pools
      PROVE  /\ IsFiniteSet(InPool(q)')
             /\ pool'[q].refs = Cardinality(InPool(q)') + (IF pool'[q].resource THEN 1 ELSE 0)
  <2>1. /\ IsFiniteSet(InPool(q)) /\ Cardinality(InPool(q)) \in Nat
        /\ pool[q].refs = Cardinality(InPool(q)) + (IF pool[q].resource THEN 1 ELSE 0)
    BY FS_CardinalityType DEF PoolInv, PoolCounted, InPool
  <2>2. CASE q = p
    <3>1. InPool(q)' = InPool(q) \cup {b} /\ b \notin InPool(q)
      BY <1>1, <2>2, BufferAssumption DEF InPool, PoolInv, TypeOK
    <3>2. IsFiniteSet(InPool(q) \cup {b})
          /\ Cardinality(InPool(q) \cup {b}) = Cardinality(InPool(q)) + 1
      BY <2>1, <3>1, FS_AddElement
    <3>3. Cardinality(InPool(q)') = Cardinality(InPool(q)) + 1
      BY <3>1, <3>2
    <3> QED BY <1>2, <2>1, <2>2, <3>1, <3>2, <3>3
  <2>3. CASE q # p
    <3>1. InPool(q)' = InPool(q)
      BY <1>1, <2>3, BufferAssumption DEF InPool, PoolInv, TypeOK
    <3> QED BY <1>2, <2>1, <2>3, <3>1
  <2> QED BY <2>2, <2>3
<1> QED BY <1>1, <1>3, <1>4 DEF PoolInv, PoolCounted, InPool, TypeOK

\* Destroying a buffer takes it off its pool's count, at most once.
LEMMA DestroyBufferPools ==
  ASSUME PoolInv, NEW b \in Buffers, DestroyBuffer(b)
  PROVE  PoolInv'
<1>1. /\ kind' = [kind EXCEPT ![b] = "none"] /\ owned' = owned \ {b}
      /\ onto' = [onto EXCEPT ![b] = None]
      /\ attached' \in SbReleaseBuffer(b)
      /\ pool' = IF poolOf[b] # None THEN UnRef(poolOf[b]) ELSE pool
      /\ poolOf' = [poolOf EXCEPT ![b] = None]
      /\ UNCHANGED <<mode, releasing, raced, surface, clone, latest, toRelease, dying>>
  BY DEF DestroyBuffer, ShmBufferDestroy, nested, parent
<1>2. attached' \in [Surfaces -> Buffers \cup {None}]
  <2>1. attached' = attached \/ \E s \in Surfaces : attached' = [attached EXCEPT ![s] = None]
    BY <1>1 DEF SbReleaseBuffer, Live
  <2> QED BY <2>1 DEF PoolInv, TypeOK
<1>3. ASSUME NEW q \in Pools
      PROVE  /\ IsFiniteSet(InPool(q)')
             /\ pool'[q] \in [refs : Nat, resource : BOOLEAN]
             /\ pool'[q].refs = Cardinality(InPool(q)') + (IF pool'[q].resource THEN 1 ELSE 0)
  <2>1. /\ IsFiniteSet(InPool(q)) /\ Cardinality(InPool(q)) \in Nat
        /\ pool[q].refs = Cardinality(InPool(q)) + (IF pool[q].resource THEN 1 ELSE 0)
        /\ pool[q] \in [refs : Nat, resource : BOOLEAN]
    BY FS_CardinalityType DEF PoolInv, PoolCounted, InPool, TypeOK
  <2>2. CASE poolOf[b] = q
    <3>1. InPool(q)' = InPool(q) \ {b} /\ b \in InPool(q)
      BY <1>1, <2>2, BufferAssumption DEF InPool, PoolInv, TypeOK
    <3>2. pool' = [pool EXCEPT ![q].refs = @ - 1]
      BY <1>1, <2>2, BufferAssumption DEF UnRef
    <3>3. /\ pool'[q].refs = pool[q].refs - 1 /\ pool'[q].resource = pool[q].resource
          /\ pool'[q] = [pool[q] EXCEPT !.refs = @ - 1]
      BY <3>2 DEF PoolInv, TypeOK
    <3>4. /\ IsFiniteSet(InPool(q) \ {b})
          /\ Cardinality(InPool(q) \ {b}) = Cardinality(InPool(q)) - 1
      BY <2>1, <3>1, FS_RemoveElement
    <3>5. Cardinality(InPool(q)') = Cardinality(InPool(q)) - 1
          /\ Cardinality(InPool(q)') \in Nat
      BY <3>1, <3>4, FS_CardinalityType
    <3> QED BY <2>1, <3>1, <3>3, <3>4, <3>5
  <2>3. CASE poolOf[b] # q
    <3>1. InPool(q)' = InPool(q) /\ pool'[q] = pool[q]
      BY <1>1, <2>3, BufferAssumption DEF InPool, PoolInv, TypeOK, UnRef
    <3> QED BY <2>1, <3>1
  <2> QED BY <2>2, <2>3
<1>4. pool' \in [Pools -> [refs : Nat, resource : BOOLEAN]]
  <2>1. DOMAIN pool' = Pools /\ pool' = [q \in Pools |-> pool'[q]]
    BY <1>1 DEF UnRef, PoolInv, TypeOK
  <2> QED BY <1>3, <2>1
<1>5. TypeOK'
  BY <1>1, <1>2, <1>4 DEF PoolInv, TypeOK, Kinds
<1> QED BY <1>1, <1>3, <1>5 DEF PoolInv, PoolCounted, InPool, TypeOK

\* Surfaces, and what happens to buffers without their creation and destruction.
LEMMA SurfaceActionPools ==
  ASSUME PoolInv,
         \/ UNCHANGED vars
         \/ \E s \in Surfaces : \/ CreateSurface(s) \/ DestroySurface(s) \/ Commit(s)
                                \/ \E b \in Buffers \cup {None} : Attach(s, b)
                                \/ \E c \in Clones : CommitClone(s, c)
         \/ \E c \in Clones : ParentReleases(c)
         \/ FindSurface \/ SurfaceNotFound \/ ForgetClone \/ QueueRelease
         \/ Disconnect \/ ClientGone \/ ReleaseRemoteBuffers
  PROVE  PoolInv'
<1> DEFINE Fine == TypeOK' /\ UNCHANGED <<pools, kind>>
<1> USE DEF PoolInv, TypeOK, client, pools, nested, parent
<1>1. CASE UNCHANGED vars
  BY <1>1, PoolsUntouched DEF vars
<1>2. ASSUME NEW s \in Surfaces, CreateSurface(s) PROVE Fine
  <2>1. releasing' \in [step : {"idle", "walk", "torn", "found", "push"},
                        clone : Clones \cup {None}]
        /\ raced' \in BOOLEAN
    BY <1>2 DEF CreateSurface, SurfaceInfoMapChanges
  <2> QED BY <1>2, <2>1 DEF CreateSurface
<1>3. ASSUME NEW s \in Surfaces, DestroySurface(s) PROVE Fine
  <2>1. clone' \in [Clones -> [remote : Buffers \cup {None}, surface : Surfaces \cup {None}]]
        /\ latest' \in [Surfaces -> Clones \cup {None}]
        /\ toRelease' \in [Surfaces -> [Buffers -> Nat]]
    BY <1>3 DEF DestroySurface, NestedDestroySurface, NoClone, EmptyQueue
  <2>2. /\ surface' \in [Surfaces -> {"new", "live", "gone"}]
        /\ owned' \subseteq Buffers
        /\ attached' \in [Surfaces -> Buffers \cup {None}]
        /\ onto' \in [Buffers -> Surfaces \cup {None}]
    BY <1>3 DEF DestroySurface, Released
  <2>3. releasing' \in [step : {"idle", "walk", "torn", "found", "push"},
                        clone : Clones \cup {None}]
        /\ raced' \in BOOLEAN
    BY <1>3 DEF DestroySurface, SurfaceInfoMapChanges
  <2> QED BY <1>3, <2>1, <2>2, <2>3 DEF DestroySurface
<1>4. ASSUME NEW s \in Surfaces, Commit(s) PROVE Fine
  BY <1>4 DEF Commit, Released
<1>5. ASSUME NEW s \in Surfaces, NEW b \in Buffers \cup {None}, Attach(s, b) PROVE Fine
  BY <1>5 DEF Attach, Released
<1>6. ASSUME NEW s \in Surfaces, NEW c \in Clones, CommitClone(s, c) PROVE Fine
  BY <1>6 DEF CommitClone, AttachAndCommitClone
<1>7. CASE (\E c \in Clones : ParentReleases(c)) \/ FindSurface \/ ForgetClone \/ SurfaceNotFound
  <2>1. releasing' \in [step : {"idle", "walk", "torn", "found", "push"},
                        clone : Clones \cup {None}]
    BY <1>7 DEF ParentReleases, FindSurface, ForgetClone, SurfaceNotFound, NotReleasing
  <2>2. clone' \in [Clones -> [remote : Buffers \cup {None}, surface : Surfaces \cup {None}]]
    BY <1>7 DEF ParentReleases, FindSurface, ForgetClone, SurfaceNotFound, NoClone
  <2>3. latest' \in [Surfaces -> Clones \cup {None}]
    BY <1>7 DEF ParentReleases, FindSurface, ForgetClone, SurfaceNotFound
  <2>4. Fine
    BY <1>7, <2>1, <2>2, <2>3 DEF ParentReleases, FindSurface, ForgetClone, SurfaceNotFound
  <2> QED BY <2>4, PoolsUntouched
<1>10. CASE QueueRelease
  <2>1. clone' \in [Clones -> [remote : Buffers \cup {None}, surface : Surfaces \cup {None}]]
    BY <1>10 DEF QueueRelease, NoClone
  <2>2. toRelease' \in [Surfaces -> [Buffers -> Nat]]
    <3> DEFINE t == clone[releasing.clone].surface
               q == [toRelease[t] EXCEPT ![clone[releasing.clone].remote] = @ + 1]
    <3>1. toRelease' = [toRelease EXCEPT ![t] = q]
      BY <1>10 DEF QueueRelease
    <3>2. t \in Surfaces => q \in [Buffers -> Nat]
      <4>1. ASSUME NEW f \in [Buffers -> Nat], NEW b
            PROVE  [f EXCEPT ![b] = @ + 1] \in [Buffers -> Nat]
        <5>1. CASE b \in Buffers
          BY <5>1
        <5>2. CASE b \notin Buffers
          BY <5>2
        <5> QED BY <5>1, <5>2
      <4> HIDE DEF t
      <4> QED BY <4>1
    <3> HIDE DEF q, t
    <3> QED BY <3>1, <3>2
  <2>3. Fine
    BY <1>10, <2>1, <2>2 DEF QueueRelease, NotReleasing
  <2> QED BY <2>3, PoolsUntouched
<1>8. CASE Disconnect \/ ClientGone
  <2>1. Fine
    BY <1>8 DEF Disconnect, ClientGone
  <2> QED BY <2>1, PoolsUntouched
<1>9. CASE ReleaseRemoteBuffers
  <2>1. Fine
    BY <1>9 DEF ReleaseRemoteBuffers, EmptyQueue
  <2> QED BY <2>1, PoolsUntouched
<1> QED BY <1>1, <1>2, <1>3, <1>4, <1>5, <1>6, <1>7, <1>8, <1>9, <1>10, PoolsUntouched

\* A buffer of another kind is in no pool.
LEMMA CreateBufferPools ==
  ASSUME PoolInv, NEW b \in Buffers, CreateSbBuffer(b) \/ CreateBuffer(b)
  PROVE  PoolInv'
<1>1. PICK k \in Kinds \ {"none"} : kind' = [kind EXCEPT ![b] = k]
  BY DEF CreateSbBuffer, CreateBuffer, Kinds
<1>2. owned' = owned \cup {b}
      /\ UNCHANGED <<mode, releasing, raced, surface, attached, onto, pool, poolOf, clone, latest, toRelease, dying>>
  BY DEF CreateSbBuffer, CreateBuffer, pools, nested, parent
<1>3. TypeOK'
  BY <1>1, <1>2 DEF PoolInv, TypeOK
<1> QED BY <1>1, <1>2, <1>3, PoolsUntouched DEF PoolInv, TypeOK, pools

LEMMA PoolStep == PoolInv /\ [Next]_vars => PoolInv'
<1> SUFFICES ASSUME PoolInv, [Next]_vars PROVE PoolInv'
  OBVIOUS
<1> QED BY CreatePoolPools, DestroyPoolPools, CreateShmBufferPools, DestroyBufferPools,
           SurfaceActionPools, CreateBufferPools DEF Next

\* Whatever a client does with pools and buffers, each pool is counted and in its place.
THEOREM PoolsHold == Spec => []PoolInv
BY PoolInit, PoolStep, PTL DEF Spec

\* The state is well-typed; a pool's count never goes below zero.
THEOREM TypeCorrect == Spec => []TypeOK
<1>1. PoolInv => TypeOK BY DEF PoolInv
<1> QED BY <1>1, PoolsHold, PTL

\* In whatever order a client destroys pools and buffers, the last of them frees the pool.
THEOREM PoolsAreCounted == Spec => []PoolCounted
<1>1. PoolInv => PoolCounted BY DEF PoolInv
<1> QED BY <1>1, PoolsHold, PTL

--------------------------------------------------------------------------------
(* Releases. *)

\* Clone c will release b.
Carries(c, b) == clone[c].remote = b /\ clone[c].surface \in Live

\* What owes the release of b is on the surface b was last attached to, and alone.
OneDebtor(b) ==
  /\ \A s \in Surfaces : attached[s] = b => onto[b] = s /\ b \notin owned
  /\ \A c \in Clones : Carries(c, b) =>
       /\ onto[b] = clone[c].surface /\ b \notin owned
       /\ \A s \in Surfaces : attached[s] # b
       /\ \A d \in Clones : Carries(d, b) => d = c
  /\ \A s \in Surfaces : toRelease[s][b] # 0 =>
       /\ onto[b] = s /\ b \notin owned /\ toRelease[s][b] = 1
       /\ \A t \in Surfaces : attached[t] # b
       /\ \A c \in Clones : ~Carries(c, b)

NoDebtor(b) ==
  /\ \A s \in Surfaces : attached[s] # b /\ toRelease[s][b] = 0
  /\ \A c \in Clones : ~Carries(c, b)

ReleaseDue(b) ==
  b \notin owned /\ onto[b] # None =>
    \/ \E s \in Surfaces : attached[s] = b \/ toRelease[s][b] # 0
    \/ \E c \in Clones : Carries(c, b)

\* Only live surfaces hold buffers, entries of the queue and their latest clone; and
\* while a client is being destroyed only buffers of wl_sb are attached, which are
\* detached in time.
HoldersLive ==
  /\ \A s \in Surfaces : attached[s] # None =>
       /\ s \in Live /\ kind[attached[s]] # "none"
       /\ dying => kind[attached[s]] = "sb"
  /\ \A s \in Surfaces, b \in Buffers : toRelease[s][b] # 0 => s \in Live
  /\ \A s \in Surfaces : latest[s] # None => s \in Live /\ clone[latest[s]].surface = s
  /\ \A c \in Clones : clone[c] # NoClone =>
       /\ clone[c].remote \in Buffers /\ clone[c].surface \in Surfaces
       /\ surface[clone[c].surface] # "new"

\* The clone that is being released is still known by its surface until the nested
\* thread has cleared it, and the surface it has found lives.
ReleaseInHand ==
  /\ releasing.step = "idle" => releasing.clone = None
  /\ releasing.step # "idle" =>
       releasing.clone \in Clones /\ clone[releasing.clone] # NoClone
  /\ releasing.step \in {"found", "push"} => clone[releasing.clone].surface \in Live
  /\ releasing.step = "push" => \A s \in Surfaces : latest[s] # releasing.clone
  /\ releasing.step # "torn"

DebtInv ==
  /\ PoolInv
  /\ \A b \in Buffers : kind[b] # "none" => OneDebtor(b) /\ ReleaseDue(b)
  /\ ~dying => \A b \in Buffers : kind[b] = "none" => NoDebtor(b)
  /\ \A b \in owned : kind[b] # "none"
  /\ HoldersLive
  /\ ReleaseInHand

\* Nothing is known of the releases any more when a surface has come or gone under one.
IInv == PoolInv /\ (raced \/ DebtInv)

\* A buffer nothing happens to keeps its debtor.
LEMMA SameDebtor ==
  ASSUME NEW b \in Buffers,
         \A s \in Surfaces : /\ attached'[s] = b <=> attached[s] = b
                             /\ toRelease'[s][b] = toRelease[s][b],
         \A c \in Clones : /\ Carries(c, b)' <=> Carries(c, b)
                           /\ Carries(c, b) => clone'[c].surface = clone[c].surface,
         b \in owned' <=> b \in owned,
         onto'[b] = onto[b]
  PROVE  /\ OneDebtor(b) => OneDebtor(b)'
         /\ ReleaseDue(b) => ReleaseDue(b)'
         /\ NoDebtor(b) => NoDebtor(b)'
<1>1. OneDebtor(b) => OneDebtor(b)'
  BY DEF OneDebtor
<1>2. ReleaseDue(b) => ReleaseDue(b)'
  BY DEF ReleaseDue
<1>3. NoDebtor(b) => NoDebtor(b)'
  BY DEF NoDebtor
<1> QED BY <1>1, <1>2, <1>3

\* A buffer the client owns again, or that was on no live surface.
LEMMA DebtSettled ==
  ASSUME NEW b \in Buffers, NoDebtor(b)', b \in owned' \/ onto'[b] = None
  PROVE  OneDebtor(b)' /\ ReleaseDue(b)'
BY DEF NoDebtor, OneDebtor, ReleaseDue

\* A buffer the client owns is owed by nothing.
LEMMA OwnedIsFree ==
  ASSUME DebtInv, NEW b \in owned
  PROVE  b \in Buffers /\ kind[b] # "none" /\ NoDebtor(b)
BY DEF DebtInv, PoolInv, TypeOK, OneDebtor, NoDebtor

LEMMA DebtInit == Init => DebtInv
<1> SUFFICES ASSUME Init PROVE DebtInv
  OBVIOUS
<1>1. PoolInv
  BY PoolInit
<1> QED BY <1>1, BufferAssumption DEF Init, DebtInv, HoldersLive, NoDebtor, Carries, Live,
           EmptyQueue, NoClone, ReleaseInHand, NotReleasing

\* Pools, and a client that starts to be destroyed: only buffers of wl_sb are attached.
LEMMA OtherActionDebts ==
  ASSUME Careful, DebtInv, PoolInv',
         \/ UNCHANGED vars
         \/ \E p \in Pools : CreatePool(p) \/ DestroyPool(p)
         \/ Disconnect
  PROVE  DebtInv'
<1>1. /\ UNCHANGED <<surface, attached, kind, owned, onto, clone, latest, toRelease, releasing>>
      /\ dying' => \A s \in Surfaces : attached[s] # None => kind[attached[s]] = "sb"
      /\ ~dying' => ~dying
  BY DEF CreatePool, DestroyPool, Disconnect, vars, client, nested, pools, parent, DebtInv,
         HoldersLive
<1>2. HoldersLive'
  BY <1>1 DEF DebtInv, HoldersLive, Live
<1>3. \A b \in Buffers : /\ OneDebtor(b) => OneDebtor(b)'
                         /\ ReleaseDue(b) => ReleaseDue(b)'
                         /\ NoDebtor(b) => NoDebtor(b)'
  BY <1>1 DEF OneDebtor, ReleaseDue, NoDebtor, Carries, Live
<1>4. ReleaseInHand'
  BY <1>1 DEF DebtInv, ReleaseInHand, Live
<1> QED BY <1>1, <1>2, <1>3, <1>4 DEF DebtInv

\* The client's last object is gone: nothing is left on any surface.
LEMMA ClientGoneDebts ==
  ASSUME DebtInv, PoolInv', ClientGone
  PROVE  DebtInv'
<1>1. /\ UNCHANGED <<surface, attached, kind, owned, onto, clone, latest, toRelease, releasing>>
      /\ ~dying' /\ Live = {} /\ \A b \in Buffers : kind[b] = "none"
  BY DEF ClientGone, client, nested, parent
<1>2. \A b \in Buffers : NoDebtor(b)'
  BY <1>1, BufferAssumption DEF DebtInv, HoldersLive, NoDebtor, Carries, Live
<1>3. HoldersLive'
  BY <1>1 DEF DebtInv, HoldersLive, Live
<1>4. ReleaseInHand'
  BY <1>1 DEF DebtInv, ReleaseInHand, Live
<1> QED BY <1>1, <1>2, <1>3, <1>4 DEF DebtInv, PoolInv, TypeOK

\* A new surface is at a new address, so that no clone is about it.
LEMMA CreateSurfaceDebts ==
  ASSUME ~AddressReuse, DebtInv, ~raced', PoolInv', NEW s \in Surfaces, CreateSurface(s)
  PROVE  DebtInv'
<1>1. /\ surface[s] = "new" /\ surface' = [surface EXCEPT ![s] = "live"]
      /\ attached' = [attached EXCEPT ![s] = None]
      /\ latest' = [latest EXCEPT ![s] = None]
      /\ UNCHANGED <<kind, owned, onto, clone, toRelease, releasing, dying>>
  BY DEF CreateSurface, SurfaceInfoMapChanges, client
<1>2. attached' = attached /\ latest' = latest
  BY <1>1 DEF DebtInv, HoldersLive, PoolInv, TypeOK, Live
<1>3. \A t \in Surfaces : t \in Live' <=> (t \in Live \/ t = s)
  BY <1>1 DEF DebtInv, PoolInv, TypeOK, Live
<1>4. \A c \in Clones : clone[c].surface # s
  BY <1>1, BufferAssumption DEF DebtInv, HoldersLive, NoClone
<1>5. \A c \in Clones, b \in Buffers : Carries(c, b)' <=> Carries(c, b)
  BY <1>1, <1>3, <1>4 DEF Carries, Live
<1>6. \A b \in Buffers : /\ OneDebtor(b) => OneDebtor(b)'
                         /\ ReleaseDue(b) => ReleaseDue(b)'
                         /\ NoDebtor(b) => NoDebtor(b)'
  BY <1>1, <1>2, <1>5, SameDebtor
<1>7. HoldersLive'
  <2>1. \A c \in Clones : clone[c] # NoClone => surface'[clone[c].surface] # "new"
    BY <1>1, <1>4 DEF DebtInv, HoldersLive, PoolInv, TypeOK
  <2> QED BY <1>1, <1>2, <1>3, <2>1 DEF DebtInv, HoldersLive
<1>8. ReleaseInHand'
  <2>1. Live \subseteq Live'
    BY <1>3 DEF Live
  <2> QED BY <1>1, <1>2, <2>1 DEF DebtInv, ReleaseInHand
<1> QED BY <1>1, <1>6, <1>7, <1>8 DEF DebtInv

\* wstSurfaceDestroy: what is attached is released, what is queued or with the parent
\* is forgotten together with the surface it was attached to.
LEMMA DestroySurfaceDebts ==
  ASSUME DebtInv, ~raced', PoolInv', NEW s \in Surfaces, DestroySurface(s)
  PROVE  DebtInv'
<1>0. /\ releasing.step \in {"found", "push"} => clone[releasing.clone].surface # s
      /\ releasing' = releasing /\ releasing.step \in {"idle", "found", "push"}
      /\ latest[s] # None => latest[s] # releasing.clone
  <2>1. /\ releasing.step # "walk"
        /\ releasing.step \in {"found", "push"} => clone[releasing.clone].surface # s
    BY DEF DestroySurface, SurfaceInfoMapChanges
  <2>2. /\ releasing' = releasing
        /\ releasing.step \in {"idle", "walk", "torn", "found", "push"}
    BY <2>1 DEF DestroySurface, SurfaceInfoMapChanges, DebtInv, PoolInv, TypeOK
  <2> QED BY <2>1, <2>2 DEF DebtInv, ReleaseInHand, HoldersLive
<1>1. /\ surface' = [surface EXCEPT ![s] = "gone"]
      /\ owned' = Released(attached[s])
      /\ attached' = [attached EXCEPT ![s] = None]
      /\ onto' = [b \in Buffers |-> IF onto[b] = s THEN None ELSE onto[b]]
      /\ clone' = IF latest[s] = None THEN clone ELSE [clone EXCEPT ![latest[s]] = NoClone]
      /\ latest' = [latest EXCEPT ![s] = None]
      /\ toRelease' = [toRelease EXCEPT ![s] = EmptyQueue[s]]
      /\ UNCHANGED <<kind, dying>>
  BY <1>0 DEF DestroySurface, NestedDestroySurface
<1>2. /\ \A t \in Surfaces : t \in Live' <=> (t \in Live /\ t # s)
      /\ \A t \in Surfaces : attached'[t] = IF t = s THEN None ELSE attached[t]
      /\ \A t \in Surfaces, b \in Buffers :
           toRelease'[t][b] = IF t = s THEN 0 ELSE toRelease[t][b]
  BY <1>1 DEF DebtInv, PoolInv, TypeOK, Live, EmptyQueue
<1>3. \A c \in Clones : clone'[c] = clone[c] \/ (clone[c].surface = s /\ clone'[c] = NoClone)
  BY <1>1 DEF DebtInv, HoldersLive, PoolInv, TypeOK
<1>4. \A c \in Clones, b \in Buffers :
        Carries(c, b)' <=> Carries(c, b) /\ clone[c].surface # s
  <2> SUFFICES ASSUME NEW c \in Clones, NEW b \in Buffers
               PROVE  Carries(c, b)' <=> Carries(c, b) /\ clone[c].surface # s
    OBVIOUS
  <2>1. CASE clone'[c] = clone[c]
    BY <1>2, <2>1 DEF Carries, Live
  <2>2. CASE clone[c].surface = s /\ clone'[c] = NoClone
    BY <2>2, BufferAssumption DEF Carries, NoClone
  <2> QED BY <1>3, <2>1, <2>2
<1>5. \A b \in Buffers : NoDebtor(b) => NoDebtor(b)'
  BY <1>2, <1>4, BufferAssumption DEF NoDebtor
<1>6. \A b \in Buffers : b \in owned' <=> b \in owned \/ attached[s] = b
  BY <1>1, BufferAssumption DEF Released
<1>7. ASSUME NEW b \in Buffers, kind[b] # "none"
      PROVE  OneDebtor(b)' /\ ReleaseDue(b)'
  <2>1. OneDebtor(b) /\ ReleaseDue(b)
    BY <1>7 DEF DebtInv
  <2>2. CASE onto[b] = s
    <3>1. NoDebtor(b)' /\ onto'[b] = None
      BY <1>1, <1>2, <1>4, <2>1, <2>2, BufferAssumption DEF OneDebtor, NoDebtor
    <3> QED BY <3>1, DebtSettled
  <2>3. CASE onto[b] # s
    <3>1. /\ attached[s] # b /\ toRelease[s][b] = 0
          /\ \A c \in Clones : Carries(c, b) => clone[c].surface # s
      BY <2>1, <2>3 DEF OneDebtor
    <3>2. \A t \in Surfaces : /\ attached'[t] = b <=> attached[t] = b
                              /\ toRelease'[t][b] = toRelease[t][b]
      BY <1>2, <3>1, BufferAssumption
    <3>3. \A c \in Clones : /\ Carries(c, b)' <=> Carries(c, b)
                            /\ Carries(c, b) => clone'[c].surface = clone[c].surface
      BY <1>3, <1>4, <3>1
    <3>4. onto'[b] = onto[b] /\ (b \in owned' <=> b \in owned)
      BY <1>1, <1>6, <2>3, <3>1
    <3> QED BY <2>1, <3>2, <3>3, <3>4, SameDebtor
  <2> QED BY <2>2, <2>3
<1>8. \A b \in owned' : kind'[b] # "none"
  BY <1>1, BufferAssumption DEF DebtInv, HoldersLive, Released
<1>9. HoldersLive'
  <2>1. \A c \in Clones : clone'[c] # NoClone =>
          /\ clone'[c].remote \in Buffers /\ clone'[c].surface \in Surfaces
          /\ surface'[clone'[c].surface] # "new"
    BY <1>1, <1>3 DEF DebtInv, HoldersLive, PoolInv, TypeOK
  <2>2. \A t \in Surfaces : latest'[t] # None => t \in Live' /\ clone'[latest'[t]].surface = t
    <3> SUFFICES ASSUME NEW t \in Surfaces, latest'[t] # None
                 PROVE  t \in Live' /\ clone'[latest'[t]].surface = t
      OBVIOUS
    <3>1. t # s /\ latest'[t] = latest[t] /\ latest[t] \in Clones
      BY <1>1 DEF DebtInv, PoolInv, TypeOK
    <3>2. t \in Live /\ clone[latest[t]].surface = t
      BY <3>1 DEF DebtInv, HoldersLive
    <3> QED BY <1>2, <1>3, <3>1, <3>2
  <2> QED BY <1>1, <1>2, <2>1, <2>2 DEF DebtInv, HoldersLive
<1>10. ReleaseInHand'
  <2>1. CASE releasing.step = "idle"
    BY <1>0, <2>1 DEF DebtInv, ReleaseInHand
  <2>2. CASE releasing.step # "idle"
    <3> DEFINE c == releasing.clone
    <3>1. /\ releasing.step \in {"found", "push"} /\ c \in Clones /\ clone[c] # NoClone
          /\ clone[c].surface \in Live /\ clone[c].surface # s
          /\ releasing.step = "push" => \A t \in Surfaces : latest[t] # c
      BY <1>0, <2>2 DEF DebtInv, ReleaseInHand
    <3>2. clone'[c] = clone[c]
      BY <1>3, <3>1
    <3>3. clone[c].surface \in Live'
      BY <1>2, <3>1 DEF Live
    <3>4. \A t \in Surfaces : latest'[t] = latest[t] \/ latest'[t] = None
      BY <1>1 DEF DebtInv, PoolInv, TypeOK
    <3> QED BY <1>0, <3>1, <3>2, <3>3, <3>4, BufferAssumption DEF ReleaseInHand
  <2> QED BY <2>1, <2>2
<1> QED BY <1>1, <1>5, <1>7, <1>8, <1>9, <1>10 DEF DebtInv

\* wl_surface.attach: the buffer before is released, the new one is owed.
LEMMA AttachDebts ==
  ASSUME DebtInv, PoolInv', NEW s \in Surfaces, NEW b \in Buffers \cup {None}, Attach(s, b)
  PROVE  DebtInv'
<1>1. /\ s \in Live /\ ~dying
      /\ b # None => b \in owned \/ (b = attached[s] /\ kind[b] # "none")
      /\ attached' = [attached EXCEPT ![s] = b]
      /\ owned' = (IF attached[s] # b THEN Released(attached[s]) ELSE owned) \ {b}
      /\ onto' = IF b = None THEN onto ELSE [onto EXCEPT ![b] = s]
      /\ UNCHANGED <<surface, kind, clone, latest, toRelease, releasing, dying>>
  BY DEF Attach, nested, parent
<1>2. /\ \A t \in Surfaces : attached'[t] = IF t = s THEN b ELSE attached[t]
      /\ \A x \in Buffers : onto'[x] = IF x = b THEN s ELSE onto[x]
      /\ \A x \in Buffers : x \in owned' <=> (x \in owned \/ attached[s] = x) /\ x # b
  BY <1>1, BufferAssumption DEF DebtInv, PoolInv, TypeOK, Released
<1>3. \A c \in Clones, x \in Buffers : Carries(c, x)' <=> Carries(c, x)
  BY <1>1 DEF Carries, Live
<1>4. ASSUME NEW x \in Buffers, kind[x] = "none"
      PROVE  x # b /\ NoDebtor(x)'
  <2>1. NoDebtor(x) /\ x # b
    BY <1>1, <1>4, OwnedIsFree, BufferAssumption DEF DebtInv
  <2> QED BY <1>1, <1>2, <1>3, <2>1 DEF NoDebtor
<1>5. ASSUME NEW x \in Buffers, kind[x] # "none"
      PROVE  OneDebtor(x)' /\ ReleaseDue(x)'
  <2>1. OneDebtor(x) /\ ReleaseDue(x)
    BY <1>5 DEF DebtInv
  <2>2. CASE x = b
    <3>1. /\ \A c \in Clones : ~Carries(c, x)'
          /\ \A t \in Surfaces : toRelease'[t][x] = 0
          /\ \A t \in Surfaces : attached'[t] = x <=> t = s
      <4>1. CASE b \in owned
        BY <1>1, <1>2, <1>3, <2>2, <4>1, OwnedIsFree DEF NoDebtor
      <4>2. CASE b = attached[s]
        BY <1>1, <1>2, <1>3, <2>1, <2>2, <4>2 DEF OneDebtor
      <4> QED BY <1>1, <2>2, <4>1, <4>2, BufferAssumption
    <3> QED BY <1>2, <2>2, <3>1 DEF OneDebtor, ReleaseDue
  <2>3. CASE x # b /\ attached[s] = x
    <3>1. NoDebtor(x)' /\ x \in owned'
      BY <1>1, <1>2, <1>3, <2>1, <2>3 DEF OneDebtor, NoDebtor
    <3> QED BY <3>1, DebtSettled
  <2>4. CASE x # b /\ attached[s] # x
    BY <1>1, <1>2, <1>3, <2>1, <2>4, SameDebtor
  <2> QED BY <2>2, <2>3, <2>4
<1>6. \A x \in owned' : kind'[x] # "none"
  BY <1>1, BufferAssumption DEF DebtInv, HoldersLive, Released
<1>7. HoldersLive'
  <2>1. b # None => kind[b] # "none"
    BY <1>1, OwnedIsFree
  <2> QED BY <1>1, <1>2, <2>1 DEF DebtInv, HoldersLive, Live
<1>8. ReleaseInHand'
  BY <1>1 DEF DebtInv, ReleaseInHand, Live
<1> QED BY <1>1, <1>4, <1>5, <1>6, <1>7, <1>8 DEF DebtInv

\* A commit that sends the release at once.
LEMMA CommitDebts ==
  ASSUME DebtInv, PoolInv', NEW s \in Surfaces, Commit(s)
  PROVE  DebtInv'
<1>1. /\ ~dying
      /\ owned' = Released(attached[s])
      /\ attached' = [attached EXCEPT ![s] = None]
      /\ UNCHANGED <<surface, kind, onto, clone, latest, toRelease, releasing, dying>>
  BY DEF Commit, nested, parent
<1>2. /\ \A t \in Surfaces : attached'[t] = IF t = s THEN None ELSE attached[t]
      /\ \A x \in Buffers : x \in owned' <=> (x \in owned \/ attached[s] = x)
  BY <1>1, BufferAssumption DEF DebtInv, PoolInv, TypeOK, Released
<1>3. \A c \in Clones, x \in Buffers : Carries(c, x)' <=> Carries(c, x)
  BY <1>1 DEF Carries, Live
<1>4. \A x \in Buffers : NoDebtor(x) => NoDebtor(x)'
  BY <1>1, <1>2, <1>3, BufferAssumption DEF NoDebtor
<1>5. ASSUME NEW x \in Buffers, kind[x] # "none"
      PROVE  OneDebtor(x)' /\ ReleaseDue(x)'
  <2>1. OneDebtor(x) /\ ReleaseDue(x)
    BY <1>5 DEF DebtInv
  <2>2. CASE attached[s] = x
    <3>1. NoDebtor(x)' /\ x \in owned'
      BY <1>1, <1>2, <1>3, <2>1, <2>2, BufferAssumption DEF OneDebtor, NoDebtor
    <3> QED BY <3>1, DebtSettled
  <2>3. CASE attached[s] # x
    BY <1>1, <1>2, <1>3, <2>1, <2>3, SameDebtor, BufferAssumption
  <2> QED BY <2>2, <2>3
<1>6. \A x \in owned' : kind'[x] # "none"
  BY <1>1, BufferAssumption DEF DebtInv, HoldersLive, Released
<1>7. HoldersLive'
  BY <1>1, <1>2 DEF DebtInv, HoldersLive, Live
<1>8. ReleaseInHand'
  BY <1>1 DEF DebtInv, ReleaseInHand, Live
<1> QED BY <1>1, <1>4, <1>5, <1>6, <1>7, <1>8 DEF DebtInv

\* A commit that hands the debt to a clone.
LEMMA CommitCloneDebts ==
  ASSUME DebtInv, PoolInv', NEW s \in Surfaces, NEW c \in Clones, CommitClone(s, c)
  PROVE  DebtInv'
<1>0. PICK b \in Buffers : b = attached[s] /\ kind[b] # "none"
  BY DEF CommitClone, DebtInv, HoldersLive, PoolInv, TypeOK
<1>1. /\ ~dying /\ s \in Live /\ b # None /\ clone[c] = NoClone
      /\ clone' = [clone EXCEPT ![c] = [remote |-> b, surface |-> s]]
      /\ latest' = [latest EXCEPT ![s] = c]
      /\ attached' = [attached EXCEPT ![s] = None]
      /\ UNCHANGED <<surface, kind, owned, onto, toRelease, releasing, dying>>
  BY <1>0, BufferAssumption DEF CommitClone, AttachAndCommitClone, client, parent
<1>2. b \in Buffers /\ kind[b] # "none"
  BY <1>0
<1>3. \A t \in Surfaces : attached'[t] = IF t = s THEN None ELSE attached[t]
  BY <1>1 DEF DebtInv, PoolInv, TypeOK
<1>4. /\ clone'[c] = [remote |-> b, surface |-> s]
      /\ \A d \in Clones \ {c} : clone'[d] = clone[d]
      /\ Live' = Live
  BY <1>1 DEF DebtInv, PoolInv, TypeOK, Live
<1>5. \A d \in Clones, x \in Buffers :
        Carries(d, x)' <=> IF d = c THEN x = b ELSE Carries(d, x)
  BY <1>1, <1>4 DEF Carries
<1>6. \A x \in Buffers : ~Carries(c, x)
  BY <1>1, BufferAssumption DEF Carries, NoClone
<1>7. OneDebtor(b) /\ ReleaseDue(b)
  BY <1>2 DEF DebtInv
<1>8. OneDebtor(b)' /\ ReleaseDue(b)'
  <2>1. /\ onto[b] = s /\ b \notin owned
        /\ \A t \in Surfaces : attached[t] = b => t = s
        /\ \A t \in Surfaces : toRelease[t][b] = 0
        /\ \A d \in Clones : ~Carries(d, b)
    BY <1>0, <1>7 DEF OneDebtor
  <2>2. \A t \in Surfaces : attached'[t] # b
    BY <1>2, <1>3, <2>1, BufferAssumption
  <2>3. /\ onto'[b] = s /\ b \notin owned' /\ clone'[c].surface = s
        /\ \A t \in Surfaces : toRelease'[t][b] = 0
        /\ \A d \in Clones : Carries(d, b)' <=> d = c
    BY <1>1, <1>2, <1>4, <1>5, <2>1
  <2> QED BY <2>2, <2>3 DEF OneDebtor, ReleaseDue
<1>9. ASSUME NEW x \in Buffers, x # b
      PROVE  /\ OneDebtor(x) => OneDebtor(x)'
             /\ ReleaseDue(x) => ReleaseDue(x)'
             /\ NoDebtor(x) => NoDebtor(x)'
  <2>1. \A t \in Surfaces : /\ attached'[t] = x <=> attached[t] = x
                            /\ toRelease'[t][x] = toRelease[t][x]
    BY <1>0, <1>1, <1>3, <1>9, BufferAssumption
  <2>2. \A d \in Clones : /\ Carries(d, x)' <=> Carries(d, x)
                          /\ Carries(d, x) => clone'[d].surface = clone[d].surface
    BY <1>4, <1>5, <1>6, <1>9
  <2> QED BY <1>1, <2>1, <2>2, SameDebtor
<1>10. HoldersLive'
  <2>1. \A d \in Clones : clone'[d] # NoClone =>
          /\ clone'[d].remote \in Buffers /\ clone'[d].surface \in Surfaces
          /\ surface'[clone'[d].surface] # "new"
    BY <1>1, <1>2, <1>4 DEF DebtInv, HoldersLive, Live
  <2>2. \A t \in Surfaces : latest'[t] # None => t \in Live' /\ clone'[latest'[t]].surface = t
    <3> SUFFICES ASSUME NEW t \in Surfaces, latest'[t] # None
                 PROVE  t \in Live' /\ clone'[latest'[t]].surface = t
      OBVIOUS
    <3>1. CASE t = s
      BY <1>1, <1>4, <3>1 DEF DebtInv, PoolInv, TypeOK
    <3>2. CASE t # s
      <4>1. latest'[t] = latest[t] /\ latest[t] \in Clones
        BY <1>1, <3>2 DEF DebtInv, PoolInv, TypeOK
      <4>2. t \in Live /\ clone[latest[t]].surface = t
        BY <4>1 DEF DebtInv, HoldersLive
      <4>3. latest[t] # c
        BY <1>1, <4>2, BufferAssumption DEF NoClone
      <4>4. clone'[latest[t]] = clone[latest[t]]
        BY <1>4, <4>1, <4>3
      <4> QED BY <1>4, <4>1, <4>2, <4>4
    <3> QED BY <3>1, <3>2
  <2> QED BY <1>1, <1>3, <1>4, <2>1, <2>2 DEF DebtInv, HoldersLive
<1>11. ReleaseInHand'
  <2>1. releasing.step # "idle" => releasing.clone # c
    BY <1>1 DEF DebtInv, ReleaseInHand
  <2>2. \A t \in Surfaces : latest'[t] \in {latest[t], c}
    BY <1>1 DEF DebtInv, PoolInv, TypeOK
  <2> QED BY <1>1, <1>4, <2>1, <2>2 DEF DebtInv, ReleaseInHand
<1> QED BY <1>1, <1>2, <1>8, <1>9, <1>10, <1>11 DEF DebtInv

\* A new buffer belongs to the client.
LEMMA CreateBufferDebts ==
  ASSUME DebtInv, PoolInv', NEW b \in Buffers,
         CreateSbBuffer(b) \/ CreateBuffer(b) \/ \E p \in Pools : CreateShmBuffer(b, p)
  PROVE  DebtInv'
<1>1. PICK k \in Kinds \ {"none"} : kind' = [kind EXCEPT ![b] = k]
  BY DEF CreateSbBuffer, CreateBuffer, CreateShmBuffer, Kinds
<1>2. /\ ~dying /\ kind[b] = "none"
      /\ owned' = owned \cup {b}
      /\ UNCHANGED <<surface, attached, onto, clone, latest, toRelease, releasing, dying>>
  BY DEF CreateSbBuffer, CreateBuffer, CreateShmBuffer, nested, parent
<1>3. /\ kind'[b] # "none"
      /\ \A x \in Buffers \ {b} : kind'[x] = kind[x]
  BY <1>1 DEF DebtInv, PoolInv, TypeOK
<1>4. NoDebtor(b)
  BY <1>2 DEF DebtInv
<1>5. /\ NoDebtor(b)' /\ b \in owned'
      /\ \A s \in Surfaces : attached'[s] # b
  BY <1>2, <1>4 DEF NoDebtor, Carries, Live
<1>6. ASSUME NEW x \in Buffers, x # b
      PROVE  /\ OneDebtor(x) => OneDebtor(x)'
             /\ ReleaseDue(x) => ReleaseDue(x)'
             /\ NoDebtor(x) => NoDebtor(x)'
  BY <1>2, <1>6 DEF OneDebtor, ReleaseDue, NoDebtor, Carries, Live
<1>7. HoldersLive'
  <2>1. \A s \in Surfaces : attached[s] # None => attached[s] \in Buffers \ {b}
    BY <1>2, <1>5 DEF DebtInv, PoolInv, TypeOK
  <2> QED BY <1>2, <1>3, <2>1 DEF DebtInv, HoldersLive, Live
<1>8. ReleaseInHand'
  BY <1>2 DEF DebtInv, ReleaseInHand, Live
<1> QED BY <1>2, <1>3, <1>5, <1>6, <1>7, <1>8, DebtSettled DEF DebtInv, PoolInv, TypeOK

\* A careful client destroys what it owns or what can be detached; at its end nothing
\* else is attached.
LEMMA DestroyBufferDebts ==
  ASSUME Careful, DebtInv, PoolInv', NEW b \in Buffers, DestroyBuffer(b)
  PROVE  DebtInv'
<1>1. /\ kind[b] # "none"
      /\ ~dying => b \in owned \/ (kind[b] = "sb" /\ \E s \in Live : attached[s] = b)
      /\ kind' = [kind EXCEPT ![b] = "none"]
      /\ owned' = owned \ {b}
      /\ onto' = [onto EXCEPT ![b] = None]
      /\ attached' \in SbReleaseBuffer(b)
      /\ UNCHANGED <<surface, clone, latest, toRelease, releasing, dying>>
  BY DEF DestroyBuffer, nested, parent
<1>2. /\ kind'[b] = "none"
      /\ \A x \in Buffers \ {b} : kind'[x] = kind[x] /\ onto'[x] = onto[x]
  BY <1>1 DEF DebtInv, PoolInv, TypeOK
<1>3. OneDebtor(b)
  BY <1>1 DEF DebtInv
<1>4. /\ \A s \in Surfaces : attached'[s] # b
      /\ \A s \in Surfaces : attached[s] # b => attached'[s] = attached[s]
      /\ \A s \in Surfaces : attached'[s] # None => attached'[s] = attached[s]
  <2>1. CASE \E s \in Surfaces : attached[s] = b
    <3>1. PICK s \in Surfaces : attached[s] = b
      BY <2>1
    <3>2. s \in Live /\ \A t \in Surfaces : attached[t] = b => t = s
      BY <1>3, <3>1, BufferAssumption DEF DebtInv, HoldersLive, OneDebtor
    <3>3. kind[b] = "sb"
      BY <1>1, <3>1, OwnedIsFree, BufferAssumption DEF DebtInv, HoldersLive, NoDebtor
    <3>4. attached' = [attached EXCEPT ![s] = None]
      BY <1>1, <3>1, <3>2, <3>3 DEF SbReleaseBuffer, Live
    <3> QED BY <3>1, <3>2, <3>4, BufferAssumption DEF DebtInv, PoolInv, TypeOK
  <2>2. CASE \A s \in Surfaces : attached[s] # b
    BY <1>1, <2>2 DEF SbReleaseBuffer, Live
  <2> QED BY <2>1, <2>2
<1>5. ~dying => NoDebtor(b)'
  <2>1. ASSUME ~dying
        PROVE  /\ \A s \in Surfaces : toRelease[s][b] = 0
               /\ \A c \in Clones : ~Carries(c, b)
    <3>1. CASE b \in owned
      BY <3>1, OwnedIsFree DEF NoDebtor
    <3>2. CASE \E s \in Live : attached[s] = b
      BY <1>3, <3>2 DEF OneDebtor, Live
    <3> QED BY <1>1, <2>1, <3>1, <3>2
  <2> QED BY <1>1, <1>4, <2>1 DEF NoDebtor, Carries, Live
<1>6. ASSUME NEW x \in Buffers, x # b
      PROVE  /\ OneDebtor(x) => OneDebtor(x)'
             /\ ReleaseDue(x) => ReleaseDue(x)'
             /\ NoDebtor(x) => NoDebtor(x)'
  <2>1. \A s \in Surfaces : /\ attached'[s] = x <=> attached[s] = x
                            /\ toRelease'[s][x] = toRelease[s][x]
    BY <1>1, <1>4, <1>6, BufferAssumption
  <2>2. \A c \in Clones : /\ Carries(c, x)' <=> Carries(c, x)
                          /\ Carries(c, x) => clone'[c].surface = clone[c].surface
    BY <1>1 DEF Carries, Live
  <2> QED BY <1>1, <1>2, <1>6, <2>1, <2>2, SameDebtor
<1>7. HoldersLive'
  <2>1. \A s \in Surfaces : attached'[s] # None =>
          attached'[s] = attached[s] /\ attached[s] \in Buffers \ {b}
    BY <1>4 DEF DebtInv, PoolInv, TypeOK
  <2> QED BY <1>1, <1>2, <2>1 DEF DebtInv, HoldersLive, Live
<1>8. \A x \in owned' : kind'[x] # "none"
  BY <1>1, <1>2 DEF DebtInv, PoolInv, TypeOK
<1>9. ReleaseInHand'
  BY <1>1 DEF DebtInv, ReleaseInHand, Live
<1> QED BY <1>1, <1>2, <1>5, <1>6, <1>7, <1>8, <1>9 DEF DebtInv

\* Up to the push, the clone still owes the release.
LEMMA ReleaseStartsDebts ==
  ASSUME DebtInv, PoolInv',
         (\E c \in Clones : ParentReleases(c)) \/ FindSurface \/ ForgetClone
  PROVE  DebtInv'
<1>1. /\ UNCHANGED <<surface, attached, kind, owned, onto, clone, toRelease, dying>>
      /\ \A t \in Surfaces : latest'[t] = latest[t] \/ latest'[t] = None
  BY DEF ParentReleases, FindSurface, ForgetClone, client, nested, DebtInv, PoolInv, TypeOK
<1>2. \A x \in Buffers : /\ OneDebtor(x) => OneDebtor(x)'
                         /\ ReleaseDue(x) => ReleaseDue(x)'
                         /\ NoDebtor(x) => NoDebtor(x)'
  BY <1>1 DEF OneDebtor, ReleaseDue, NoDebtor, Carries, Live
<1>3. HoldersLive'
  BY <1>1 DEF DebtInv, HoldersLive, Live
<1>4. ReleaseInHand'
  <2>1. ASSUME NEW c \in Clones, ParentReleases(c) PROVE ReleaseInHand'
    BY <1>1, <2>1 DEF ParentReleases, ReleaseInHand
  <2>2. CASE FindSurface
    BY <1>1, <2>2 DEF FindSurface, DebtInv, ReleaseInHand, PoolInv, TypeOK, Live
  <2>3. CASE ForgetClone
    <3> DEFINE c == releasing.clone
               s == clone[c].surface
    <3>1. c \in Clones /\ clone[c] # NoClone /\ s \in Live /\ s \in Surfaces
      BY <2>3 DEF ForgetClone, DebtInv, ReleaseInHand, Live
    <3>2. latest' = [latest EXCEPT ![s] = None]
          /\ releasing'.step = "push" /\ releasing'.clone = c
      BY <2>3 DEF ForgetClone, DebtInv, PoolInv, TypeOK
    <3>3. ASSUME NEW t \in Surfaces PROVE latest'[t] # c
      <4>1. latest'[t] = IF t = s THEN None ELSE latest[t]
        BY <3>2 DEF DebtInv, PoolInv, TypeOK
      <4>2. latest[t] # None => clone[latest[t]].surface = t
        BY DEF DebtInv, HoldersLive
      <4> QED BY <3>1, <4>1, <4>2, BufferAssumption
    <3> HIDE DEF c
    <3> QED BY <1>1, <3>1, <3>2, <3>3 DEF ReleaseInHand, Live
  <2> QED BY <2>1, <2>2, <2>3
<1> QED BY <1>1, <1>2, <1>3, <1>4 DEF DebtInv

\* The end of buffer_release passes the clone's debt on to the queue, if the surface lives.
LEMMA ReleaseEndsDebts ==
  ASSUME DebtInv, PoolInv', SurfaceNotFound \/ QueueRelease
  PROVE  DebtInv'
<1> DEFINE c == releasing.clone
<1>0. /\ c \in Clones /\ clone[c] # NoClone
      /\ \E s \in Surfaces, b \in Buffers : /\ clone[c].surface = s /\ clone[c].remote = b
                                           /\ surface[s] # "new"
      /\ \A t \in Surfaces : latest[t] # c
  <2>1. c \in Clones /\ clone[c] # NoClone
    BY DEF SurfaceNotFound, QueueRelease, DebtInv, ReleaseInHand
  <2>2. CASE QueueRelease
    BY <2>1, <2>2 DEF QueueRelease, DebtInv, ReleaseInHand, HoldersLive
  <2>3. CASE SurfaceNotFound
    BY <2>1, <2>3, BufferAssumption DEF SurfaceNotFound, DebtInv, ReleaseInHand, HoldersLive
  <2> QED BY <2>1, <2>2, <2>3
<1>01. PICK s \in Surfaces, b \in Buffers : /\ clone[c].surface = s /\ clone[c].remote = b
                                            /\ surface[s] # "new"
  BY <1>0
<1>1. /\ clone' = [clone EXCEPT ![c] = NoClone]
      /\ s \in Live => toRelease' = [toRelease EXCEPT ![s][b] = @ + 1]
      /\ s \notin Live => UNCHANGED toRelease
      /\ UNCHANGED <<surface, attached, kind, owned, onto, latest, dying>>
      /\ releasing' = NotReleasing
  BY <1>01 DEF SurfaceNotFound, QueueRelease, client, DebtInv, ReleaseInHand
<1> HIDE DEF c
<1>2. /\ \A d \in Clones, x \in Buffers : Carries(d, x)' <=> Carries(d, x) /\ d # c
      /\ \A d \in Clones : clone'[d] = IF d = c THEN NoClone ELSE clone[d]
  BY <1>0, <1>1, BufferAssumption DEF Carries, Live, NoClone, DebtInv, PoolInv, TypeOK
<1>3. \A t \in Surfaces, x \in Buffers :
        toRelease'[t][x] = IF t = s /\ x = b /\ s \in Live THEN toRelease[t][x] + 1
                           ELSE toRelease[t][x]
  BY <1>1 DEF DebtInv, PoolInv, TypeOK
<1>4. s \in Live <=> Carries(c, b)
  BY <1>01 DEF Carries
<1>5. ASSUME NEW x \in Buffers, x # b \/ s \notin Live
      PROVE  /\ OneDebtor(x) => OneDebtor(x)'
             /\ ReleaseDue(x) => ReleaseDue(x)'
             /\ NoDebtor(x) => NoDebtor(x)'
  <2>1. ~Carries(c, x)
    BY <1>01, <1>5 DEF Carries
  <2>2. \A d \in Clones : /\ Carries(d, x)' <=> Carries(d, x)
                          /\ Carries(d, x) => clone'[d].surface = clone[d].surface
    BY <1>2, <2>1
  <2>3. \A t \in Surfaces : /\ attached'[t] = x <=> attached[t] = x
                            /\ toRelease'[t][x] = toRelease[t][x]
    BY <1>1, <1>3, <1>5
  <2> QED BY <1>1, <2>2, <2>3, SameDebtor
<1>6. ASSUME s \in Live, kind[b] # "none"
      PROVE  OneDebtor(b)' /\ ReleaseDue(b)'
  <2>1. /\ onto[b] = s /\ b \notin owned
        /\ \A t \in Surfaces : attached[t] # b
        /\ \A d \in Clones : Carries(d, b) => d = c
        /\ \A t \in Surfaces : toRelease[t][b] = 0
    BY <1>0, <1>01, <1>4, <1>6 DEF DebtInv, OneDebtor
  <2>2. /\ onto'[b] = s /\ b \notin owned'
        /\ \A t \in Surfaces : attached'[t] # b
        /\ \A d \in Clones : ~Carries(d, b)'
        /\ \A t \in Surfaces : toRelease'[t][b] = IF t = s THEN 1 ELSE 0
    BY <1>1, <1>2, <1>3, <1>6, <2>1
  <2> QED BY <2>2 DEF OneDebtor, ReleaseDue
<1>7. s \in Live /\ kind[b] = "none" => dying
  BY <1>0, <1>4 DEF DebtInv, NoDebtor
<1>8. HoldersLive'
  <2>1. \A t \in Surfaces : latest'[t] # None => t \in Live' /\ clone'[latest'[t]].surface = t
    <3> SUFFICES ASSUME NEW t \in Surfaces, latest'[t] # None
                 PROVE  t \in Live' /\ clone'[latest'[t]].surface = t
      OBVIOUS
    <3>1. latest'[t] = latest[t] /\ latest[t] \in Clones
      BY <1>1 DEF DebtInv, PoolInv, TypeOK
    <3>2. t \in Live /\ clone[latest[t]].surface = t
      BY <3>1 DEF DebtInv, HoldersLive
    <3>3. latest[t] # c
      BY <1>0
    <3>4. clone'[latest[t]] = clone[latest[t]] /\ Live' = Live
      BY <1>1, <1>2, <3>1, <3>3 DEF Live
    <3> QED BY <3>1, <3>2, <3>4
  <2>2. \A t \in Surfaces, x \in Buffers : toRelease'[t][x] # 0 => t \in Live'
    BY <1>1, <1>3 DEF DebtInv, HoldersLive, Live
  <2>3. \A d \in Clones : clone'[d] # NoClone => d # c /\ clone'[d] = clone[d]
    BY <1>2
  <2> QED BY <1>1, <2>1, <2>2, <2>3 DEF DebtInv, HoldersLive, Live
<1>9. ReleaseInHand'
  BY <1>1 DEF ReleaseInHand, NotReleasing
<1> QED BY <1>1, <1>5, <1>6, <1>7, <1>8, <1>9 DEF DebtInv

\* The frame sends every release that is queued, each to a buffer that has no other.
LEMMA ReleaseRemoteBuffersDebts ==
  ASSUME DebtInv, PoolInv', ReleaseRemoteBuffers
  PROVE  DebtInv'
<1>1. /\ ~dying
      /\ owned' = owned \cup {b \in Buffers : \E s \in Surfaces : toRelease[s][b] > 0}
      /\ toRelease' = EmptyQueue
      /\ UNCHANGED <<surface, attached, kind, onto, clone, latest, releasing, dying>>
  BY DEF ReleaseRemoteBuffers, parent
<1>2. /\ \A s \in Surfaces, b \in Buffers : toRelease'[s][b] = 0
      /\ \A s \in Surfaces, b \in Buffers : toRelease[s][b] \in Nat
      /\ \A c \in Clones, b \in Buffers : Carries(c, b)' <=> Carries(c, b)
  BY <1>1 DEF EmptyQueue, Carries, Live, DebtInv, PoolInv, TypeOK
<1>3. \A b \in Buffers : NoDebtor(b) => NoDebtor(b)'
  BY <1>1, <1>2 DEF NoDebtor
<1>4. ASSUME NEW b \in Buffers, kind[b] # "none"
      PROVE  OneDebtor(b)' /\ ReleaseDue(b)'
  <2>1. OneDebtor(b) /\ ReleaseDue(b)
    BY <1>4 DEF DebtInv
  <2>2. CASE \E s \in Surfaces : toRelease[s][b] # 0
    <3>1. NoDebtor(b)'
      BY <1>1, <1>2, <2>1, <2>2 DEF OneDebtor, NoDebtor
    <3>2. b \in owned'
      BY <1>1, <1>2, <2>2
    <3> QED BY <3>1, <3>2, DebtSettled
  <2>3. CASE \A s \in Surfaces : toRelease[s][b] = 0
    <3>1. b \in owned' <=> b \in owned
      BY <1>1, <2>3
    <3> QED BY <1>1, <1>2, <2>1, <2>3, <3>1, SameDebtor
  <2> QED BY <2>2, <2>3
<1>5. \A b \in owned' : kind'[b] # "none"
  BY <1>1 DEF DebtInv, NoDebtor
<1>6. HoldersLive'
  BY <1>1, <1>2 DEF DebtInv, HoldersLive, Live
<1>7. ReleaseInHand'
  BY <1>1 DEF DebtInv, ReleaseInHand, Live
<1> QED BY <1>1, <1>3, <1>4, <1>5, <1>6, <1>7 DEF DebtInv

\* A race is not forgotten.
LEMMA RacedStays == [Next]_vars => (raced => raced')
BY DEF Next, vars, parent, CreateSurface, DestroySurface, SurfaceInfoMapChanges, Attach, Commit,
       CommitClone, CreatePool, DestroyPool, CreateShmBuffer, CreateSbBuffer, CreateBuffer,
       DestroyBuffer, ParentReleases, FindSurface, SurfaceNotFound, ForgetClone, QueueRelease,
       Disconnect, ClientGone, ReleaseRemoteBuffers

LEMMA DebtStep ==
  ASSUME Careful, ~AddressReuse
  PROVE  IInv /\ [Next]_vars => IInv'
<1> SUFFICES ASSUME IInv, [Next]_vars, ~raced' PROVE DebtInv'
  BY PoolStep DEF IInv
<1>1. PoolInv' /\ DebtInv
  BY PoolStep, RacedStays DEF IInv
<1> QED BY <1>1, OtherActionDebts, ClientGoneDebts, CreateSurfaceDebts, DestroySurfaceDebts,
           AttachDebts, CommitDebts, CommitCloneDebts, CreateBufferDebts, DestroyBufferDebts,
           ReleaseStartsDebts, ReleaseEndsDebts, ReleaseRemoteBuffersDebts DEF Next

--------------------------------------------------------------------------------
(* From debtors to the number of releases owed. *)

\* A buffer with one debtor is owed one release, and none without.
LEMMA DebtCount ==
  ASSUME TypeOK, NEW b \in Buffers
  PROVE  /\ NoDebtor(b) => Cardinality(Debts(b)) = 0
         /\ OneDebtor(b) /\ ~NoDebtor(b) => Cardinality(Debts(b)) = 1
<1>1. /\ \A s \in Surfaces : toRelease[s][b] \in Nat
      /\ \A x : x \in Debts(b) <=>
           \/ \E s \in Surfaces : attached[s] = b /\ x = <<"attached", s>>
           \/ \E c \in Clones : Carries(c, b) /\ x = <<"clone", c>>
           \/ \E s \in Surfaces : \E n \in 1..toRelease[s][b] : x = <<"queued", s, n>>
  BY DEF Debts, Carries, TypeOK
<1>2. ASSUME NoDebtor(b) PROVE Cardinality(Debts(b)) = 0
  <2>1. Debts(b) = {}
    BY <1>1, <1>2 DEF NoDebtor
  <2> QED BY <2>1, FS_EmptySet
<1>3. ASSUME OneDebtor(b), ~NoDebtor(b) PROVE Cardinality(Debts(b)) = 1
  <2>1. \E x : Debts(b) = {x}
    <3>1. ASSUME NEW s \in Surfaces, attached[s] = b PROVE Debts(b) = {<<"attached", s>>}
      BY <1>1, <1>3, <3>1 DEF OneDebtor
    <3>2. ASSUME NEW c \in Clones, Carries(c, b) PROVE Debts(b) = {<<"clone", c>>}
      <4>1. /\ \A s \in Surfaces : attached[s] # b /\ toRelease[s][b] = 0
            /\ \A d \in Clones : Carries(d, b) <=> d = c
        BY <1>3, <3>2 DEF OneDebtor
      <4> QED BY <1>1, <4>1
    <3>3. ASSUME NEW s \in Surfaces, toRelease[s][b] # 0
          PROVE  Debts(b) = {<<"queued", s, 1>>}
      <4>1. /\ \A t \in Surfaces : attached[t] # b
            /\ \A t \in Surfaces : toRelease[t][b] = IF t = s THEN 1 ELSE 0
            /\ \A c \in Clones : ~Carries(c, b)
        BY <1>3, <3>3 DEF OneDebtor
      <4>2. \A x : x \in Debts(b) <=> \E n \in 1..1 : x = <<"queued", s, n>>
        BY <1>1, <4>1
      <4> QED BY <4>2
    <3> QED BY <1>3, <3>1, <3>2, <3>3 DEF NoDebtor
  <2> QED BY <2>1, FS_Singleton
<1> QED BY <1>2, <1>3

\* The invariant gives what the properties claim.
LEMMA DebtsCounted == IInv => BuffersAndPoolsLive /\ ReleasedPerAttach
<1>0. CASE raced
  BY <1>0 DEF IInv, PoolInv, BuffersAndPoolsLive, ReleasedPerAttach
<1> SUFFICES ASSUME DebtInv PROVE BuffersAndPoolsLive /\ ReleasedPerAttach
  BY <1>0 DEF IInv
<1>1. TypeOK /\ PoolCounted
  BY DEF DebtInv, PoolInv
<1>2. ReleasesReachLiveBuffers
  <2>1. ~dying => \A s \in Surfaces, b \in Buffers : toRelease[s][b] > 0 => kind[b] # "none"
    BY <1>1 DEF DebtInv, NoDebtor, TypeOK
  <2> QED BY <2>1 DEF ReleasesReachLiveBuffers, DebtInv, HoldersLive
<1>3. ASSUME NEW b \in Buffers, kind[b] # "none"
      PROVE  /\ Cardinality(Debts(b)) <= (IF b \in owned THEN 0 ELSE 1)
             /\ b \notin owned /\ onto[b] # None => Cardinality(Debts(b)) = 1
  <2>1. OneDebtor(b) /\ ReleaseDue(b)
    BY <1>3 DEF DebtInv
  <2>2. b \in owned => NoDebtor(b)
    BY OwnedIsFree
  <2>3. b \notin owned /\ onto[b] # None => ~NoDebtor(b)
    BY <2>1 DEF ReleaseDue, NoDebtor
  <2> QED BY <1>1, <2>1, <2>2, <2>3, DebtCount
<1> QED BY <1>1, <1>2, <1>3 DEF BuffersAndPoolsLive, ReleasedPerAttach, ReleasedOnce, ReleaseOwed

\* With a careful client, whatever it does and wherever the steps of the parent's releases
\* and the end of the client come in, releases reach buffers that exist, until a surface
\* comes or goes under a release; and pools are counted right, even then.
THEOREM BuffersAndPoolsStayLive ==
  ASSUME Careful, ~AddressReuse
  PROVE  Spec => []BuffersAndPoolsLive
<1>1. IInv /\ [Next]_vars => IInv'
  BY DebtStep
<1>2. IInv => BuffersAndPoolsLive
  BY DebtsCounted
<1>3. Init => IInv
  BY DebtInit, PoolInit DEF IInv
<1> QED BY <1>1, <1>2, <1>3, PTL DEF Spec

\* One release for one attach: never two, and never lost while the surface lives, until
\* a surface comes or goes under a release.
THEOREM ReleasesMatchAttaches ==
  ASSUME Careful, ~AddressReuse
  PROVE  Spec => []ReleasedPerAttach
<1>1. IInv /\ [Next]_vars => IInv'
  BY DebtStep
<1>2. IInv => ReleasedPerAttach
  BY DebtsCounted
<1>3. Init => IInv
  BY DebtInit, PoolInit DEF IInv
<1> QED BY <1>1, <1>2, <1>3, PTL DEF Spec
================================================================================

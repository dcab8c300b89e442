---------------------------- MODULE QuotaProofs ----------------------------
(* Evictions for quota leave the owner at the limit, for any number of claims *)
(* that race.  First what takes an instance away and who may be on the way to *)
(* do so, then the invariant about the instances that rank before.            *)
EXTENDS AllocationProofs

(* It holds initially: there are no instances and no reconcile runs. *)
LEMMA QuotaInit ==
  ASSUME OnlyQuotaTakes
  PROVE  Init => QuotaInv
<1>. SUFFICES ASSUME Init PROVE QuotaInv
  OBVIOUS
<1>1. \A c \in Claims : pc[c] = "idle" /\ claim[c] = NotCreated
  BY DEF Init, ClusterInit, ClaimCtlInit
<1>2. \A i \in Insts : inst[i] = Unborn /\ cache[i] = Unborn
  BY DEF Init, ClusterInit
<1>3. tmpl.enabled
  BY DEF Init, ClusterInit, OnlyQuotaTakes
<1>. QED
  BY <1>1, <1>2, <1>3
  DEF QuotaInv, Undisturbed, ReleasedAlready, EvictsBeyond, NotCreated, Unborn

-----------------------------------------------------------------------------
(* The instances. *)

Keeps(i) == inst'[i].claim = inst[i].claim /\ (Live(inst'[i]) <=> Live(inst[i]))

(* What one step may make of one instance: nothing that shows in a quota; it  *)
(* stays nobody's; a claim binds it; a claim evicts it.                       *)
Fate(i) ==
  \/ Keeps(i)
  \/ inst[i].claim = NoClaim /\ inst'[i].claim = NoClaim
  \/ \E c \in Claims : /\ Acquire(c) \/ createOnDemand(c)
                       /\ inst[i].claim = NoClaim /\ inst'[i].claim = c
  \/ \E c \in Claims : Evict(c) /\ held[c] = i /\ inst'[i].claim = inst[i].claim

(* Delete takes the instance it names, if it is there, and no other. *)
LEMMA DeleteTakes ==
  ASSUME TypeOK, NEW h, Delete(h), NEW i \in Insts
  PROVE  /\ inst'[i].claim = inst[i].claim /\ inst'[i].phase = inst[i].phase
         /\ i # h => Keeps(i)
<1>1. inst \in [Insts -> InstRec]
  BY DEF TypeOK, ClusterTypeOK
<1>. QED  BY <1>1 DEF Delete, Write, Put, Live, InstRec, Keeps

(* A write that replaces one instance leaves the others. *)
LEMMA PutReplaces ==
  ASSUME TypeOK, NEW j \in Insts, NEW r, NEW lk, Put(j, r, lk)
  PROVE  /\ inst'[j] = r
         /\ \A i \in Insts : i # j => inst'[i] = inst[i]
BY DEF TypeOK, ClusterTypeOK, Put

(* With nothing but the quota taking instances, every step treats every       *)
(* instance in one of these ways and none fails.                              *)
LEMMA EachInstance ==
  ASSUME OnlyQuotaTakes, BindingInv, QuotaInv, [Next]_vars, NEW i \in Insts
  PROVE  Fate(i) /\ inst'[i].phase # "Failed"
<1>. DEFINE Goal == Fate(i) /\ inst'[i].phase # "Failed"
<1>1. /\ TypeOK /\ \A j \in Insts : inst[j] \in InstRec /\ cache[j] \in InstRec
      /\ \A d \in Claims : lock[d] \subseteq Insts
      /\ \A j \in Insts : inst[j].phase # "Failed" /\ cache[j].phase # "Failed"
  BY DEF BindingInv, TypeOK, ClusterTypeOK, QuotaInv, Undisturbed
<1>2. ASSUME inst'[i] = inst[i] PROVE Goal
  BY <1>1, <1>2 DEF Fate, Keeps
<1>3. ASSUME NEW j \in Insts, NEW r, NEW lk, Put(j, r, lk), r.phase # "Failed",
             i = j /\ inst'[i] = r => Fate(i)
      PROVE  Goal
  <2>1. CASE i = j
    BY <1>1, <1>3, <2>1, PutReplaces
  <2>2. CASE i # j
    BY <1>1, <1>2, <1>3, <2>2, PutReplaces
  <2>. QED  BY <2>1, <2>2
<1>4. CASE ClusterNext
  <2>1. CASE \/ \E c \in Claims : SyncClaim(c) \/ CreateClaim(c) \/ DeleteClaim(c) \/ EditClaim(c)
             \/ EditTemplate
             \/ \E j \in Insts : SyncInstance(j) \/ WindowCloses(j)
    BY <1>2, <2>1 DEF SyncClaim, CreateClaim, DeleteClaim, EditClaim, EditTemplate,
       SyncInstance, WindowCloses, etcd
  <2>2. CASE \E j \in Insts : ComesUp(j) \/ Recovers(j)
    <3>1. PICK j \in Insts : SetPhase(j, "Up")
      BY <2>2 DEF ComesUp, Recovers
    <3>. DEFINE r == [inst[j] EXCEPT !.phase = "Up"]
    <3>2. r.st = inst[j].st /\ r.claim = inst[j].claim /\ r.phase = "Up"
      BY <1>1 DEF InstRec
    <3>3. Put(j, r, lock)
      BY <3>1 DEF SetPhase, Write
    <3>. HIDE DEF r
    <3>4. i = j /\ inst'[i] = r => Fate(i)
      BY <3>2 DEF Fate, Keeps, Live
    <3>. QED  BY <1>3, <3>2, <3>3, <3>4
  <2>3. CASE \E j \in Insts : Fails(j) \/ Reap(j) \/ GarbageCollect(j)
    <3>1. /\ "fail" \notin env /\ "reap" \notin env
          /\ \A c \in Claims : claim[c].life # "gone"
      BY <1>1 DEF OnlyQuotaTakes, TypeOK, QuotaInv, Undisturbed
    <3>. QED  BY <2>3, <3>1 DEF Fails, Reap, GarbageCollect
  <2>. QED  BY <1>4, <2>1, <2>2, <2>3 DEF ClusterNext
<1>5. ASSUME NEW c \in Claims, ReconcileClaim(c) \/ ApiError(c)
      PROVE  Goal
  <2>1. CASE \/ Observe(c) \/ Start(c) \/ Confirm(c) \/ CheckQuota(c) \/ ListPool(c)
             \/ AcquireConflict(c) \/ PoolExhausted(c) \/ CheckCapacity(c) \/ Requota(c)
             \/ Recap(c) \/ SyncFails(c) \/ Release(c) \/ ApiError(c)
             \/ PatchBound(c) \/ PatchPending(c) \/ PatchRejected(c) \/ PatchExpired(c)
    BY <1>2, <2>1 DEF Observe, Start, Confirm, CheckQuota, ListPool, AcquireConflict,
       PoolExhausted, CheckCapacity, Requota, Recap, SyncFails, Release, ApiError, PatchBound,
       PatchPending, PatchRejected, PatchExpired, clusterVars, etcd
  <2>2. CASE Evict(c)
    <3>1. Delete(held[c])
      BY <2>2 DEF Evict
    <3>. QED  BY <1>1, <2>2, <3>1, DeleteTakes DEF Fate
  <2>3. CASE GiveBack(c) \/ Expire(c)
    BY <2>3 DEF GiveBack, Expire, QuotaInv, Undisturbed
  <2>4. CASE Drop(c)
    <3>1. held[c] \in Insts /\ inst[held[c]].claim = c /\ HeldBy(inst, c) = {}
      BY <2>4 DEF Drop, BindingInv, HeldIsMine, Holding, QuotaInv, ReleasedAlready
    <3>2. ~Live(inst[held[c]])
      BY <3>1 DEF HeldBy
    <3>3. inst' = inst
      BY <2>4, <3>2 DEF Drop, Delete
    <3>. QED  BY <1>2, <3>3
  <2>5. CASE Acquire(c)
    <3>1. PICK j \in cand[c] \cap lock[c] :
            Put(j, [inst[j] EXCEPT !.claim = c], [lock EXCEPT ![c] = {}])
      BY <2>5 DEF Acquire
    <3>. DEFINE r == [inst[j] EXCEPT !.claim = c]
    <3>2. j \in Insts /\ r.claim = c /\ r.phase # "Failed" /\ inst[j].claim = NoClaim
      BY <1>1, <3>1 DEF InstRec, BindingInv, LockedIsFree
    <3>3. Put(j, r, [lock EXCEPT ![c] = {}])
      BY <3>1
    <3>. HIDE DEF r
    <3>4. i = j /\ inst'[i] = r => Fate(i)
      BY <2>5, <3>2 DEF Fate
    <3>. QED  BY <1>3, <3>2, <3>3, <3>4
  <2>6. CASE createOnDemand(c)
    <3>1. PICK j \in Insts : inst[j].st = "none" /\ Put(j, NewFor(c), lock)
      BY <2>6 DEF createOnDemand, Write, NewFor
    <3>2. NewFor(c).claim = c /\ NewFor(c).phase # "Failed" /\ inst[j].claim = NoClaim
      BY <3>1 DEF NewFor, BindingInv, UnbornHasNoLabel
    <3>3. i = j /\ inst'[i] = NewFor(c) => Fate(i)
      BY <2>6, <3>2 DEF Fate
    <3>. QED  BY <1>3, <3>1, <3>2, <3>3
  <2>7. CASE syncInstance(c)
    <3>1. held[c] \in Insts /\ inst[held[c]].claim = c
      BY <2>7 DEF syncInstance, BindingInv, HeldIsMine, Holding
    <3>2. CASE inst' = inst
      BY <1>2, <3>2
    <3>3. CASE /\ held[c] \in fresh
               /\ Write(held[c], [cache[held[c]] EXCEPT !.claim = c, !.owned = TRUE])
      <4>. DEFINE r == [cache[held[c]] EXCEPT !.claim = c, !.owned = TRUE]
      <4>1. cache[held[c]] = inst[held[c]]
        BY <3>3 DEF BindingInv, CopiesAreCurrent
      <4>2. r.st = inst[held[c]].st /\ r.claim = c /\ r.phase # "Failed"
        BY <1>1, <3>1, <4>1 DEF InstRec
      <4>3. Put(held[c], r, lock)
        BY <3>3 DEF Write
      <4>. HIDE DEF r
      <4>4. i = held[c] /\ inst'[i] = r => Fate(i)
        BY <3>1, <4>2 DEF Fate, Keeps, Live
      <4>. QED  BY <1>3, <3>1, <4>2, <4>3, <4>4
    <3>. QED  BY <2>7, <3>2, <3>3 DEF syncInstance
  <2>. QED
    BY <1>5, <2>1, <2>2, <2>3, <2>4, <2>5, <2>6, <2>7 DEF ReconcileClaim
<1>6. CASE PoolNext \/ PoolError
  <2>1. CASE ReconcileTemplate \/ RereadVictim \/ PoolError
    BY <1>2, <2>1 DEF ReconcileTemplate, RereadVictim, PoolError, clusterVars, etcd
  <2>2. CASE createPoolInstance
    <3>1. PICK j \in Insts : inst[j].st = "none" /\ Put(j, NewMember, lock)
      BY <2>2 DEF createPoolInstance, Write, NewMember
    <3>2. NewMember.claim = NoClaim /\ NewMember.phase # "Failed" /\ inst[j].claim = NoClaim
      BY <3>1 DEF NewMember, BindingInv, UnbornHasNoLabel
    <3>3. i = j /\ inst'[i] = NewMember => Fate(i)
      BY <3>2 DEF Fate
    <3>. QED  BY <1>3, <3>1, <3>2, <3>3
  <2>3. CASE PurgeVictim
    <3>1. CASE victim \in tlock
      <4>1. inst[victim].claim = NoClaim /\ Delete(victim)
        BY <2>3, <3>1 DEF PurgeVictim, BindingInv, LockedIsFree
      <4>. QED  BY <1>1, <4>1, DeleteTakes DEF Fate
    <3>2. CASE victim \notin tlock
      BY <1>2, <2>3, <3>2 DEF PurgeVictim
    <3>. QED  BY <3>1, <3>2
  <2>. QED  BY <1>6, <2>1, <2>2, <2>3 DEF PoolNext
<1>7. CASE Crash \/ UNCHANGED vars
  BY <1>2, <1>7 DEF Crash, etcd, vars, clusterVars
<1>. QED  BY <1>4, <1>5, <1>6, <1>7 DEF Next
-----------------------------------------------------------------------------
(* The reconciles. *)

(* Where a reconcile may come to stand after a step, and from where: never on *)
(* the way to another teardown; before a release only holding nothing or      *)
(* having evicted; before an eviction only by its rank.                       *)
MovesTo(c) ==
  /\ pc'[c] \notin {"giveback", "expire"}
  /\ pc'[c] \in {"release", "drop"} =>
       \/ pc[c] \in {"release", "drop"} /\ ~Acquire(c) /\ ~createOnDemand(c)
       \/ pc[c] = "quota" /\ inst' = inst
       \/ Evict(c)
  /\ pc'[c] = "evict" =>
       /\ held'[c] = held[c]
       /\ \/ pc[c] = "evict"
          \/ pc[c] = "requota" /\ RanksBeyond(held[c], ownedInstances(c), Limit)

(* An instance at hand, in a copy that has not failed, is synced or ranked. *)
LEMMA LookupMoves ==
  ASSUME OnlyQuotaTakes, env \in Scenarios, NEW i, NEW r, r.phase # "Failed", NEW l \in AfterLookup(i, r)
  PROVE  l \in {"requota", "sync"}
BY DEF OnlyQuotaTakes, AfterLookup

(* Every step leaves every reconcile in one of these places. *)
LEMMA EachReconcile ==
  ASSUME OnlyQuotaTakes, BindingInv, QuotaInv, [Next]_vars, NEW c \in Claims
  PROVE  MovesTo(c)
<1>1. /\ pc \in [Claims -> PCs] /\ held \in [Claims -> Insts \cup {NoInst}]
      /\ pc[c] \notin {"giveback", "expire"} /\ tmpl.enabled
      /\ \A i \in Insts : inst[i].phase # "Failed" /\ cache[i].phase # "Failed"
      /\ "expire" \notin env /\ env \in Scenarios
      /\ MaxSize = 0 \/ ~Pooled
  BY DEF BindingInv, TypeOK, ClaimCtlTypeOK, QuotaInv, Undisturbed, OnlyQuotaTakes
<1>2. ASSUME pc'[c] = pc[c], held'[c] = held[c] PROVE MovesTo(c)
  BY <1>1, <1>2 DEF MovesTo, Acquire, createOnDemand, Goto
<1>3. ASSUME pc'[c] \notin {"giveback", "expire", "release", "drop", "evict"} PROVE MovesTo(c)
  BY <1>3 DEF MovesTo
<1>4. ASSUME ReconcileClaim(c) \/ ApiError(c) PROVE MovesTo(c)
  <2>1. ASSUME NEW i \in Insts, NEW r, r.phase # "Failed", Found(c, i, r)
        PROVE  MovesTo(c)
    <3>1. PICK l \in AfterLookup(i, r) : Goto(c, l)
      BY <2>1 DEF Found
    <3>2. pc'[c] \in {"requota", "sync"}
      BY <1>1, <2>1, <3>1, LookupMoves DEF Goto
    <3>. QED  BY <1>3, <3>2
  <2>2. CASE Start(c)
    <3>1. CASE pc'[c] = "confirm"
      BY <1>3, <3>1
    <3>2. CASE \E i \in HeldBy(cache, c) : Found(c, i, cache[i])
      BY <1>1, <2>1, <3>2 DEF HeldBy
    <3>. QED  BY <1>1, <2>2, <3>1, <3>2 DEF Start, Goto
  <2>3. CASE Confirm(c)
    <3>1. CASE pc'[c] = "quota"
      BY <1>3, <3>1
    <3>2. CASE \E i \in HeldBy(inst, c) : Found(c, i, inst[i])
      BY <1>1, <2>1, <3>2 DEF HeldBy
    <3>. QED  BY <1>1, <2>3, <3>1, <3>2 DEF Confirm, Goto
  <2>4. CASE CheckQuota(c)
    <3>1. CASE pc'[c] = "release"
      BY <2>4, <3>1 DEF CheckQuota, clusterVars, etcd, MovesTo
    <3>2. CASE pc'[c] \in {"list", "create"}
      BY <1>3, <3>2
    <3>. QED  BY <1>1, <2>4, <3>1, <3>2 DEF CheckQuota, Goto
  <2>5. CASE Requota(c)
    <3>1. CASE RanksBeyond(held[c], ownedInstances(c), Limit)
      BY <1>1, <2>5, <3>1 DEF Requota, Goto, MovesTo
    <3>2. CASE ~RanksBeyond(held[c], ownedInstances(c), Limit)
      BY <1>1, <1>3, <2>5, <3>2 DEF Requota, Goto
    <3>. QED  BY <3>1, <3>2
  <2>6. CASE Recap(c)
    <3>1. ~(Pooled /\ RanksBeyond(held[c], templateInstances, MaxSize))
      BY <1>1 DEF RanksBeyond
    <3>2. pc'[c] = "sync"
      BY <1>1, <2>6, <3>1 DEF Recap, Goto
    <3>. QED  BY <1>3, <3>2
  <2>7. CASE Evict(c)
    <3>1. pc'[c] = "release"
      BY <1>1, <2>7 DEF Evict, Goto
    <3>. QED  BY <2>7, <3>1 DEF MovesTo
  <2>8. CASE Release(c)
    <3>1. pc'[c] \in {"drop", "rejected"} /\ pc[c] = "release"
      BY <1>1, <2>8 DEF Release, Goto
    <3>. QED  BY <3>1 DEF MovesTo, Acquire, createOnDemand
  <2>9. CASE Observe(c) \/ AcquireConflict(c)
    BY <1>2, <2>9 DEF Observe, AcquireConflict, claimCtl
  <2>10. CASE GiveBack(c) \/ Expire(c)
    BY <1>1, <2>10 DEF GiveBack, Expire
  <2>11. CASE \/ ListPool(c) \/ Acquire(c) \/ PoolExhausted(c) \/ CheckCapacity(c)
              \/ createOnDemand(c) \/ syncInstance(c) \/ Drop(c)
    <3>1. pc'[c] \in {"acquire", "requota", "pending", "capacity", "create", "bound", "rejected"}
      BY <1>1, <2>11 DEF ListPool, Acquire, PoolExhausted, CheckCapacity, createOnDemand,
         syncInstance, Drop, Goto
    <3>. QED  BY <1>3, <3>1
  <2>12. CASE \/ SyncFails(c) \/ PatchBound(c) \/ PatchPending(c) \/ PatchRejected(c)
              \/ PatchExpired(c) \/ ApiError(c)
    <3>1. pc'[c] = "idle"
      BY <1>1, <2>12 DEF SyncFails, PatchBound, PatchPending, PatchRejected, PatchExpired,
         ApiError, Return, Goto
    <3>. QED  BY <1>3, <3>1
  <2>. QED  BY <1>4, <2>2, <2>3, <2>4, <2>5, <2>6, <2>7, <2>8, <2>9, <2>10, <2>11, <2>12
            DEF ReconcileClaim
<1>5. ASSUME NEW d \in Claims, d # c, ReconcileClaim(d) \/ ApiError(d)
      PROVE  pc'[c] = pc[c] /\ held'[c] = held[c]
  <2>1. CASE \/ Observe(d) \/ Start(d) \/ Confirm(d) \/ CheckQuota(d) \/ ListPool(d)
             \/ Acquire(d) \/ AcquireConflict(d) \/ PoolExhausted(d) \/ CheckCapacity(d)
             \/ createOnDemand(d)
    BY <1>1, <1>5, <2>1 DEF Observe, Start, Confirm, CheckQuota, ListPool, Acquire,
       AcquireConflict, PoolExhausted, CheckCapacity, createOnDemand, Found, Goto, claimCtl
  <2>2. CASE \/ Requota(d) \/ Evict(d) \/ Recap(d) \/ GiveBack(d) \/ syncInstance(d)
             \/ Release(d) \/ Drop(d) \/ Expire(d)
    BY <1>1, <1>5, <2>2 DEF Requota, Evict, Recap, GiveBack, syncInstance, Release, Drop,
       Expire, Goto
  <2>3. CASE \/ SyncFails(d) \/ PatchBound(d) \/ PatchPending(d) \/ PatchRejected(d)
             \/ PatchExpired(d) \/ ApiError(d)
    BY <1>1, <1>5, <2>3 DEF SyncFails, PatchBound, PatchPending, PatchRejected, PatchExpired,
       ApiError, Return, Goto
  <2>. QED  BY <1>5, <2>1, <2>2, <2>3 DEF ReconcileClaim
<1>6. CASE UNCHANGED claimCtl
  BY <1>2, <1>6 DEF claimCtl
<1>7. CASE Crash
  BY <1>3, <1>7 DEF Crash
<1>8. CASE \E d \in Claims : ReconcileClaim(d) \/ ApiError(d)
  BY <1>2, <1>4, <1>5, <1>8
<1>. QED  BY <1>6, <1>7, <1>8 DEF Next, vars

(* Users who only create and edit, and templates that are all enabled. *)
LEMMA NothingWithdrawn ==
  ASSUME OnlyQuotaTakes, BindingInv, QuotaInv, [Next]_vars
  PROVE  tmpl'.enabled /\ \A c \in Claims : claim'[c].life # "gone"
<1>1. /\ tmpl.enabled /\ claim \in [Claims -> ClaimRec] /\ \A c \in Claims : claim[c].life # "gone"
      /\ "delete" \notin env
  BY DEF BindingInv, TypeOK, ClusterTypeOK, QuotaInv, Undisturbed, OnlyQuotaTakes
<1>2. ASSUME NEW d \in Claims, NEW p, NEW r, NEW e, patchStatus(d, p, r, e)
      PROVE  \A c \in Claims : claim'[c].life = claim[c].life
  BY <1>1, <1>2 DEF patchStatus, ClaimRec
<1>3. tmpl'.enabled
  <2>1. CASE EditTemplate
    BY <2>1 DEF EditTemplate, OnlyQuotaTakes
  <2>2. CASE ClusterNext /\ ~EditTemplate
    BY <1>1, <2>2 DEF ClusterNext, SyncClaim, CreateClaim, DeleteClaim, EditClaim, SyncInstance,
       ComesUp, Fails, Recovers, SetPhase, Reap, GarbageCollect, WindowCloses, etcd
  <2>3. ASSUME NEW c \in Claims, ReconcileClaim(c) \/ ApiError(c) PROVE tmpl' = tmpl
    <3>1. CASE \/ Observe(c) \/ Start(c) \/ Confirm(c) \/ CheckQuota(c) \/ ListPool(c)
               \/ Acquire(c) \/ AcquireConflict(c) \/ PoolExhausted(c) \/ CheckCapacity(c)
               \/ createOnDemand(c) \/ ApiError(c)
      BY <3>1 DEF Observe, Start, Confirm, CheckQuota, ListPool, Acquire, AcquireConflict,
         PoolExhausted, CheckCapacity, createOnDemand, ApiError, clusterVars, etcd
    <3>2. CASE \/ Requota(c) \/ Evict(c) \/ Recap(c) \/ GiveBack(c) \/ syncInstance(c)
               \/ SyncFails(c) \/ PatchBound(c) \/ PatchPending(c) \/ Release(c) \/ Drop(c)
               \/ PatchRejected(c) \/ Expire(c) \/ PatchExpired(c)
      BY <3>2 DEF Requota, Evict, Recap, GiveBack, syncInstance, SyncFails, PatchBound,
         PatchPending, Release, Drop, PatchRejected, Expire, PatchExpired, clusterVars, etcd
    <3>. QED  BY <2>3, <3>1, <3>2 DEF ReconcileClaim
  <2>4. CASE PoolNext \/ PoolError \/ Crash \/ UNCHANGED vars
    BY <1>1, <2>4 DEF PoolNext, ReconcileTemplate, createPoolInstance, RereadVictim, PurgeVictim,
       PoolError, Crash, vars, clusterVars, etcd
  <2>. QED  BY <1>1, <2>1, <2>2, <2>3, <2>4 DEF Next
<1>4. \A c \in Claims : claim'[c].life # "gone"
  <2>1. CASE ClusterNext
    <3>1. CASE \E d \in Claims : CreateClaim(d) \/ EditClaim(d) \/ DeleteClaim(d)
      BY <1>1, <3>1 DEF CreateClaim, EditClaim, DeleteClaim, ClaimRec
    <3>2. CASE \/ \E d \in Claims : SyncClaim(d)
               \/ \E i \in Insts : \/ SyncInstance(i) \/ ComesUp(i) \/ Fails(i) \/ Recovers(i)
                                   \/ Reap(i) \/ GarbageCollect(i) \/ WindowCloses(i)
               \/ EditTemplate
      BY <1>1, <3>2 DEF SyncClaim, SyncInstance, ComesUp, Fails, Recovers, SetPhase, Reap,
         GarbageCollect, WindowCloses, EditTemplate, etcd
    <3>. QED  BY <2>1, <3>1, <3>2 DEF ClusterNext
  <2>2. ASSUME NEW d \in Claims, ReconcileClaim(d) \/ ApiError(d)
        PROVE  \A c \in Claims : claim'[c].life = claim[c].life
    <3>1. CASE Observe(d)
      BY <1>1, <3>1 DEF Observe, ClaimRec
    <3>2. CASE PatchBound(d) \/ PatchPending(d) \/ PatchRejected(d) \/ PatchExpired(d)
      BY <1>2, <3>2 DEF PatchBound, PatchPending, PatchRejected, PatchExpired
    <3>3. CASE \/ Start(d) \/ Confirm(d) \/ CheckQuota(d) \/ ListPool(d)
               \/ Acquire(d) \/ AcquireConflict(d) \/ PoolExhausted(d) \/ CheckCapacity(d)
               \/ createOnDemand(d) \/ ApiError(d)
      BY <3>3 DEF Start, Confirm, CheckQuota, ListPool, Acquire, AcquireConflict,
         PoolExhausted, CheckCapacity, createOnDemand, ApiError, clusterVars, etcd
    <3>4. CASE \/ Requota(d) \/ Evict(d) \/ Recap(d) \/ GiveBack(d) \/ syncInstance(d)
               \/ SyncFails(d) \/ Release(d) \/ Drop(d) \/ Expire(d)
      BY <3>4 DEF Requota, Evict, Recap, GiveBack, syncInstance, SyncFails, Release, Drop,
         Expire, clusterVars, etcd
    <3>. QED  BY <2>2, <3>1, <3>2, <3>3, <3>4 DEF ReconcileClaim
  <2>3. CASE PoolNext \/ PoolError \/ Crash \/ UNCHANGED vars
    <3>1. claim' = claim
      BY <2>3, PoolStores DEF Crash, vars, clusterVars, etcd
    <3>. QED  BY <1>1, <3>1
  <2>. QED  BY <1>1, <2>1, <2>2, <2>3 DEF Next
<1>. QED  BY <1>3, <1>4
-----------------------------------------------------------------------------
(* The quota. *)

(* One claim evicts at a time, its own instance. *)
LEMMA OneEvicts ==
  ASSUME BindingInv, NEW c \in Claims, Evict(c)
  PROVE  /\ \A d \in Claims : Evict(d) => d = c
         /\ held[c] \in Insts /\ inst[held[c]].claim = c
         /\ pc[c] = "evict" /\ pc'[c] = "release"
<1>1. pc \in [Claims -> PCs]
  BY DEF BindingInv, TypeOK, ClaimCtlTypeOK
<1>2. held[c] \in Insts /\ inst[held[c]].claim = c
  BY DEF Evict, BindingInv, HeldIsMine, Holding
<1>. QED  BY <1>1, <1>2 DEF Evict, Goto

(* What counts for an owner and is not being evicted goes on counting. *)
LEMMA OwnedStay ==
  ASSUME OnlyQuotaTakes, BindingInv, SecureInv, QuotaInv, [Next]_vars,
         NEW c \in Claims, NEW i \in ownedInstances(c),
         ~\E d \in Claims : Evict(d) /\ held[d] = i
  PROVE  i \in ownedInstances(c)'
<1>1. /\ i \in Insts /\ Live(inst[i]) /\ inst[i].owned
      /\ inst[i].claim \in Claims /\ OwnerOf[inst[i].claim] = OwnerOf[c]
      /\ inst[i].claim # NoClaim
  BY ClaimsAssumption DEF ownedInstances
<1>2. Keeps(i)
  BY <1>1, EachInstance DEF Fate
<1>3. inst'[i].owned
  BY <1>1, NextStores, StoreGrows DEF SecureInv
<1>. QED  BY <1>1, <1>2, <1>3 DEF Keeps, ownedInstances

(* A claim gains an instance only by binding one. *)
LEMMA NoneGained ==
  ASSUME OnlyQuotaTakes, BindingInv, QuotaInv, [Next]_vars, NEW c \in Claims,
         ~Acquire(c), ~createOnDemand(c)
  PROVE  HeldBy(inst, c)' \subseteq HeldBy(inst, c)
<1>1. SUFFICES ASSUME NEW i \in Insts, Live(inst'[i]), inst'[i].claim = c
               PROVE  Live(inst[i]) /\ inst[i].claim = c
  BY DEF HeldBy
<1>2. c # NoClaim
  BY ClaimsAssumption
<1>3. Fate(i)
  BY EachInstance
<1>4. CASE \E d \in Claims : Evict(d) /\ held[d] = i /\ inst'[i].claim = inst[i].claim
  <2>1. PICK d \in Claims : Evict(d) /\ held[d] = i /\ inst'[i].claim = inst[i].claim
    BY <1>4
  <2>2. inst[i] \in InstRec
    BY DEF BindingInv, TypeOK, ClusterTypeOK
  <2>3. TypeOK /\ inst \in [Insts -> InstRec] /\ Delete(i)
    BY <2>1 DEF BindingInv, TypeOK, ClusterTypeOK, Evict
  <2>. QED  BY <1>1, <2>1, <2>2, <2>3 DEF Delete, Write, Put, Live, InstRec
<1>. QED  BY <1>1, <1>2, <1>3, <1>4 DEF Fate, Keeps

(* An eviction takes all that its claim holds: what it evicts is alive. *)
LEMMA EvictionEmpties ==
  ASSUME BindingInv, QuotaInv, NEW c \in Claims, Evict(c)
  PROVE  HeldBy(inst, c)' = {}
<1>1. held[c] \in Insts /\ inst[held[c]].claim = c /\ Delete(held[c])
  BY OneEvicts DEF Evict
<1>2. TypeOK /\ inst \in [Insts -> InstRec]
  BY DEF BindingInv, TypeOK, ClusterTypeOK
<1>3. \A i \in Insts : /\ inst'[i].claim = inst[i].claim
                       /\ Live(inst'[i]) => Live(inst[i]) /\ i # held[c]
  BY <1>1, <1>2 DEF Delete, Write, Put, Live, InstRec
<1>4. Live(inst[held[c]])
  BY DEF Evict, QuotaInv, EvictsBeyond, ownedInstances
<1>5. SUFFICES ASSUME NEW i \in Insts, Live(inst'[i]), inst'[i].claim = c PROVE FALSE
  BY DEF HeldBy
<1>6. i \in HeldBy(inst, c) /\ i # held[c]
  BY <1>3, <1>5 DEF HeldBy
<1>. QED  BY <1>1, <1>4, <1>6 DEF BindingInv, OneInstancePerClaim, HeldBy

(* The number of instances that rank before is at least that of any part. *)
LEMMA AtLeast ==
  ASSUME NEW S, NEW T, S \subseteq T, T \subseteq Insts, Cardinality(S) >= Limit
  PROVE  Cardinality(T) >= Limit
<1>1. IsFiniteSet(T)
  BY InstsAssumption, FS_Subset
<1>2. Cardinality(S) <= Cardinality(T)
  BY <1>1, FS_Subset
<1>. QED  BY <1>2, CountType, LimitsAssumption

(* The inductive step. *)
LEMMA NextQuota ==
  ASSUME OnlyQuotaTakes, BindingInv, SecureInv, QuotaInv, [Next]_vars
  PROVE  QuotaInv'
<1>1. \A c \in Claims : MovesTo(c)
  BY EachReconcile
<1>2. Undisturbed'
  <2>1. \A i \in Insts : inst'[i].phase # "Failed"
    BY EachInstance
  <2>2. \A i \in Insts : cache'[i].phase # "Failed"
    BY CopiesFollow DEF QuotaInv, Undisturbed
  <2>. QED  BY <1>1, <2>1, <2>2, NothingWithdrawn DEF Undisturbed, MovesTo
<1>3. ReleasedAlready'
  <2>1. SUFFICES ASSUME NEW c \in Claims, pc'[c] \in {"release", "drop"}
                 PROVE  HeldBy(inst, c)' = {}
    BY DEF ReleasedAlready, HeldBy
  <2>2. CASE pc[c] \in {"release", "drop"} /\ ~Acquire(c) /\ ~createOnDemand(c)
    <3>1. HeldBy(inst, c) = {}
      BY <2>2 DEF QuotaInv, ReleasedAlready
    <3>. QED  BY <2>2, <3>1, NoneGained
  <2>3. CASE pc[c] = "quota" /\ inst' = inst
    <3>1. HeldBy(inst, c) = {}
      BY <2>3 DEF BindingInv, UnboundHoldsNothing, Unbound
    <3>. QED  BY <2>3, <3>1 DEF HeldBy
  <2>4. CASE Evict(c)
    BY <2>4, EvictionEmpties
  <2>. QED  BY <1>1, <2>1, <2>2, <2>3, <2>4 DEF MovesTo
<1>4. EvictsBeyond'
  <2>1. SUFFICES ASSUME NEW c \in Claims, pc'[c] = "evict"
                 PROVE  /\ held'[c] \in ownedInstances(c)'
                        /\ Cardinality(Before(c)') >= Limit
    BY DEF EvictsBeyond
  <2>2. /\ held'[c] = held[c]
        /\ \/ pc[c] = "evict"
           \/ pc[c] = "requota" /\ RanksBeyond(held[c], ownedInstances(c), Limit)
    BY <1>1, <2>1 DEF MovesTo
  <2>3. held[c] \in ownedInstances(c) /\ Cardinality(Before(c)) >= Limit
    BY <2>2 DEF QuotaInv, EvictsBeyond, RanksBeyond, Before
  <2>4. held[c] \in Insts /\ inst[held[c]].claim = c
    BY <2>2 DEF BindingInv, HeldIsMine, Holding
  <2>5. ~\E d \in Claims : Evict(d) /\ held[d] = held[c]
    BY <2>1, <2>4, OneEvicts
  <2>6. held'[c] \in ownedInstances(c)'
    BY <2>2, <2>3, <2>5, OwnedStay
  <2>7. Before(c)' = {j \in ownedInstances(c)' : j < held[c]} /\ Before(c)' \subseteq Insts
    BY <2>2 DEF Before, ownedInstances
  <2>8. CASE \E d \in Claims : Evict(d) /\ held[d] \in Before(c)
    <3>1. PICK d \in Claims : Evict(d) /\ held[d] \in Before(c)
      BY <2>8
    <3>2. /\ held[d] \in Insts /\ inst[held[d]].claim = d /\ pc[d] = "evict"
          /\ \A e \in Claims : Evict(e) => e = d
      BY <3>1, OneEvicts
    <3>3. ownedInstances(d) = ownedInstances(c) /\ held[d] < held[c]
      BY <3>1, <3>2 DEF Before, ownedInstances
    <3>4. Cardinality(Before(d)) >= Limit
      BY <3>2 DEF QuotaInv, EvictsBeyond
    <3>5. ASSUME NEW j \in Before(d) PROVE j \in Before(c)'
      <4>1. j \in ownedInstances(c) /\ j \in Nat /\ held[d] \in Nat /\ held[c] \in Nat
            /\ j < held[d]
        BY <2>4, <3>2, <3>3, InstsAssumption DEF Before, ownedInstances
      <4>2. j < held[c] /\ j # held[d]
        BY <3>3, <4>1
      <4>3. j \in ownedInstances(c)'
        BY <3>2, <4>1, <4>2, OwnedStay
      <4>. QED  BY <2>7, <4>2, <4>3
    <3>. QED  BY <2>6, <2>7, <3>4, <3>5, AtLeast
  <2>9. CASE ~\E d \in Claims : Evict(d) /\ held[d] \in Before(c)
    <3>1. ASSUME NEW j \in Before(c) PROVE j \in Before(c)'
      BY <2>7, <2>9, OwnedStay DEF Before
    <3>. QED  BY <2>3, <2>6, <2>7, <3>1, AtLeast
  <2>. QED  BY <2>8, <2>9
<1>. QED  BY <1>2, <1>3, <1>4 DEF QuotaInv

(* An eviction leaves what ranks before the evicted instance. *)
LEMMA EvictionLeaves ==
  ASSUME OnlyQuotaTakes, BindingInv, SecureInv, QuotaInv, [Next]_vars,
         NEW c \in Claims, pc[c] = "evict", pc'[c] = "release"
  PROVE  Cardinality(ownedInstances(c)') >= Limit
<1>1. Evict(c)
  BY EachReconcile DEF MovesTo
<1>2. Cardinality(Before(c)) >= Limit
  BY DEF QuotaInv, EvictsBeyond
<1>3. held[c] \in Nat /\ \A d \in Claims : Evict(d) => d = c
  BY <1>1, OneEvicts, InstsAssumption
<1>4. ASSUME NEW j \in Before(c) PROVE j \in ownedInstances(c)'
  <2>1. j \in ownedInstances(c) /\ j # held[c]
    BY <1>3, InstsAssumption DEF Before, ownedInstances
  <2>. QED  BY <1>3, <2>1, OwnedStay
<1>5. ownedInstances(c)' \subseteq Insts
  BY DEF ownedInstances
<1>. QED  BY <1>2, <1>4, <1>5, AtLeast

(* Where only the quota takes environments away, an owner whose claims race   *)
(* is never left below the limit, for any number of claims, instances,        *)
(* crashes and API errors and any interleaving of the list and the delete of  *)
(* evictIfOverQuota: a claim gives way only to Limit older environments, and  *)
(* those can only have given way to Limit older ones still.                   *)
THEOREM RaceHasWinners ==
  ASSUME OnlyQuotaTakes
  PROVE  Spec => EvictionLeavesQuotaFull
<1>. DEFINE Full == \A c \in Claims : (pc[c] = "evict" /\ pc'[c] = "release")
                      => Cardinality(ownedInstances(c)') >= Limit
<1>1. Init => QuotaInv
  BY QuotaInit
<1>2. BindingInv /\ SecureInv /\ [Next]_vars => SecureInv'
  BY NextSecure
<1>3. BindingInv /\ SecureInv /\ QuotaInv /\ [Next]_vars => QuotaInv'
  BY NextQuota
<1>4. BindingInv /\ SecureInv /\ QuotaInv /\ [Next]_vars => [Full]_vars
  BY EvictionLeaves
<1>. QED  BY InvariantHolds, InitSecure, <1>1, <1>2, <1>3, <1>4, PTL
          DEF Spec, EvictionLeavesQuotaFull
=============================================================================

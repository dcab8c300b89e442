-------------------------- MODULE AllocationProofs --------------------------
(* Binding implements Allocation, for every value of the constants.  First    *)
(* what a step of Binding can do to the stored instances, then that each of   *)
(* these is a step of Allocation, with SecureInv carried along.               *)
EXTENDS BindingProofs

(* Stored instances change one at a time. *)
Stores(i, r) == inst' = [inst EXCEPT ![i] = r]

NewFor(c) ==
  [st |-> "live", claim |-> c, owned |-> TRUE, pooled |-> FALSE, phase |-> "Up"]

NewMember ==
  [st |-> "live", claim |-> NoClaim, owned |-> FALSE, pooled |-> TRUE, phase |-> "Warming"]

Reports(i) == \E p \in InstPhases : Stores(i, [inst[i] EXCEPT !.phase = p])

Deletes(i) == Live(inst[i]) /\ Stores(i, [inst[i] EXCEPT !.st = "gone"])

Fills(i) == inst[i].st = "none" /\ Stores(i, NewMember)

Makes(c, i) == inst[i].st = "none" /\ HeldBy(inst, c) = {} /\ Stores(i, NewFor(c))

Wins(c, i) ==
  /\ Live(inst[i]) /\ inst[i].claim = NoClaim /\ HeldBy(inst, c) = {}
  /\ Stores(i, [inst[i] EXCEPT !.claim = c])

Secures(c, i) ==
  /\ Live(inst[i]) /\ inst[i].claim = c
  /\ Stores(i, [inst[i] EXCEPT !.claim = c, !.owned = TRUE])

StoreStep ==
  \/ inst' = inst
  \/ \E i \in Insts : Reports(i) \/ Deletes(i) \/ Fills(i)
  \/ \E c \in Claims, i \in Insts : Makes(c, i) \/ Wins(c, i) \/ Secures(c, i)

-----------------------------------------------------------------------------
(* Delete, on whatever, is a step of the store. *)
LEMMA DeleteStores ==
  ASSUME NEW i, Delete(i)
  PROVE  StoreStep
BY DEF Delete, Write, Put, StoreStep, Deletes, Stores

(* The API server, its users and the instance controller change the store    *)
(* in one of the ways listed, and tell no claim anything.                    *)
LEMMA ClusterStores ==
  ASSUME BindingInv, ClusterNext
  PROVE  StoreStep /\ \A d \in Claims : claim'[d].ref = claim[d].ref
<1>1. claim \in [Claims -> ClaimRec]
  BY DEF BindingInv, TypeOK, ClusterTypeOK
<1>2. CASE \E c \in Claims : SyncClaim(c) \/ CreateClaim(c) \/ DeleteClaim(c) \/ EditClaim(c)
  <2>1. inst' = inst
    BY <1>2 DEF SyncClaim, CreateClaim, DeleteClaim, EditClaim, etcd
  <2>2. \A d \in Claims : claim'[d].ref = claim[d].ref
    BY <1>1, <1>2 DEF SyncClaim, CreateClaim, DeleteClaim, EditClaim, etcd, ClaimRec
  <2>. QED  BY <2>1, <2>2 DEF StoreStep
<1>3. CASE \E i \in Insts : SyncInstance(i) \/ WindowCloses(i)
  BY <1>3 DEF SyncInstance, WindowCloses, etcd, StoreStep
<1>4. CASE \E i \in Insts : ComesUp(i) \/ Fails(i) \/ Recovers(i)
  <2>1. PICK i \in Insts, p \in InstPhases : SetPhase(i, p)
    BY <1>4 DEF ComesUp, Fails, Recovers, InstPhases
  <2>2. Reports(i) /\ claim' = claim
    BY <2>1 DEF SetPhase, Write, Put, Reports, Stores
  <2>. QED  BY <2>2 DEF StoreStep
<1>5. CASE \E i \in Insts : Reap(i) \/ GarbageCollect(i)
  BY <1>5, DeleteStores DEF Reap, GarbageCollect
<1>6. CASE EditTemplate
  BY <1>6 DEF EditTemplate, StoreStep
<1>. QED  BY <1>2, <1>3, <1>4, <1>5, <1>6 DEF ClusterNext

(* So does the template controller. *)
LEMMA PoolStores ==
  ASSUME PoolNext \/ PoolError
  PROVE  StoreStep /\ claim' = claim
<1>1. CASE ReconcileTemplate \/ RereadVictim \/ PoolError
  BY <1>1 DEF ReconcileTemplate, RereadVictim, PoolError, clusterVars, etcd, StoreStep
<1>2. CASE createPoolInstance
  <2>1. PICK i \in Insts : inst[i].st = "none" /\ Write(i, NewMember)
    BY <1>2 DEF createPoolInstance, NewMember
  <2>2. Fills(i)
    BY <2>1 DEF Write, Put, Fills, Stores
  <2>. QED  BY <1>2, <2>2 DEF createPoolInstance, StoreStep
<1>3. CASE PurgeVictim
  BY <1>3, DeleteStores DEF PurgeVictim, StoreStep
<1>. QED  BY <1>1, <1>2, <1>3 DEF PoolNext

(* A claim reconcile either changes the store, or tells its claim something,  *)
(* or neither: of an instance only from "bound".                              *)
LEMMA ClaimStores ==
  ASSUME BindingInv, NEW c \in Claims, ReconcileClaim(c) \/ ApiError(c)
  PROVE  \/ StoreStep /\ \A d \in Claims : claim'[d].ref = claim[d].ref
         \/ /\ inst' = inst
            /\ \/ claim'[c].ref \in {claim[c].ref, NoInst}
               \/ pc[c] = "bound" /\ claim'[c].ref = held[c]
            /\ \A d \in Claims \ {c} : claim'[d].ref = claim[d].ref
<1>1. /\ claim \in [Claims -> ClaimRec] /\ TypeOK
      /\ \A i \in Insts : inst[i] \in InstRec /\ cache[i] \in InstRec
  BY DEF BindingInv, TypeOK, ClusterTypeOK
<1>2. CASE \/ Start(c) \/ Confirm(c) \/ CheckQuota(c) \/ ListPool(c) \/ AcquireConflict(c)
           \/ PoolExhausted(c) \/ CheckCapacity(c) \/ Requota(c) \/ Recap(c)
           \/ SyncFails(c) \/ Release(c) \/ ApiError(c)
  <2>1. UNCHANGED <<inst, claim>>
    BY <1>2 DEF Start, Confirm, CheckQuota, ListPool, AcquireConflict, PoolExhausted,
       CheckCapacity, Requota, Recap, SyncFails, Release, ApiError, clusterVars, etcd
  <2>. QED  BY <2>1 DEF StoreStep
<1>3. CASE Observe(c)
  BY <1>1, <1>3 DEF Observe, StoreStep, ClaimRec
<1>4. CASE Evict(c) \/ GiveBack(c) \/ Drop(c) \/ Expire(c)
  BY <1>4, DeleteStores DEF Evict, GiveBack, Drop, Expire
<1>5. CASE Acquire(c)
  <2>1. PICK i \in cand[c] \cap lock[c] :
          Put(i, [inst[i] EXCEPT !.claim = c], [lock EXCEPT ![c] = {}])
    BY <1>5 DEF Acquire
  <2>2. i \in Insts /\ Live(inst[i]) /\ inst[i].claim = NoClaim
    BY <1>1, <2>1 DEF BindingInv, LockedIsFree, TypeOK, ClusterTypeOK
  <2>3. HeldBy(inst, c) = {}
    BY <1>5 DEF Acquire, BindingInv, UnboundHoldsNothing, Unbound
  <2>4. Wins(c, i)
    BY <2>1, <2>2, <2>3 DEF Put, Wins, Stores
  <2>. QED  BY <1>5, <2>2, <2>4 DEF Acquire, StoreStep
<1>6. CASE createOnDemand(c)
  <2>1. PICK i \in Insts : inst[i].st = "none" /\ Write(i, NewFor(c))
    BY <1>6 DEF createOnDemand, NewFor
  <2>2. HeldBy(inst, c) = {}
    BY <1>6 DEF createOnDemand, BindingInv, UnboundHoldsNothing, Unbound
  <2>3. Makes(c, i)
    BY <2>1, <2>2 DEF Write, Put, Makes, Stores
  <2>. QED  BY <1>6, <2>3 DEF createOnDemand, StoreStep
<1>7. CASE syncInstance(c)
  <2>1. held[c] \in Insts /\ inst[held[c]].claim = c
    BY <1>7 DEF syncInstance, BindingInv, HeldIsMine, Holding
  <2>2. CASE inst' = inst
    BY <1>7, <2>2 DEF syncInstance, StoreStep
  <2>3. CASE /\ Live(cache[held[c]]) /\ held[c] \in fresh
             /\ Write(held[c], [cache[held[c]] EXCEPT !.claim = c, !.owned = TRUE])
    <3>1. cache[held[c]] = inst[held[c]]
      BY <2>3 DEF BindingInv, CopiesAreCurrent
    <3>2. Secures(c, held[c])
      BY <2>1, <2>3, <3>1 DEF Write, Put, Secures, Stores
    <3>. QED  BY <1>7, <2>1, <3>2 DEF syncInstance, StoreStep
  <2>. QED  BY <1>7, <2>2, <2>3 DEF syncInstance
<1>8. CASE PatchBound(c) \/ PatchPending(c) \/ PatchRejected(c) \/ PatchExpired(c)
  <2>1. inst' = inst
    BY <1>8 DEF PatchBound, PatchPending, PatchRejected, PatchExpired
  <2>2. CASE PatchBound(c)
    BY <1>1, <2>1, <2>2, PatchRef DEF PatchBound
  <2>3. CASE PatchPending(c) \/ PatchRejected(c) \/ PatchExpired(c)
    BY <1>1, <2>1, <2>3, PatchRef DEF PatchPending, PatchRejected, PatchExpired
  <2>. QED  BY <1>8, <2>2, <2>3
<1>. QED  BY <1>2, <1>3, <1>4, <1>5, <1>6, <1>7, <1>8 DEF ReconcileClaim
-----------------------------------------------------------------------------
(* SecureInv. *)

(* No step of the store takes an ownership back or revives an instance. *)
LEMMA StoreGrows ==
  ASSUME BindingInv, FreeIsUnowned, StoreStep
  PROVE  /\ FreeIsUnowned'
         /\ \A i \in Insts : /\ inst[i].owned => inst'[i].owned
                             /\ inst[i].st = "gone" => inst'[i].st = "gone"
<1>1. inst \in [Insts -> InstRec]
  BY DEF BindingInv, TypeOK, ClusterTypeOK
<1>2. \A i \in Insts : inst[i].st = "none" => ~inst[i].owned
  BY DEF BindingInv, UnbornHasNoLabel, FreeIsUnowned
<1>3. CASE inst' = inst
  BY <1>3 DEF FreeIsUnowned
<1>4. ASSUME NEW i \in Insts, Reports(i) \/ Deletes(i) \/ Fills(i)
      PROVE  /\ FreeIsUnowned'
             /\ \A j \in Insts : /\ inst[j].owned => inst'[j].owned
                                 /\ inst[j].st = "gone" => inst'[j].st = "gone"
  BY <1>1, <1>2, <1>4 DEF Reports, Deletes, Fills, Stores, NewMember, FreeIsUnowned, Live, InstRec
<1>5. ASSUME NEW c \in Claims, NEW i \in Insts, Makes(c, i) \/ Wins(c, i) \/ Secures(c, i)
      PROVE  /\ FreeIsUnowned'
             /\ \A j \in Insts : /\ inst[j].owned => inst'[j].owned
                                 /\ inst[j].st = "gone" => inst'[j].st = "gone"
  <2>. c # NoClaim /\ inst[i] \in InstRec
    BY <1>1, ClaimsAssumption
  <2>1. CASE Makes(c, i)
    BY <1>1, <1>2, <2>1 DEF Makes, Stores, NewFor, FreeIsUnowned
  <2>2. CASE Wins(c, i)
    BY <1>1, <2>2 DEF Wins, Stores, FreeIsUnowned, InstRec
  <2>3. CASE Secures(c, i)
    BY <1>1, <2>3 DEF Secures, Stores, FreeIsUnowned, InstRec
  <2>. QED  BY <1>5, <2>1, <2>2, <2>3
<1>. QED  BY <1>3, <1>4, <1>5 DEF StoreStep

(* Every step is a step of the store. *)
LEMMA NextStores ==
  ASSUME BindingInv, [Next]_vars
  PROVE  StoreStep
<1>1. CASE ClusterNext
  BY <1>1, ClusterStores
<1>2. CASE \E c \in Claims : ReconcileClaim(c) \/ ApiError(c)
  BY <1>2, ClaimStores DEF StoreStep
<1>3. CASE PoolNext \/ PoolError
  BY <1>3, PoolStores
<1>4. CASE Crash \/ UNCHANGED vars
  BY <1>4 DEF Crash, etcd, vars, clusterVars, StoreStep
<1>. QED  BY <1>1, <1>2, <1>3, <1>4 DEF Next

(* A copy is kept, or replaced by the instance as it stands. *)
LEMMA CopiesFollow ==
  ASSUME BindingInv, [Next]_vars
  PROVE  \A i \in Insts : cache'[i] = cache[i] \/ (cache'[i] = inst[i] /\ inst' = inst)
<1>1. cache \in [Insts -> InstRec]
  BY DEF BindingInv, TypeOK, ClusterTypeOK
<1>2. CASE ClusterNext
  <2>1. CASE \E i \in Insts : SyncInstance(i)
    BY <1>1, <2>1 DEF SyncInstance, etcd
  <2>2. CASE \/ \E c \in Claims : SyncClaim(c) \/ CreateClaim(c) \/ DeleteClaim(c) \/ EditClaim(c)
             \/ EditTemplate
    BY <2>2 DEF SyncClaim, CreateClaim, DeleteClaim, EditClaim, EditTemplate, caches
  <2>3. CASE \E i \in Insts : \/ ComesUp(i) \/ Fails(i) \/ Recovers(i) \/ Reap(i)
                              \/ GarbageCollect(i) \/ WindowCloses(i)
    BY <2>3 DEF ComesUp, Fails, Recovers, SetPhase, Reap, GarbageCollect, WindowCloses, caches
  <2>. QED  BY <1>2, <2>1, <2>2, <2>3 DEF ClusterNext
<1>3. ASSUME NEW c \in Claims, ReconcileClaim(c) \/ ApiError(c)
      PROVE  cache' = cache
  <2>1. CASE \/ Observe(c) \/ Start(c) \/ Confirm(c) \/ CheckQuota(c) \/ ListPool(c)
             \/ Acquire(c) \/ AcquireConflict(c) \/ PoolExhausted(c) \/ CheckCapacity(c)
             \/ createOnDemand(c) \/ ApiError(c)
    BY <2>1 DEF Observe, Start, Confirm, CheckQuota, ListPool, Acquire, AcquireConflict,
       PoolExhausted, CheckCapacity, createOnDemand, ApiError, clusterVars, caches
  <2>2. CASE \/ Requota(c) \/ Evict(c) \/ Recap(c) \/ GiveBack(c) \/ syncInstance(c)
             \/ SyncFails(c) \/ PatchBound(c) \/ PatchPending(c) \/ Release(c) \/ Drop(c)
             \/ PatchRejected(c) \/ Expire(c) \/ PatchExpired(c)
    BY <2>2 DEF Requota, Evict, Recap, GiveBack, syncInstance, SyncFails, PatchBound,
       PatchPending, Release, Drop, PatchRejected, Expire, PatchExpired, clusterVars, caches
  <2>. QED  BY <1>3, <2>1, <2>2 DEF ReconcileClaim
<1>4. CASE PoolNext \/ PoolError
  BY <1>4 DEF PoolNext, ReconcileTemplate, createPoolInstance, RereadVictim, PurgeVictim, PoolError,
     clusterVars, caches
<1>5. CASE Crash \/ UNCHANGED vars
  BY <1>5 DEF Crash, etcd, vars, clusterVars, caches
<1>. QED  BY <1>2, <1>3, <1>4, <1>5 DEF Next

(* "bound" is only reached through syncInstance, and kept with what is held. *)
LEMMA BoundBySync ==
  ASSUME BindingInv, [Next]_vars, NEW c \in Claims, pc'[c] = "bound"
  PROVE  held'[c] = held[c] /\ (pc[c] = "bound" \/ syncInstance(c))
<1>1. /\ pc \in [Claims -> PCs] /\ held \in [Claims -> Insts \cup {NoInst}]
  BY DEF BindingInv, TypeOK, ClaimCtlTypeOK
<1>2. CASE UNCHANGED claimCtl
  BY <1>2 DEF claimCtl
<1>3. CASE Crash
  BY <1>3 DEF Crash
<1>4. ASSUME NEW d \in Claims, ReconcileClaim(d) \/ ApiError(d)
      PROVE  held'[c] = held[c] /\ (pc[c] = "bound" \/ syncInstance(c))
  <2>1. CASE syncInstance(d)
    BY <1>1, <2>1 DEF syncInstance, Goto
  <2>2. CASE \/ Observe(d) \/ Start(d) \/ Confirm(d) \/ CheckQuota(d) \/ ListPool(d)
    BY <1>1, <2>2 DEF Observe, Start, Confirm, CheckQuota, ListPool, Found, AfterLookup, Goto,
       claimCtl
  <2>3. CASE \/ Acquire(d) \/ AcquireConflict(d) \/ PoolExhausted(d) \/ CheckCapacity(d)
             \/ createOnDemand(d) \/ ApiError(d)
    BY <1>1, <2>3 DEF Acquire, AcquireConflict, PoolExhausted, CheckCapacity, createOnDemand,
       ApiError, Goto, Return
  <2>4. CASE \/ Requota(d) \/ Evict(d) \/ Recap(d) \/ GiveBack(d) \/ SyncFails(d) \/ Release(d)
             \/ Drop(d) \/ Expire(d)
    BY <1>1, <2>4 DEF Requota, Evict, Recap, GiveBack, SyncFails, Release, Drop, Expire, Goto,
       Return
  <2>5. CASE PatchBound(d) \/ PatchPending(d) \/ PatchRejected(d) \/ PatchExpired(d)
    BY <1>1, <2>5 DEF PatchBound, PatchPending, PatchRejected, PatchExpired, Return, Goto
  <2>. QED  BY <1>4, <2>1, <2>2, <2>3, <2>4, <2>5 DEF ReconcileClaim
<1>. QED  BY <1>2, <1>3, <1>4 DEF Next, vars

(* syncInstance leaves the instance owned, unless it is gone. *)
LEMMA SyncSecures ==
  ASSUME BindingInv, SecureInv, NEW c \in Claims, syncInstance(c)
  PROVE  held[c] \in Insts /\ (inst'[held[c]].owned \/ inst'[held[c]].st = "gone")
<1>1. held[c] \in Insts
  BY DEF syncInstance, BindingInv, HeldIsMine, Holding
<1>2. /\ inst \in [Insts -> InstRec] /\ cache[held[c]] \in InstRec
  BY <1>1 DEF BindingInv, TypeOK, ClusterTypeOK
<1>3. CASE InSync(cache[held[c]], c) /\ inst' = inst
  BY <1>1, <1>3 DEF InSync, SecureInv, CopiesTrail
<1>4. CASE cache[held[c]].st = "gone" /\ inst' = inst
  BY <1>1, <1>4 DEF SecureInv, CopiesTrail
<1>5. CASE Write(held[c], [cache[held[c]] EXCEPT !.claim = c, !.owned = TRUE])
  BY <1>1, <1>2, <1>5 DEF Write, Put, InstRec
<1>. QED  BY <1>1, <1>3, <1>4, <1>5 DEF syncInstance

(* The strengthening is inductive, given BindingInv. *)
LEMMA NextSecure ==
  ASSUME BindingInv, SecureInv, [Next]_vars
  PROVE  SecureInv'
<1>1. /\ FreeIsUnowned'
      /\ \A i \in Insts : /\ inst[i].owned => inst'[i].owned
                          /\ inst[i].st = "gone" => inst'[i].st = "gone"
  BY NextStores, StoreGrows DEF SecureInv
<1>2. CopiesTrail'
  BY <1>1, CopiesFollow DEF SecureInv, CopiesTrail
<1>3. SecuredFirst'
  <2>1. SUFFICES ASSUME NEW c \in Claims, pc'[c] = "bound"
                 PROVE  inst'[held'[c]].owned \/ inst'[held'[c]].st = "gone"
    BY DEF SecuredFirst
  <2>2. held'[c] = held[c] /\ (pc[c] = "bound" \/ syncInstance(c))
    BY <2>1, BoundBySync
  <2>3. CASE syncInstance(c)
    BY <2>2, <2>3, SyncSecures
  <2>4. CASE pc[c] = "bound"
    <3>1. held[c] \in Insts
      BY <2>4 DEF BindingInv, HeldIsMine, Holding
    <3>. QED  BY <1>1, <2>2, <2>4, <3>1 DEF SecureInv, SecuredFirst
  <2>. QED  BY <2>2, <2>3, <2>4
<1>. QED  BY <1>1, <1>2, <1>3 DEF SecureInv

(* It holds initially. *)
LEMMA InitSecure == Init => SecureInv
BY DEF Init, ClusterInit, ClaimCtlInit, Unborn, SecureInv, CopiesTrail, FreeIsUnowned, SecuredFirst
-----------------------------------------------------------------------------
(* The refinement. *)

AStep == Alloc!Next \/ UNCHANGED Alloc!vars

(* What the mapping makes of a change of one instance. *)
LEMMA MapOne ==
  ASSUME NEW f, NEW g, NEW i \in Insts,
         \A j \in Insts : j # i => g[j] = f[j]
  PROVE  /\ [j \in Insts |-> Stage(g[j])]
              = [[j \in Insts |-> Stage(f[j])] EXCEPT ![i] = Stage(g[i])]
         /\ [j \in Insts |-> g[j].claim]
              = [[j \in Insts |-> f[j].claim] EXCEPT ![i] = g[i].claim]
<1>1. \A j \in Insts : j # i => Stage(g[j]) = Stage(f[j])
  OBVIOUS
<1>. QED  BY <1>1

(* A change of the store that tells nobody anything is a step of Allocation. *)
LEMMA StoreRefines ==
  ASSUME BindingInv, SecureInv, StoreStep, \A d \in Claims : claim'[d].ref = claim[d].ref
  PROVE  AStep
<1>. DEFINE told == [c \in Claims |-> claim[c].ref]
            stage == [j \in Insts |-> Stage(inst[j])]
            holder == [j \in Insts |-> inst[j].claim]
<1>1. told' = told
  OBVIOUS
<1>0. ASSUME NEW i \in Insts, NEW r, inst' = [inst EXCEPT ![i] = r]
      PROVE  /\ inst'[i] = r
             /\ stage' = [stage EXCEPT ![i] = Stage(r)]
             /\ holder' = [holder EXCEPT ![i] = r.claim]
             /\ r.claim = inst[i].claim => holder' = holder
  <2>1. inst'[i] = r /\ \A j \in Insts : j # i => inst'[j] = inst[j]
    BY <1>0 DEF BindingInv, TypeOK, ClusterTypeOK
  <2>2. stage' = [j \in Insts |-> Stage(inst'[j])] /\ holder' = [j \in Insts |-> inst'[j].claim]
    BY DEF Stage
  <2>3. /\ stage' = [stage EXCEPT ![i] = Stage(r)]
        /\ holder' = [holder EXCEPT ![i] = r.claim]
    BY <2>1, <2>2, MapOne
  <2>4. r.claim = inst[i].claim => \A j \in Insts : inst'[j].claim = inst[j].claim
    BY <2>1
  <2>. QED  BY <2>1, <2>2, <2>3, <2>4
<1>2. \A i \in Insts : inst[i] \in InstRec
  BY DEF BindingInv, TypeOK, ClusterTypeOK
<1>3. CASE inst' = inst
  <2>1. stage' = stage /\ holder' = holder
    BY <1>3
  <2>. QED  BY <1>1, <2>1 DEF AStep, Alloc!vars
<1>4. ASSUME NEW i \in Insts, Reports(i)
      PROVE  AStep
  <2>1. PICK p \in InstPhases : Stores(i, [inst[i] EXCEPT !.phase = p])
    BY <1>4 DEF Reports
  <2>2. /\ Stage([inst[i] EXCEPT !.phase = p]) = Stage(inst[i])
        /\ [inst[i] EXCEPT !.phase = p].claim = inst[i].claim
    BY <1>2 DEF Stage, InstRec
  <2>3. stage' = stage /\ holder' = holder
    BY <2>1, <2>2, <1>0 DEF Stores
  <2>. QED  BY <1>1, <2>3 DEF AStep, Alloc!vars
<1>5. ASSUME NEW i \in Insts, Deletes(i)
      PROVE  AStep
  <2>1. /\ Stage([inst[i] EXCEPT !.st = "gone"]) = "gone"
        /\ [inst[i] EXCEPT !.st = "gone"].claim = inst[i].claim
        /\ Stage(inst[i]) \in {"free", "won", "secured"}
    BY <1>2, <1>5 DEF Stage, InstRec, Deletes, Live
  <2>2. stage' = [stage EXCEPT ![i] = "gone"] /\ holder' = holder
    <3>1. inst' = [inst EXCEPT ![i] = [inst[i] EXCEPT !.st = "gone"]]
      BY <1>5 DEF Stores, Deletes
    <3>2. /\ stage' = [stage EXCEPT ![i] = Stage([inst[i] EXCEPT !.st = "gone"])]
          /\ [inst[i] EXCEPT !.st = "gone"].claim = inst[i].claim => holder' = holder
      BY <1>0, <3>1
    <3>. QED  BY <2>1, <3>2
  <2>3. Alloc!TakeDown(i)
    BY <1>1, <2>1, <2>2 DEF Alloc!TakeDown
  <2>. QED  BY <2>3 DEF AStep, Alloc!Next
<1>6. ASSUME NEW i \in Insts, Fills(i)
      PROVE  AStep
  <2>1. /\ Stage(NewMember) = "free" /\ NewMember.claim = NoClaim
        /\ Stage(inst[i]) = "absent" /\ inst[i].claim = NoClaim
    BY <1>6 DEF Stage, NewMember, Fills, BindingInv, UnbornHasNoLabel
  <2>2. stage' = [stage EXCEPT ![i] = "free"] /\ holder' = holder
    <3>1. inst' = [inst EXCEPT ![i] = NewMember]
      BY <1>6 DEF Stores, Fills
    <3>2. /\ stage' = [stage EXCEPT ![i] = Stage(NewMember)]
          /\ NewMember.claim = inst[i].claim => holder' = holder
      BY <1>0, <3>1
    <3>. QED  BY <2>1, <3>2
  <2>3. Alloc!Provide(i)
    BY <1>1, <2>1, <2>2 DEF Alloc!Provide
  <2>. QED  BY <2>3 DEF AStep, Alloc!Next
<1>7. ASSUME NEW c \in Claims, HeldBy(inst, c) = {}
      PROVE  Alloc!Holds(c) = {}
  BY <1>2, <1>7, ClaimsAssumption DEF Alloc!Holds, HeldBy, Stage, Live, InstRec
<1>8. ASSUME NEW c \in Claims, NEW i \in Insts, Makes(c, i)
      PROVE  AStep
  <2>1. /\ Stage(NewFor(c)) = "secured" /\ NewFor(c).claim = c
        /\ Stage(inst[i]) = "absent"
    BY <1>8, ClaimsAssumption DEF Stage, NewFor, Makes
  <2>2. stage' = [stage EXCEPT ![i] = "secured"] /\ holder' = [holder EXCEPT ![i] = c]
    <3>1. inst' = [inst EXCEPT ![i] = NewFor(c)]
      BY <1>8 DEF Stores, Makes
    <3>. QED  BY <1>0, <2>1, <3>1
  <2>3. Alloc!Win(c, i)
    BY <1>1, <1>7, <1>8, <2>1, <2>2 DEF Alloc!Win, Makes
  <2>. QED  BY <2>3 DEF AStep, Alloc!Next
<1>9. ASSUME NEW c \in Claims, NEW i \in Insts, Wins(c, i)
      PROVE  AStep
  <2>. DEFINE r == [inst[i] EXCEPT !.claim = c]
  <2>1. Stage(r) = "won" /\ r.claim = c /\ Stage(inst[i]) = "free"
    BY <1>2, <1>9, ClaimsAssumption DEF Stage, InstRec, Wins, Live, SecureInv, FreeIsUnowned
  <2>2. stage' = [stage EXCEPT ![i] = "won"] /\ holder' = [holder EXCEPT ![i] = c]
    BY <1>9, <2>1, <1>0 DEF Stores, Wins
  <2>3. Alloc!Win(c, i)
    BY <1>1, <1>7, <1>9, <2>1, <2>2 DEF Alloc!Win, Wins
  <2>. QED  BY <2>3 DEF AStep, Alloc!Next
<1>10. ASSUME NEW c \in Claims, NEW i \in Insts, Secures(c, i)
       PROVE  AStep
  <2>. DEFINE r == [inst[i] EXCEPT !.claim = c, !.owned = TRUE]
  <2>1. Stage(r) = "secured" /\ r.claim = inst[i].claim /\ Stage(inst[i]) \in {"won", "secured"}
    BY <1>2, <1>10, ClaimsAssumption DEF Stage, InstRec, Secures, Live
  <2>2. stage' = [stage EXCEPT ![i] = "secured"] /\ holder' = holder
    <3>1. inst' = [inst EXCEPT ![i] = r]
      BY <1>10 DEF Stores, Secures
    <3>2. /\ stage' = [stage EXCEPT ![i] = Stage(r)]
          /\ r.claim = inst[i].claim => holder' = holder
      BY <1>0, <3>1
    <3>. QED  BY <2>1, <3>2
  <2>3. CASE Stage(inst[i]) = "won"
    <3>1. Alloc!Secure(i)
      BY <1>1, <2>2, <2>3 DEF Alloc!Secure
    <3>. QED  BY <3>1 DEF AStep, Alloc!Next
  <2>4. CASE Stage(inst[i]) = "secured"
    <3>1. stage' = stage
      BY <2>2, <2>4
    <3>. QED  BY <1>1, <2>2, <3>1 DEF AStep, Alloc!vars
  <2>. QED  BY <2>1, <2>3, <2>4
<1>. QED  BY <1>3, <1>4, <1>5, <1>6, <1>8, <1>9, <1>10 DEF StoreStep

(* A status patch tells the claim of an instance it has secured, or of none. *)
LEMMA PatchRefines ==
  ASSUME BindingInv, SecureInv, inst' = inst, NEW c \in Claims,
         \/ claim'[c].ref \in {claim[c].ref, NoInst}
         \/ pc[c] = "bound" /\ claim'[c].ref = held[c],
         \A d \in Claims \ {c} : claim'[d].ref = claim[d].ref
  PROVE  AStep
<1>. DEFINE told == [d \in Claims |-> claim[d].ref]
            stage == [j \in Insts |-> Stage(inst[j])]
            holder == [j \in Insts |-> inst[j].claim]
<1>1. stage' = stage /\ holder' = holder
  OBVIOUS
<1>2. told' = [told EXCEPT ![c] = claim'[c].ref]
  OBVIOUS
<1>3. CASE claim'[c].ref = claim[c].ref
  <2>1. told' = told
    BY <1>3
  <2>. QED  BY <1>1, <2>1 DEF AStep, Alloc!vars
<1>4. CASE claim'[c].ref = NoInst
  <2>1. Alloc!Withdraw(c)
    BY <1>1, <1>2, <1>4 DEF Alloc!Withdraw
  <2>. QED  BY <2>1 DEF AStep, Alloc!Next
<1>5. CASE pc[c] = "bound" /\ claim'[c].ref = held[c]
  <2>1. held[c] \in Insts /\ inst[held[c]].claim = c
    BY <1>5 DEF BindingInv, HeldIsMine, Holding
  <2>2. inst[held[c]] \in InstRec /\ inst[held[c]].st # "none"
    BY <2>1, ClaimsAssumption DEF BindingInv, TypeOK, ClusterTypeOK, UnbornHasNoLabel
  <2>3. inst[held[c]].owned \/ inst[held[c]].st = "gone"
    BY <1>5 DEF SecureInv, SecuredFirst
  <2>4. Stage(inst[held[c]]) \in {"secured", "gone"}
    BY <2>1, <2>2, <2>3, ClaimsAssumption DEF Stage, InstRec
  <2>5. PICK i \in Insts : i = held[c]
    BY <2>1
  <2>6. Alloc!Tell(c, i)
    BY <1>1, <1>2, <1>5, <2>1, <2>4, <2>5 DEF Alloc!Tell
  <2>. QED  BY <2>6 DEF AStep, Alloc!Next
<1>. QED  BY <1>3, <1>4, <1>5

(* Initial states map to initial states. *)
LEMMA InitRefines == Init => Alloc!Init
BY DEF Init, ClusterInit, Unborn, NotCreated, Stage, Alloc!Init

(* Every step of Binding maps to a step of Allocation or to none. *)
LEMMA NextRefines ==
  ASSUME BindingInv, SecureInv, [Next]_vars
  PROVE  AStep
<1>1. CASE ClusterNext
  BY <1>1, ClusterStores, StoreRefines
<1>2. CASE \E c \in Claims : ReconcileClaim(c) \/ ApiError(c)
  <2>1. PICK c \in Claims : ReconcileClaim(c) \/ ApiError(c)
    BY <1>2
  <2>2. CASE StoreStep /\ \A d \in Claims : claim'[d].ref = claim[d].ref
    BY <2>2, StoreRefines
  <2>3. CASE /\ inst' = inst
             /\ \/ claim'[c].ref \in {claim[c].ref, NoInst}
                \/ pc[c] = "bound" /\ claim'[c].ref = held[c]
             /\ \A d \in Claims \ {c} : claim'[d].ref = claim[d].ref
    BY <2>3, PatchRefines
  <2>. QED  BY <2>1, <2>2, <2>3, ClaimStores
<1>3. CASE PoolNext \/ PoolError
  BY <1>3, PoolStores, StoreRefines
<1>4. CASE Crash \/ UNCHANGED vars
  <2>1. inst' = inst /\ claim' = claim
    BY <1>4 DEF Crash, etcd, vars, clusterVars
  <2>. QED  BY <2>1, StoreRefines DEF StoreStep
<1>. QED  BY <1>1, <1>2, <1>3, <1>4 DEF Next

(* Whatever the lag of the caches, the crashes and the errors, both           *)
(* controllers together do no more than Allocation allows: an environment     *)
(* goes to one claim, that holds no other, for good, and a claim is told of   *)
(* it only once it owns it (boundInstance, bind, syncInstance, patchStatus).  *)
THEOREM BindingImplements == Spec => ImplementsAllocation
<1>1. BindingInv /\ SecureInv /\ [Next]_vars => SecureInv'
  BY NextSecure
<1>2. BindingInv /\ SecureInv /\ [Next]_vars => [Alloc!Next]_(Alloc!vars)
  BY NextRefines DEF AStep
<1>. QED  BY InvariantHolds, InitSecure, InitRefines, <1>1, <1>2, PTL
          DEF Spec, ImplementsAllocation, Alloc!Spec
=============================================================================

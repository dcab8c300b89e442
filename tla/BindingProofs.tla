--------------------------- MODULE BindingProofs ---------------------------
(* Machine-checked proofs about Binding, for every set of claims, every      *)
(* finite set of instances and every value of the other constants.           *)
EXTENDS Binding, FiniteSetTheorems, TLAPS

-----------------------------------------------------------------------------
(* Types. *)

(* The effect of a write on the types: Put stores a well-formed instance and  *)
(* only ever shrinks the sets of current copies.                              *)
LEMMA PutType ==
  ASSUME ClusterTypeOK, NEW i \in Insts, NEW r \in InstRec,
         NEW lk \in [Claims -> SUBSET Insts], Put(i, r, lk)
  PROVE  /\ inst' \in [Insts -> InstRec]
         /\ fresh' \subseteq Insts
         /\ lock' \in [Claims -> SUBSET Insts]
         /\ tlock' \subseteq Insts
BY DEF ClusterTypeOK, Put

(* Replacing fields of an instance keeps it well-formed. *)
LEMMA InstFields ==
  ASSUME NEW r \in InstRec
  PROVE  /\ [r EXCEPT !.st = "gone"] \in InstRec
         /\ \A p \in InstPhases : [r EXCEPT !.phase = p] \in InstRec
         /\ \A c \in Claims : [r EXCEPT !.claim = c] \in InstRec
         /\ \A c \in Claims : [r EXCEPT !.claim = c, !.owned = TRUE] \in InstRec
BY DEF InstRec

(* Delete, on an instance or on none, keeps the types. *)
LEMMA DeleteType ==
  ASSUME ClusterTypeOK, NEW i, Delete(i)
  PROVE  /\ inst' \in [Insts -> InstRec]
         /\ fresh' \subseteq Insts
         /\ lock' \in [Claims -> SUBSET Insts]
         /\ tlock' \subseteq Insts
<1>1. CASE i \in Insts /\ Live(inst[i])
  <2>1. inst[i] \in InstRec /\ lock \in [Claims -> SUBSET Insts]
    BY <1>1 DEF ClusterTypeOK
  <2>2. Put(i, [inst[i] EXCEPT !.st = "gone"], lock)
    BY <1>1 DEF Delete, Write
  <2>. QED  BY <1>1, <2>1, <2>2, InstFields, PutType
<1>2. CASE ~(i \in Insts /\ Live(inst[i]))
  BY <1>2 DEF Delete, ClusterTypeOK
<1>. QED  BY <1>1, <1>2

(* A status patch writes well-formed fields. *)
LEMMA PatchType ==
  ASSUME ClusterTypeOK, ClaimCtlTypeOK, NEW c \in Claims, NEW p \in ClaimPhases,
         NEW r \in Insts \cup {NoInst}, NEW e \in BOOLEAN, patchStatus(c, p, r, e)
  PROVE  claim' \in [Claims -> ClaimRec]
<1>1. claim[c] \in ClaimRec /\ orig[c] \in ClaimRec
  BY DEF ClusterTypeOK, ClaimCtlTypeOK
<1>. QED  BY <1>1 DEF patchStatus, Merge, ClusterTypeOK, ClaimRec

(* Users change one field of a claim. *)
LEMMA ClaimFields ==
  ASSUME NEW r \in ClaimRec
  PROVE  /\ [r EXCEPT !.life = "live"] \in ClaimRec
         /\ [r EXCEPT !.life = "gone"] \in ClaimRec
         /\ \A g \in Nat : [r EXCEPT !.gen = g] \in ClaimRec
         /\ \A g \in Nat : [r EXCEPT !.ogen = g] \in ClaimRec
         /\ r.gen \in Nat
BY DEF ClaimRec

(* The API server, its users and the instance controller keep the types. *)
LEMMA ClusterKeepsType ==
  ASSUME TypeOK, ClusterNext, UNCHANGED <<claimCtl, poolCtl, env>>
  PROVE  TypeOK'
<1>. USE DEF TypeOK, claimCtl, poolCtl
<1>1. ClaimCtlTypeOK' /\ PoolCtlTypeOK'
  BY DEF ClaimCtlTypeOK, PoolCtlTypeOK
<1>2. ASSUME NEW c \in Claims,
             SyncClaim(c) \/ CreateClaim(c) \/ DeleteClaim(c) \/ EditClaim(c)
      PROVE  ClusterTypeOK'
  <2>1. claim[c] \in ClaimRec
    BY DEF ClusterTypeOK
  <2>2. CASE SyncClaim(c)
    BY <2>1, <2>2 DEF ClusterTypeOK, SyncClaim, etcd, locks
  <2>3. CASE CreateClaim(c)
    BY <2>1, <2>3, ClaimFields DEF ClusterTypeOK, CreateClaim, caches, locks
  <2>4. CASE DeleteClaim(c)
    BY <2>1, <2>4, ClaimFields DEF ClusterTypeOK, DeleteClaim, caches, locks
  <2>5. CASE EditClaim(c)
    <3>. claim[c].gen \in Nat
      BY <2>1 DEF ClaimRec
    <3>1. claim[c].gen + 1 \in Nat
      OBVIOUS
    <3>2. [claim[c] EXCEPT !.gen = claim[c].gen + 1] \in ClaimRec
      BY <2>1, <3>1, ClaimFields
    <3>3. claim' = [claim EXCEPT ![c] = [claim[c] EXCEPT !.gen = claim[c].gen + 1]]
      BY <2>5 DEF EditClaim
    <3>4. claim' \in [Claims -> ClaimRec]
      BY <3>2, <3>3 DEF ClusterTypeOK
    <3>. QED  BY <2>5, <3>4 DEF ClusterTypeOK, EditClaim, caches, locks
  <2>. QED  BY <1>2, <2>2, <2>3, <2>4, <2>5
<1>3. ASSUME NEW i \in Insts, SyncInstance(i) \/ WindowCloses(i)
      PROVE  ClusterTypeOK'
  BY <1>3 DEF ClusterTypeOK, SyncInstance, WindowCloses, etcd, caches, locks
<1>4. ASSUME NEW i \in Insts, ComesUp(i) \/ Fails(i) \/ Recovers(i)
      PROVE  ClusterTypeOK'
  <2>1. PICK p \in InstPhases : SetPhase(i, p)
    BY <1>4 DEF ComesUp, Fails, Recovers, InstPhases
  <2>2. inst[i] \in InstRec /\ lock \in [Claims -> SUBSET Insts]
    BY DEF ClusterTypeOK
  <2>3. Put(i, [inst[i] EXCEPT !.phase = p], lock)
    BY <2>1 DEF SetPhase, Write
  <2>. QED  BY <2>1, <2>2, <2>3, InstFields, PutType DEF SetPhase, ClusterTypeOK
<1>5. ASSUME NEW i \in Insts, Reap(i) \/ GarbageCollect(i)
      PROVE  ClusterTypeOK'
  BY <1>5, DeleteType DEF Reap, GarbageCollect, ClusterTypeOK
<1>6. ASSUME EditTemplate PROVE ClusterTypeOK'
  BY <1>6, TemplatesAssumption DEF EditTemplate, ClusterTypeOK, caches, locks
<1>. QED  BY <1>1, <1>2, <1>3, <1>4, <1>5, <1>6 DEF ClusterNext

(* Every step of a claim reconcile keeps the types. *)
LEMMA ClaimCtlKeepsType ==
  ASSUME TypeOK, NEW c \in Claims, ReconcileClaim(c) \/ ApiError(c),
         UNCHANGED <<poolCtl, env>>
  PROVE  TypeOK'
<1>. USE DEF TypeOK
<1>1. PoolCtlTypeOK'
  BY DEF PoolCtlTypeOK, poolCtl
<1>2. /\ claim[c] \in ClaimRec /\ ccache[c] \in ClaimRec /\ orig[c] \in ClaimRec
      /\ held[c] \in Insts \cup {NoInst} /\ cand[c] \in SUBSET Insts
      /\ lock \in [Claims -> SUBSET Insts] /\ NotCreated \in ClaimRec
      /\ \A i \in Insts : inst[i] \in InstRec /\ cache[i] \in InstRec
  BY DEF ClusterTypeOK, ClaimCtlTypeOK, NotCreated, ClaimRec, ClaimPhases
<1>3. ASSUME Return(c) PROVE ClaimCtlTypeOK'
  BY <1>2, <1>3 DEF Return, Goto, ClaimCtlTypeOK, PCs
<1>4. ASSUME UNCHANGED clusterVars PROVE ClusterTypeOK'
  BY <1>4 DEF ClusterTypeOK, clusterVars, etcd, caches, locks
<1>5. ASSUME NEW l \in PCs, Goto(c, l), UNCHANGED <<orig, held, cand>>
      PROVE  ClaimCtlTypeOK'
  BY <1>5 DEF Goto, ClaimCtlTypeOK
<1>6. ASSUME NEW i \in Insts, NEW r, Found(c, i, r), UNCHANGED cand,
             orig' \in [Claims -> ClaimRec]
      PROVE  ClaimCtlTypeOK'
  BY <1>6 DEF Found, AfterLookup, Goto, ClaimCtlTypeOK, PCs, Unbound, Holding
<1>7. ASSUME NEW p \in ClaimPhases, NEW r \in Insts \cup {NoInst}, NEW e \in BOOLEAN,
             patchStatus(c, p, r, e), UNCHANGED <<inst, tmpl, young, caches, locks, faults>>
      PROVE  ClusterTypeOK'
  <2>1. claim' \in [Claims -> ClaimRec]
    BY <1>7, PatchType
  <2>. QED  BY <1>7, <2>1 DEF ClusterTypeOK, caches, locks
<1>8. ASSUME Delete(held[c]), UNCHANGED <<claim, tmpl, young, ccache, cache, faults>>
      PROVE  ClusterTypeOK'
  <2>1. /\ inst' \in [Insts -> InstRec] /\ fresh' \subseteq Insts
        /\ lock' \in [Claims -> SUBSET Insts] /\ tlock' \subseteq Insts
    BY <1>8, DeleteType
  <2>. QED  BY <1>8, <2>1 DEF ClusterTypeOK
<1>9. CASE Observe(c)
  <2>1. claim' \in [Claims -> ClaimRec]
    BY <1>2, <1>9, ClaimFields DEF Observe, ClusterTypeOK
  <2>. QED  BY <1>1, <1>9, <2>1 DEF Observe, ClusterTypeOK, ClaimCtlTypeOK, claimCtl, caches, locks
<1>10. CASE Start(c)
  <2>1. orig' \in [Claims -> ClaimRec]
    BY <1>2, <1>10 DEF Start, ClaimCtlTypeOK
  <2>2. CASE UNCHANGED held
    BY <1>1, <1>4, <1>10, <2>1, <2>2 DEF Start, Found, AfterLookup, Goto, ClaimCtlTypeOK, PCs,
       Unbound, Holding
  <2>3. CASE \E i \in HeldBy(cache, c) : Found(c, i, cache[i])
    BY <1>1, <1>4, <1>6, <1>10, <2>1, <2>3 DEF Start, HeldBy
  <2>. QED  BY <1>10, <2>2, <2>3 DEF Start
<1>11. CASE Confirm(c)
  <2>1. CASE UNCHANGED held
    BY <1>1, <1>4, <1>11, <2>1 DEF Confirm, Found, AfterLookup, Goto, ClaimCtlTypeOK, PCs,
       Unbound, Holding
  <2>2. CASE \E i \in HeldBy(inst, c) : Found(c, i, inst[i])
    BY <1>1, <1>4, <1>6, <1>11, <2>2 DEF Confirm, HeldBy, ClaimCtlTypeOK
  <2>. QED  BY <1>11, <2>1, <2>2 DEF Confirm
<1>12. CASE CheckQuota(c) \/ PoolExhausted(c) \/ CheckCapacity(c) \/ Requota(c) \/ Recap(c)
  BY <1>1, <1>4, <1>5, <1>12
     DEF CheckQuota, PoolExhausted, CheckCapacity, Requota, Recap, PCs, Unbound, Holding
<1>13. CASE ListPool(c)
  <2>1. PICK T \in SUBSET Insts : /\ cand' = [cand EXCEPT ![c] = T]
                                  /\ lock' = [lock EXCEPT ![c] = T \cap fresh]
    BY <1>13 DEF ListPool, Attempts
  <2>2. ClusterTypeOK'
    BY <1>13, <2>1 DEF ListPool, ClusterTypeOK, etcd, caches
  <2>3. ClaimCtlTypeOK'
    BY <1>13, <2>1 DEF ListPool, Goto, ClaimCtlTypeOK, PCs, Unbound
  <2>. QED  BY <1>1, <2>2, <2>3
<1>14. CASE Acquire(c)
  <2>1. PICK i \in Insts :
          /\ Put(i, [inst[i] EXCEPT !.claim = c], [lock EXCEPT ![c] = {}])
          /\ young' = young \cup {i}
          /\ held' = [held EXCEPT ![c] = i]
    BY <1>2, <1>14 DEF Acquire
  <2>2. /\ [inst[i] EXCEPT !.claim = c] \in InstRec
        /\ [lock EXCEPT ![c] = {}] \in [Claims -> SUBSET Insts]
    BY <1>2, InstFields
  <2>3. ClusterTypeOK'
    BY <1>14, <2>1, <2>2, PutType DEF Acquire, ClusterTypeOK
  <2>4. ClaimCtlTypeOK'
    BY <1>14, <2>1 DEF Acquire, Goto, ClaimCtlTypeOK, PCs, Holding
  <2>. QED  BY <1>1, <2>3, <2>4
<1>15. CASE AcquireConflict(c)
  BY <1>1, <1>4, <1>15 DEF AcquireConflict, ClaimCtlTypeOK
<1>16. CASE createOnDemand(c)
  <2>. DEFINE new == [st |-> "live", claim |-> c, owned |-> TRUE, pooled |-> FALSE,
                      phase |-> "Up"]
  <2>1. PICK i \in Insts :
          /\ Put(i, new, lock)
          /\ young' = young \cup {i}
          /\ held' = [held EXCEPT ![c] = i]
    BY <1>16 DEF createOnDemand, Write
  <2>2. new \in InstRec
    BY DEF InstRec, InstPhases
  <2>3. ClusterTypeOK'
    BY <1>2, <1>16, <2>1, <2>2, PutType DEF createOnDemand, ClusterTypeOK
  <2>4. ClaimCtlTypeOK'
    BY <1>16, <2>1 DEF createOnDemand, Goto, ClaimCtlTypeOK, PCs, Holding
  <2>. QED  BY <1>1, <2>3, <2>4
<1>17. CASE Evict(c) \/ GiveBack(c) \/ Drop(c) \/ Expire(c)
  BY <1>1, <1>5, <1>8, <1>17 DEF Evict, GiveBack, Drop, Expire, PCs
<1>18. CASE syncInstance(c)
  <2>1. ClaimCtlTypeOK'
    BY <1>5, <1>18 DEF syncInstance, PCs, Holding
  <2>2. CASE UNCHANGED <<inst, fresh, locks>>
    BY <1>1, <1>18, <2>1, <2>2 DEF syncInstance, ClusterTypeOK, locks
  <2>3. CASE /\ held[c] \in fresh
             /\ Write(held[c], [cache[held[c]] EXCEPT !.claim = c, !.owned = TRUE])
    <3>1. held[c] \in Insts
      BY <2>3 DEF ClusterTypeOK
    <3>2. [cache[held[c]] EXCEPT !.claim = c, !.owned = TRUE] \in InstRec
      BY <1>2, <3>1, InstFields
    <3>3. /\ inst' \in [Insts -> InstRec] /\ fresh' \subseteq Insts
          /\ lock' \in [Claims -> SUBSET Insts] /\ tlock' \subseteq Insts
      BY <1>2, <2>3, <3>1, <3>2, PutType DEF Write
    <3>. QED  BY <1>1, <1>18, <2>1, <3>3 DEF syncInstance, ClusterTypeOK
  <2>. QED  BY <1>18, <2>2, <2>3 DEF syncInstance
<1>19. CASE SyncFails(c)
  BY <1>1, <1>3, <1>4, <1>19 DEF SyncFails
<1>20. CASE PatchBound(c)
  BY <1>1, <1>2, <1>3, <1>7, <1>20 DEF PatchBound, ClaimPhases
<1>21. CASE PatchPending(c) \/ PatchExpired(c)
  <2>1. (held[c] # NoInst \/ orig[c].exp) \in BOOLEAN
    OBVIOUS
  <2>. QED  BY <1>1, <1>2, <1>3, <1>7, <1>21, <2>1 DEF PatchPending, PatchExpired, ClaimPhases
<1>22. CASE PatchRejected(c)
  BY <1>1, <1>2, <1>3, <1>7, <1>22 DEF PatchRejected, ClaimPhases
<1>23. CASE Release(c)
  BY <1>1, <1>4, <1>23 DEF Release, HeldBy, Goto, ClaimCtlTypeOK, PCs, Holding
<1>24. CASE ApiError(c)
  <2>1. ClusterTypeOK'
    BY <1>24 DEF ApiError, ClusterTypeOK, etcd, caches
  <2>. QED  BY <1>1, <1>3, <1>24, <2>1 DEF ApiError
<1>. QED
  BY <1>9, <1>10, <1>11, <1>12, <1>13, <1>14, <1>15, <1>16, <1>17, <1>18, <1>19, <1>20, <1>21,
     <1>22, <1>23, <1>24 DEF ReconcileClaim

(* The counts the template controller works with are natural numbers. *)
LEMMA CountType ==
  ASSUME NEW S, S \subseteq Insts
  PROVE  Cardinality(S) \in Nat
BY InstsAssumption, FS_Subset, FS_CardinalityType

(* The template controller keeps the types, and stops when its work is done. *)
LEMMA PoolCtlKeepsType ==
  ASSUME TypeOK, WorkIsLeft, PoolNext \/ PoolError, UNCHANGED <<claimCtl, env>>
  PROVE  TypeOK' /\ WorkIsLeft'
<1>. USE DEF TypeOK
<1>1. ClaimCtlTypeOK'
  BY DEF ClaimCtlTypeOK, claimCtl
<1>2. CASE ReconcileTemplate
  <2>1. ClusterTypeOK'
    BY <1>2 DEF ReconcileTemplate, ClusterTypeOK, clusterVars, etcd, caches, locks
  <2>2. Cardinality(UnclaimedIn(Listed)) \in Nat /\ Cardinality(Listed) \in Nat
    BY CountType DEF UnclaimedIn, Listed
  <2>3. tmpl.size \in Nat /\ MaxSize \in Nat
    BY TemplatesAssumption DEF ClusterTypeOK
  <2>4. Deficit > 0 => Deficit \in Nat
    BY <2>2, <2>3 DEF Deficit
  <2>5. Surplus > 0 => Surplus \in Nat
    BY <2>2, <2>3 DEF Surplus, desiredWarm
  <2>6. UnclaimedIn(Listed) \subseteq Insts
    BY DEF UnclaimedIn, Listed
  <2>. QED  BY <1>1, <1>2, <2>1, <2>4, <2>5, <2>6 DEF ReconcileTemplate, PoolCtlTypeOK, WorkIsLeft
<1>3. CASE createPoolInstance
  <2>. DEFINE new == [st |-> "live", claim |-> NoClaim, owned |-> FALSE, pooled |-> TRUE,
                      phase |-> "Warming"]
  <2>1. PICK i \in Insts : Put(i, new, lock)
    BY <1>3 DEF createPoolInstance, Write
  <2>2. new \in InstRec /\ lock \in [Claims -> SUBSET Insts]
    BY DEF InstRec, InstPhases, ClusterTypeOK
  <2>3. ClusterTypeOK'
    BY <1>3, <2>1, <2>2, PutType DEF createPoolInstance, ClusterTypeOK
  <2>4. PoolCtlTypeOK' /\ WorkIsLeft'
    BY <1>3 DEF createPoolInstance, PoolCtlTypeOK, WorkIsLeft
  <2>. QED  BY <1>1, <2>3, <2>4
<1>4. CASE RereadVictim
  <2>1. PICK i \in todo :
          /\ todo' = todo \ {i}
          /\ IF isPurgeable(inst[i])
               THEN victim' = i /\ tlock' = {i} /\ tpc' = "delete" /\ UNCHANGED need
               ELSE /\ tpc' = IF todo = {i} THEN "idle" ELSE "purge"
                    /\ need' = IF todo = {i} THEN 0 ELSE need
                    /\ UNCHANGED <<victim, tlock>>
    BY <1>4 DEF RereadVictim
  <2>2. ClusterTypeOK'
    BY <1>4, <2>1 DEF RereadVictim, ClusterTypeOK, PoolCtlTypeOK, etcd, caches
  <2>3. PoolCtlTypeOK' /\ WorkIsLeft'
    BY <1>4, <2>1 DEF RereadVictim, PoolCtlTypeOK, WorkIsLeft
  <2>. QED  BY <1>1, <2>2, <2>3
<1>5. CASE PurgeVictim
  <2>1. /\ inst' \in [Insts -> InstRec] /\ fresh' \subseteq Insts
        /\ lock' \in [Claims -> SUBSET Insts] /\ tlock' \subseteq Insts
    BY <1>5, DeleteType DEF PurgeVictim, ClusterTypeOK, locks
  <2>2. ClusterTypeOK'
    BY <1>5, <2>1 DEF PurgeVictim, ClusterTypeOK
  <2>3. PoolCtlTypeOK' /\ WorkIsLeft'
    BY <1>5 DEF PurgeVictim, PoolCtlTypeOK, WorkIsLeft
  <2>. QED  BY <1>1, <2>2, <2>3
<1>6. CASE PoolError
  BY <1>1, <1>6 DEF PoolError, ClusterTypeOK, PoolCtlTypeOK, WorkIsLeft, etcd, caches
<1>. QED  BY <1>2, <1>3, <1>4, <1>5, <1>6 DEF PoolNext

(* Types hold at the start. *)
LEMMA InitType == Init => TypeOK /\ WorkIsLeft
<1>. SUFFICES ASSUME Init PROVE TypeOK /\ WorkIsLeft
  OBVIOUS
<1>1. NotCreated \in ClaimRec /\ Unborn \in InstRec
  BY DEF NotCreated, ClaimRec, ClaimPhases, Unborn, InstRec, InstPhases
<1>2. ClusterTypeOK
  BY <1>1, TemplatesAssumption DEF Init, ClusterInit, ClusterTypeOK
<1>3. ClaimCtlTypeOK
  BY <1>1 DEF Init, ClaimCtlInit, ClaimCtlTypeOK, PCs
<1>4. PoolCtlTypeOK /\ WorkIsLeft
  BY DEF Init, PoolCtlInit, PoolCtlTypeOK, WorkIsLeft
<1>5. env \in Scenarios
  BY DEF Init, ClusterInit
<1>. QED  BY <1>2, <1>3, <1>4, <1>5 DEF TypeOK

(* Every step keeps the types. *)
LEMMA NextType ==
  ASSUME TypeOK, WorkIsLeft, [Next]_vars
  PROVE  TypeOK' /\ WorkIsLeft'
<1>0. env' = env
  BY DEF Next, vars
<1>1. CASE ClusterNext /\ UNCHANGED <<claimCtl, poolCtl>>
  BY <1>0, <1>1, ClusterKeepsType DEF WorkIsLeft, poolCtl
<1>2. CASE \E c \in Claims : (ReconcileClaim(c) \/ ApiError(c)) /\ UNCHANGED poolCtl
  BY <1>0, <1>2, ClaimCtlKeepsType DEF WorkIsLeft, poolCtl
<1>3. CASE (PoolNext \/ PoolError) /\ UNCHANGED claimCtl
  BY <1>0, <1>3, PoolCtlKeepsType
<1>4. CASE Crash
  <2>1. NotCreated \in ClaimRec
    BY DEF NotCreated, ClaimRec, ClaimPhases
  <2>. QED  BY <1>0, <1>4, <2>1 DEF Crash, TypeOK, ClusterTypeOK, ClaimCtlTypeOK, PoolCtlTypeOK,
              WorkIsLeft, PCs, etcd
<1>5. CASE UNCHANGED vars
  BY <1>5 DEF vars, clusterVars, etcd, caches, locks, claimCtl, poolCtl, TypeOK, ClusterTypeOK,
     ClaimCtlTypeOK, PoolCtlTypeOK, WorkIsLeft
<1>. QED  BY <1>1, <1>2, <1>3, <1>4, <1>5 DEF Next

(* TypeOK: in every behaviour of the two controllers and their environment   *)
(* every variable keeps its type.                                            *)
THEOREM TypeCorrect == Spec => []TypeOK
<1>1. Init => TypeOK /\ WorkIsLeft
  BY InitType
<1>2. TypeOK /\ WorkIsLeft /\ [Next]_vars => (TypeOK /\ WorkIsLeft)'
  BY NextType
<1>. QED  BY <1>1, <1>2, PTL DEF Spec

-----------------------------------------------------------------------------
(* Labels.  The claim-UID label of an instance changes from none to a claim, *)
(* and never again; this carries every other part of the invariant.          *)

LabelsGrow ==
  \A i \in Insts : inst[i].claim # NoClaim => inst'[i].claim = inst[i].claim

StoreInv ==
  CopiesAreCurrent /\ LockedIsFree /\ CachedLabelsHold /\ UnbornHasNoLabel

(* A write that does not touch a label already set keeps what is known of the  *)
(* copies, and gives no instance to anybody but the claim in the label written.*)
LEMMA PutEffect ==
  ASSUME ClusterTypeOK, StoreInv, NEW i \in Insts, NEW r \in InstRec,
         NEW lk \in [Claims -> SUBSET Insts], \A c \in Claims : lk[c] \subseteq lock[c],
         Put(i, r, lk), cache' = cache, r.st # "none",
         inst[i].claim # NoClaim => r.claim = inst[i].claim
  PROVE  /\ StoreInv' /\ LabelsGrow
         /\ \A c \in Claims : HeldBy(inst, c)' \subseteq HeldBy(inst, c) \cup {i}
         /\ \A c \in Claims : (r.claim # c \/ (Live(r) => Live(inst[i]) /\ inst[i].claim = r.claim))
              => HeldBy(inst, c)' \subseteq HeldBy(inst, c)
<1>1. /\ inst' = [inst EXCEPT ![i] = r] /\ inst \in [Insts -> InstRec]
      /\ fresh' = fresh \ {i} /\ tlock' = tlock \ {i}
      /\ lock' = [c \in Claims |-> lk[c] \ {i}]
      /\ fresh \subseteq Insts /\ tlock \subseteq Insts /\ lock \in [Claims -> SUBSET Insts]
  BY DEF Put, ClusterTypeOK
<1>2. inst'[i] = r /\ \A j \in Insts \ {i} : inst'[j] = inst[j]
  BY <1>1
<1>3. LabelsGrow
  BY <1>2 DEF LabelsGrow
<1>4. CopiesAreCurrent'
  BY <1>1, <1>2 DEF CopiesAreCurrent, StoreInv
<1>5. LockedIsFree'
  BY <1>1, <1>2 DEF LockedIsFree, StoreInv
<1>6. CachedLabelsHold'
  BY <1>3 DEF LabelsGrow, CachedLabelsHold, StoreInv
<1>7. UnbornHasNoLabel'
  BY <1>2 DEF UnbornHasNoLabel, StoreInv
<1>8. \A c \in Claims : HeldBy(inst, c)' \subseteq HeldBy(inst, c) \cup {i}
  BY <1>2 DEF HeldBy
<1>9. \A c \in Claims : (r.claim # c \/ (Live(r) => Live(inst[i]) /\ inst[i].claim = r.claim))
        => HeldBy(inst, c)' \subseteq HeldBy(inst, c)
  BY <1>2 DEF HeldBy, Live
<1>. QED  BY <1>3, <1>4, <1>5, <1>6, <1>7, <1>8, <1>9 DEF StoreInv

(* A delete only takes away. *)
LEMMA DeleteEffect ==
  ASSUME ClusterTypeOK, StoreInv, NEW i, Delete(i), cache' = cache
  PROVE  /\ StoreInv' /\ LabelsGrow
         /\ \A c \in Claims : HeldBy(inst, c)' \subseteq HeldBy(inst, c)
<1>1. CASE i \in Insts /\ Live(inst[i])
  <2>. DEFINE r == [inst[i] EXCEPT !.st = "gone"]
  <2>1. inst[i] \in InstRec /\ lock \in [Claims -> SUBSET Insts]
    BY <1>1 DEF ClusterTypeOK
  <2>2. r \in InstRec /\ r.st = "gone" /\ r.claim = inst[i].claim
    BY <2>1 DEF InstRec
  <2>3. Put(i, r, lock)
    BY <1>1 DEF Delete, Write
  <2>4. r.st # "none" /\ ~Live(r)
    BY <2>2 DEF Live
  <2>. HIDE DEF r
  <2>. QED  BY <1>1, <2>1, <2>2, <2>3, <2>4, PutEffect
<1>2. CASE ~(i \in Insts /\ Live(inst[i]))
  BY <1>2 DEF Delete, StoreInv, CopiesAreCurrent, LockedIsFree, CachedLabelsHold,
     UnbornHasNoLabel, LabelsGrow, HeldBy
<1>. QED  BY <1>1, <1>2

(* A step of one claim's reconcile: what it must establish about that claim   *)
(* for the invariant to hold of all.                                          *)
Mine(c) ==
  /\ pc'[c] \in Holding => held'[c] \in Insts /\ inst'[held'[c]].claim = c
  /\ pc'[c] \in Unbound => HeldBy(inst, c)' = {}
  /\ \A r \in {claim'[c].ref, orig'[c].ref} : r # NoInst => inst'[r].claim = c

OthersKept(c) ==
  \A d \in Claims \ {c} :
    /\ pc'[d] = pc[d] /\ held'[d] = held[d] /\ orig'[d] = orig[d]
    /\ claim'[d].ref = claim[d].ref
    /\ HeldBy(inst, d)' \subseteq HeldBy(inst, d)

CtlInv == HeldIsMine /\ UnboundHoldsNothing /\ RefsAreMine

(* If one claim's reconcile moves and establishes its part, and the others    *)
(* are kept, the controller part of the invariant holds again.                *)
LEMMA OneClaimMoves ==
  ASSUME TypeOK, CtlInv, LabelsGrow, ccache' = ccache, NEW c \in Claims, OthersKept(c), Mine(c)
  PROVE  CtlInv'
<1>1. ASSUME NEW d \in Claims, NEW r \in Insts, inst[r].claim = d
      PROVE  inst'[r].claim = d
  BY <1>1, ClaimsAssumption DEF LabelsGrow
<1>2. \A d \in Claims : \A r \in {claim[d].ref, ccache[d].ref, orig[d].ref} :
        r \in Insts \cup {NoInst}
  BY DEF TypeOK, ClusterTypeOK, ClaimCtlTypeOK, ClaimRec
<1>3. HeldIsMine'
  BY <1>1 DEF CtlInv, HeldIsMine, OthersKept, Mine
<1>4. UnboundHoldsNothing'
  BY DEF CtlInv, UnboundHoldsNothing, OthersKept, Mine
<1>5. RefsAreMine'
  <2>. SUFFICES ASSUME NEW d \in Claims, NEW r \in {claim'[d].ref, ccache'[d].ref, orig'[d].ref},
                       r # NoInst
                PROVE  inst'[r].claim = d
    BY DEF RefsAreMine
  <2>1. CASE r \in {claim[d].ref, ccache[d].ref, orig[d].ref}
    BY <1>1, <1>2, <2>1 DEF CtlInv, RefsAreMine
  <2>2. CASE d = c /\ r \in {claim'[c].ref, orig'[c].ref}
    BY <2>2 DEF Mine
  <2>. QED  BY <2>1, <2>2 DEF OthersKept
<1>. QED  BY <1>3, <1>4, <1>5 DEF CtlInv

(* A step that moves no reconcile and binds nothing. *)
Shrinks == \A c \in Claims : HeldBy(inst, c)' \subseteq HeldBy(inst, c)

(* The same when no reconcile moves. *)
LEMMA NobodyMoves ==
  ASSUME TypeOK, CtlInv, LabelsGrow, Shrinks, UNCHANGED <<pc, held, orig>>,
         \A c \in Claims : /\ claim'[c].ref = claim[c].ref
                           /\ ccache'[c].ref \in {ccache[c].ref, claim[c].ref}
  PROVE  CtlInv'
<1>1. ASSUME NEW d \in Claims, NEW r \in Insts, inst[r].claim = d
      PROVE  inst'[r].claim = d
  BY <1>1, ClaimsAssumption DEF LabelsGrow
<1>2. \A d \in Claims : \A r \in {claim[d].ref, ccache[d].ref, orig[d].ref} :
        r \in Insts \cup {NoInst}
  BY DEF TypeOK, ClusterTypeOK, ClaimCtlTypeOK, ClaimRec
<1>3. HeldIsMine'
  BY <1>1 DEF CtlInv, HeldIsMine
<1>4. UnboundHoldsNothing'
  BY DEF CtlInv, UnboundHoldsNothing, Shrinks
<1>5. RefsAreMine'
  BY <1>1, <1>2 DEF CtlInv, RefsAreMine
<1>. QED  BY <1>3, <1>4, <1>5 DEF CtlInv

(* Losing instances cannot make a claim hold two. *)
LEMMA ShrinkingKeepsOne == OneInstancePerClaim /\ Shrinks => OneInstancePerClaim'
BY DEF OneInstancePerClaim, Shrinks

(* With the instances and the locks untouched, nothing about labels changes. *)
LEMMA StoreUntouched ==
  ASSUME StoreInv, UNCHANGED <<inst, cache, fresh, lock, tlock>>
  PROVE  StoreInv' /\ LabelsGrow /\ Shrinks
BY DEF StoreInv, CopiesAreCurrent, LockedIsFree, CachedLabelsHold, UnbornHasNoLabel, LabelsGrow,
   Shrinks, HeldBy

(* The API server, its users and the instance controller keep the invariant. *)
LEMMA ClusterKeepsInv ==
  ASSUME TypeOK, StoreInv, CtlInv, OneInstancePerClaim,
         ClusterNext, UNCHANGED <<claimCtl, poolCtl>>
  PROVE  StoreInv' /\ CtlInv' /\ OneInstancePerClaim' /\ LabelsGrow
<1>. USE DEF claimCtl
<1>1. ClusterTypeOK /\ lock \in [Claims -> SUBSET Insts]
  BY DEF TypeOK, ClusterTypeOK
<1>2. CASE \E c \in Claims : SyncClaim(c) \/ CreateClaim(c) \/ DeleteClaim(c) \/ EditClaim(c)
  <2>1. PICK c \in Claims : SyncClaim(c) \/ CreateClaim(c) \/ DeleteClaim(c) \/ EditClaim(c)
    BY <1>2
  <2>2. UNCHANGED <<inst, cache, fresh, lock, tlock>>
    BY <2>1 DEF SyncClaim, CreateClaim, DeleteClaim, EditClaim, etcd, caches, locks
  <2>3. \A d \in Claims : /\ claim'[d].ref = claim[d].ref
                          /\ ccache'[d].ref \in {ccache[d].ref, claim[d].ref}
    <3>1. claim \in [Claims -> ClaimRec] /\ ccache \in [Claims -> ClaimRec]
      BY <1>1 DEF ClusterTypeOK
    <3>2. CASE SyncClaim(c)
      BY <3>1, <3>2 DEF SyncClaim, etcd
    <3>3. CASE CreateClaim(c)
      BY <3>1, <3>3 DEF CreateClaim, caches, ClaimRec
    <3>4. CASE DeleteClaim(c)
      BY <3>1, <3>4 DEF DeleteClaim, caches, ClaimRec
    <3>5. CASE EditClaim(c)
      BY <3>1, <3>5 DEF EditClaim, caches, ClaimRec
    <3>. QED  BY <2>1, <3>2, <3>3, <3>4, <3>5
  <2>. QED  BY <2>2, <2>3, StoreUntouched, NobodyMoves, ShrinkingKeepsOne
<1>3. CASE \E i \in Insts : SyncInstance(i)
  <2>1. PICK i \in Insts : SyncInstance(i)
    BY <1>3
  <2>2. UNCHANGED <<claim, inst, ccache, lock, tlock>>
    BY <2>1 DEF SyncInstance, etcd, locks
  <2>3. cache' = [cache EXCEPT ![i] = inst[i]] /\ fresh' = fresh \cup {i}
        /\ cache \in [Insts -> InstRec]
    BY <1>1, <2>1 DEF SyncInstance, ClusterTypeOK
  <2>4. StoreInv'
    <3>1. CopiesAreCurrent'
      BY <1>1, <2>2, <2>3 DEF StoreInv, CopiesAreCurrent, ClusterTypeOK
    <3>2. LockedIsFree' /\ UnbornHasNoLabel'
      BY <2>2 DEF StoreInv, LockedIsFree, UnbornHasNoLabel
    <3>3. CachedLabelsHold'
      BY <2>2, <2>3 DEF StoreInv, CachedLabelsHold
    <3>. QED  BY <3>1, <3>2, <3>3 DEF StoreInv
  <2>5. LabelsGrow /\ Shrinks
    BY <2>2 DEF LabelsGrow, Shrinks, HeldBy
  <2>. QED  BY <2>2, <2>4, <2>5, NobodyMoves, ShrinkingKeepsOne
<1>4. CASE \E i \in Insts : ComesUp(i) \/ Fails(i) \/ Recovers(i)
  <2>1. PICK i \in Insts, p \in InstPhases : SetPhase(i, p)
    BY <1>4 DEF ComesUp, Fails, Recovers, InstPhases
  <2>. DEFINE r == [inst[i] EXCEPT !.phase = p]
  <2>2. inst[i] \in InstRec
    BY <1>1 DEF ClusterTypeOK
  <2>3. r \in InstRec /\ r.st = "live" /\ r.claim = inst[i].claim
    BY <2>1, <2>2 DEF InstRec, SetPhase, Live
  <2>4. Put(i, r, lock) /\ UNCHANGED <<claim, ccache, cache>> /\ Live(inst[i])
    BY <2>1 DEF SetPhase, Write
  <2>. HIDE DEF r
  <2>5. StoreInv' /\ LabelsGrow /\ Shrinks
    BY <1>1, <2>3, <2>4, PutEffect DEF Shrinks
  <2>. QED  BY <2>4, <2>5, NobodyMoves, ShrinkingKeepsOne
<1>5. CASE \E i \in Insts : Reap(i) \/ GarbageCollect(i)
  <2>1. PICK i \in Insts : Delete(i) /\ UNCHANGED <<claim, ccache, cache>>
    BY <1>5 DEF Reap, GarbageCollect
  <2>2. StoreInv' /\ LabelsGrow /\ Shrinks
    BY <1>1, <2>1, DeleteEffect DEF Shrinks
  <2>. QED  BY <2>1, <2>2, NobodyMoves, ShrinkingKeepsOne
<1>6. CASE EditTemplate \/ \E i \in Insts : WindowCloses(i)
  <2>1. UNCHANGED <<claim, ccache, inst, cache, fresh, lock, tlock>>
    BY <1>6 DEF EditTemplate, WindowCloses, caches, locks
  <2>. QED  BY <2>1, StoreUntouched, NobodyMoves, ShrinkingKeepsOne
<1>. QED  BY <1>2, <1>3, <1>4, <1>5, <1>6 DEF ClusterNext

(* The template controller keeps the invariant. *)
LEMMA PoolCtlKeepsInv ==
  ASSUME TypeOK, StoreInv, CtlInv, OneInstancePerClaim,
         PoolNext \/ PoolError, UNCHANGED claimCtl
  PROVE  StoreInv' /\ CtlInv' /\ OneInstancePerClaim' /\ LabelsGrow
<1>. USE DEF claimCtl
<1>1. ClusterTypeOK /\ lock \in [Claims -> SUBSET Insts]
  BY DEF TypeOK, ClusterTypeOK
<1>2. UNCHANGED <<claim, ccache, cache>>
  BY DEF PoolNext, ReconcileTemplate, createPoolInstance, RereadVictim, PurgeVictim, PoolError,
     clusterVars, etcd, caches
<1>3. CASE ReconcileTemplate
  BY <1>2, <1>3, StoreUntouched, NobodyMoves, ShrinkingKeepsOne
     DEF ReconcileTemplate, clusterVars, etcd, caches, locks
<1>4. CASE createPoolInstance
  <2>. DEFINE new == [st |-> "live", claim |-> NoClaim, owned |-> FALSE, pooled |-> TRUE,
                      phase |-> "Warming"]
  <2>1. PICK i \in Insts : inst[i].st = "none" /\ Put(i, new, lock)
    BY <1>4 DEF createPoolInstance, Write
  <2>2. new \in InstRec /\ new.claim = NoClaim /\ new.st # "none"
    BY DEF InstRec, InstPhases
  <2>3. inst[i].claim = NoClaim
    BY <2>1 DEF StoreInv, UnbornHasNoLabel
  <2>. HIDE DEF new
  <2>4. StoreInv' /\ LabelsGrow /\ Shrinks
    BY <1>1, <1>2, <2>1, <2>2, <2>3, PutEffect, ClaimsAssumption DEF Shrinks
  <2>. QED  BY <1>2, <2>4, NobodyMoves, ShrinkingKeepsOne
<1>5. CASE RereadVictim
  <2>1. UNCHANGED <<inst, fresh, lock>>
    BY <1>5 DEF RereadVictim, etcd, caches
  <2>2. LabelsGrow /\ Shrinks
    BY <2>1 DEF LabelsGrow, Shrinks, HeldBy
  <2>3. tlock' = tlock \/ \E i \in Insts : tlock' = {i} /\ isPurgeable(inst[i])
    BY <1>5 DEF RereadVictim, TypeOK, PoolCtlTypeOK
  <2>4. StoreInv'
    BY <1>2, <2>1, <2>3 DEF StoreInv, CopiesAreCurrent, LockedIsFree, CachedLabelsHold,
       UnbornHasNoLabel, isPurgeable
  <2>. QED  BY <1>2, <2>2, <2>4, NobodyMoves, ShrinkingKeepsOne
<1>6. CASE PurgeVictim
  <2>1. Delete(victim) \/ UNCHANGED <<inst, fresh, lock, tlock>>
    BY <1>6 DEF PurgeVictim, locks
  <2>2. StoreInv' /\ LabelsGrow /\ Shrinks
    BY <1>1, <1>2, <2>1, DeleteEffect, StoreUntouched DEF Shrinks
  <2>. QED  BY <1>2, <2>2, NobodyMoves, ShrinkingKeepsOne
<1>7. CASE PoolError
  <2>1. UNCHANGED <<inst, fresh, lock>> /\ tlock' = {}
    BY <1>7 DEF PoolError, etcd, caches
  <2>2. StoreInv' /\ LabelsGrow /\ Shrinks
    BY <1>2, <2>1 DEF StoreInv, CopiesAreCurrent, LockedIsFree, CachedLabelsHold,
       UnbornHasNoLabel, LabelsGrow, Shrinks, HeldBy
  <2>. QED  BY <1>2, <2>2, NobodyMoves, ShrinkingKeepsOne
<1>. QED  BY <1>3, <1>4, <1>5, <1>6, <1>7 DEF PoolNext

(* A status patch leaves other claims alone, and stores a reference that was   *)
(* there before or is the one given.                                           *)
LEMMA PatchRef ==
  ASSUME TypeOK, NEW c \in Claims, NEW p, NEW r, NEW e, patchStatus(c, p, r, e)
  PROVE  /\ claim'[c].ref \in {claim[c].ref, r}
         /\ \A d \in Claims \ {c} : claim'[d].ref = claim[d].ref
<1>1. claim \in [Claims -> ClaimRec]
  BY DEF TypeOK, ClusterTypeOK
<1>. QED  BY <1>1 DEF patchStatus, Merge, ClaimRec

(* Every step of a claim reconcile keeps the invariant. *)
LEMMA ClaimCtlKeepsInv ==
  ASSUME TypeOK, StoreInv, CtlInv, OneInstancePerClaim,
         NEW c \in Claims, ReconcileClaim(c) \/ ApiError(c)
  PROVE  StoreInv' /\ CtlInv' /\ OneInstancePerClaim' /\ LabelsGrow
<1>1. /\ ClusterTypeOK /\ lock \in [Claims -> SUBSET Insts]
      /\ pc \in [Claims -> PCs] /\ orig \in [Claims -> ClaimRec]
      /\ held \in [Claims -> Insts \cup {NoInst}] /\ cand \in [Claims -> SUBSET Insts]
      /\ claim \in [Claims -> ClaimRec] /\ ccache \in [Claims -> ClaimRec]
      /\ inst \in [Insts -> InstRec] /\ cache \in [Insts -> InstRec]
  BY DEF TypeOK, ClusterTypeOK, ClaimCtlTypeOK
<1>2. \A r \in {claim[c].ref, ccache[c].ref, orig[c].ref} :
        r \in Insts \cup {NoInst} /\ (r # NoInst => inst[r].claim = c)
  BY <1>1 DEF CtlInv, RefsAreMine, ClaimRec
(* What is left to show of a step that binds nothing. *)
<1>3. ASSUME StoreInv', LabelsGrow, Shrinks, ccache' = ccache,
             \A d \in Claims \ {c} : /\ pc'[d] = pc[d] /\ held'[d] = held[d] /\ orig'[d] = orig[d]
                                     /\ claim'[d].ref = claim[d].ref,
             pc'[c] \in Holding => held'[c] \in Insts /\ inst[held'[c]].claim = c,
             pc'[c] \in Unbound => pc[c] \in Unbound \/ HeldBy(inst, c) = {},
             claim'[c].ref = NoInst \/ (claim'[c].ref \in Insts /\ inst[claim'[c].ref].claim = c),
             orig'[c].ref = NoInst \/ (orig'[c].ref \in Insts /\ inst[orig'[c].ref].claim = c)
      PROVE  StoreInv' /\ CtlInv' /\ OneInstancePerClaim' /\ LabelsGrow
  <2>1. ASSUME NEW r \in Insts, inst[r].claim = c PROVE inst'[r].claim = c
    BY <1>3, <2>1, ClaimsAssumption DEF LabelsGrow
  <2>2. Mine(c)
    <3>1. pc'[c] \in Holding => held'[c] \in Insts /\ inst'[held'[c]].claim = c
      BY <1>3, <2>1
    <3>2. pc'[c] \in Unbound => HeldBy(inst, c)' = {}
      BY <1>3 DEF CtlInv, UnboundHoldsNothing, Shrinks
    <3>3. \A r \in {claim'[c].ref, orig'[c].ref} : r # NoInst => inst'[r].claim = c
      BY <1>3, <2>1
    <3>. QED  BY <3>1, <3>2, <3>3 DEF Mine
  <2>3. OthersKept(c)
    BY <1>3 DEF OthersKept, Shrinks
  <2>. QED  BY <1>3, <2>2, <2>3, OneClaimMoves, ShrinkingKeepsOne
<1>4. ASSUME UNCHANGED clusterVars
      PROVE  /\ StoreInv' /\ LabelsGrow /\ Shrinks /\ ccache' = ccache /\ claim' = claim
  BY <1>4, StoreUntouched DEF clusterVars, etcd, caches, locks
<1>5. ASSUME NEW l \in PCs, Goto(c, l)
      PROVE  pc'[c] = l /\ \A d \in Claims \ {c} : pc'[d] = pc[d]
  BY <1>1, <1>5 DEF Goto
<1>6. ASSUME Return(c)
      PROVE  /\ pc'[c] = "idle" /\ orig'[c].ref = NoInst
             /\ \A d \in Claims \ {c} : pc'[d] = pc[d] /\ held'[d] = held[d] /\ orig'[d] = orig[d]
  BY <1>1, <1>6 DEF Return, Goto, NotCreated
<1>7. ASSUME NEW i \in Insts, inst[i].claim = c, NEW r, Found(c, i, r)
      PROVE  /\ pc'[c] \notin Unbound /\ held'[c] = i
             /\ \A d \in Claims \ {c} : pc'[d] = pc[d] /\ held'[d] = held[d]
  BY <1>1, <1>7 DEF Found, AfterLookup, Goto, Unbound
<1>8. "idle" \notin Holding \cup Unbound
  BY DEF Holding, Unbound
<1>9. \A i \in HeldBy(inst, c) \cup HeldBy(cache, c) : i \in Insts /\ inst[i].claim = c
  BY ClaimsAssumption DEF HeldBy, StoreInv, CachedLabelsHold
<1>10. CASE Observe(c)
  <2>1. UNCHANGED <<inst, cache, ccache, fresh, lock, tlock, pc, held, orig>>
    BY <1>10 DEF Observe, caches, locks, claimCtl
  <2>2. \A d \in Claims : claim'[d].ref = claim[d].ref
    BY <1>1, <1>10 DEF Observe, ClaimRec
  <2>. QED  BY <2>1, <2>2, StoreUntouched, NobodyMoves, ShrinkingKeepsOne
<1>11. CASE Start(c)
  <2>1. orig'[c] = ccache[c] /\ (\A d \in Claims \ {c} : orig'[d] = orig[d]) /\ UNCHANGED clusterVars
    BY <1>1, <1>11 DEF Start
  <2>2. /\ pc'[c] \notin Unbound
        /\ pc'[c] \in Holding => held'[c] \in Insts /\ inst[held'[c]].claim = c
        /\ \A d \in Claims \ {c} : pc'[d] = pc[d] /\ held'[d] = held[d]
    <3>1. CASE Goto(c, "release") /\ UNCHANGED held
      BY <1>1, <3>1 DEF Goto, Unbound, Holding
    <3>2. CASE Goto(c, "confirm") /\ UNCHANGED held
      BY <1>1, <3>2 DEF Goto, Unbound, Holding
    <3>3. CASE \E i \in HeldBy(cache, c) : Found(c, i, cache[i])
      BY <1>7, <1>9, <3>3
    <3>. QED  BY <1>11, <3>1, <3>2, <3>3 DEF Start
  <2>. QED  BY <1>2, <1>3, <1>4, <2>1, <2>2
<1>12. CASE Confirm(c)
  <2>1. UNCHANGED clusterVars /\ UNCHANGED orig
    BY <1>12 DEF Confirm
  <2>2. /\ pc'[c] \in Unbound => HeldBy(inst, c) = {}
        /\ pc'[c] \in Holding => held'[c] \in Insts /\ inst[held'[c]].claim = c
        /\ \A d \in Claims \ {c} : pc'[d] = pc[d] /\ held'[d] = held[d]
    <3>1. CASE HeldBy(inst, c) = {} /\ (Goto(c, "quota") \/ Goto(c, "expire")) /\ UNCHANGED held
      BY <1>1, <3>1 DEF Goto, Unbound, Holding
    <3>2. CASE \E i \in HeldBy(inst, c) : Found(c, i, inst[i])
      BY <1>7, <1>9, <3>2
    <3>. QED  BY <1>12, <3>1, <3>2 DEF Confirm
  <2>. QED  BY <1>2, <1>3, <1>4, <2>1, <2>2
<1>13. CASE CheckQuota(c) \/ PoolExhausted(c) \/ CheckCapacity(c)
  <2>1. UNCHANGED clusterVars /\ UNCHANGED <<orig, held>> /\ pc[c] \in Unbound
    BY <1>13 DEF CheckQuota, PoolExhausted, CheckCapacity, Unbound
  <2>2. pc'[c] \notin Holding /\ \A d \in Claims \ {c} : pc'[d] = pc[d]
    BY <1>1, <1>13 DEF CheckQuota, PoolExhausted, CheckCapacity, Goto, Holding
  <2>. QED  BY <1>2, <1>3, <1>4, <2>1, <2>2
<1>14. CASE Requota(c) \/ Recap(c)
  <2>1. UNCHANGED clusterVars /\ UNCHANGED <<orig, held>> /\ pc[c] \in Holding
    BY <1>14 DEF Requota, Recap, Holding
  <2>2. pc'[c] \notin Unbound /\ \A d \in Claims \ {c} : pc'[d] = pc[d]
    BY <1>1, <1>14 DEF Requota, Recap, Goto, Unbound
  <2>3. held[c] \in Insts /\ inst[held[c]].claim = c
    BY <2>1 DEF CtlInv, HeldIsMine
  <2>. QED  BY <1>2, <1>3, <1>4, <2>1, <2>2, <2>3
<1>15. CASE ListPool(c)
  <2>1. PICK T \in SUBSET {i \in Insts : isClaimable(cache[i])} :
          lock' = [lock EXCEPT ![c] = T \cap fresh]
    BY <1>15 DEF ListPool, Attempts
  <2>2. UNCHANGED <<claim, inst, cache, ccache, fresh, tlock, orig, held>> /\ pc[c] \in Unbound
    BY <1>15 DEF ListPool, etcd, caches, Unbound
  <2>3. pc'[c] \notin Holding /\ \A d \in Claims \ {c} : pc'[d] = pc[d]
    BY <1>1, <1>15 DEF ListPool, Goto, Holding
  <2>4. LockedIsFree'
    BY <1>1, <2>1, <2>2 DEF StoreInv, LockedIsFree, CopiesAreCurrent, isClaimable
  <2>5. StoreInv' /\ LabelsGrow /\ Shrinks
    BY <2>2, <2>4 DEF StoreInv, CopiesAreCurrent, CachedLabelsHold, UnbornHasNoLabel, LabelsGrow,
       Shrinks, HeldBy
  <2>. QED  BY <1>2, <1>3, <2>2, <2>3, <2>5
<1>16. CASE AcquireConflict(c)
  <2>1. UNCHANGED clusterVars /\ UNCHANGED <<pc, orig, held>>
    BY <1>16 DEF AcquireConflict
  <2>. QED  BY <1>4, <2>1, NobodyMoves, ShrinkingKeepsOne
(* The two steps that bind: the claim held nothing, so it now holds one. *)
<1>17. ASSUME NEW i \in Insts, NEW r \in InstRec, NEW lk \in [Claims -> SUBSET Insts],
              \A d \in Claims : lk[d] \subseteq lock[d],
              Put(i, r, lk), inst[i].claim = NoClaim, r.claim = c, r.st = "live",
              pc[c] \in Unbound, Goto(c, "requota"), held' = [held EXCEPT ![c] = i],
              UNCHANGED <<claim, ccache, cache, orig>>
       PROVE  StoreInv' /\ CtlInv' /\ OneInstancePerClaim' /\ LabelsGrow
  <2>0. r.st # "none"
    BY <1>17
  <2>1. /\ StoreInv' /\ LabelsGrow
        /\ HeldBy(inst, c)' \subseteq HeldBy(inst, c) \cup {i}
        /\ \A d \in Claims \ {c} : HeldBy(inst, d)' \subseteq HeldBy(inst, d)
    BY <1>1, <1>17, <2>0, PutEffect
  <2>2. HeldBy(inst, c) = {}
    BY <1>17 DEF CtlInv, UnboundHoldsNothing
  <2>3. OneInstancePerClaim'
    BY <2>1, <2>2 DEF OneInstancePerClaim
  <2>4. inst'[i].claim = c /\ held'[c] = i /\ pc'[c] = "requota"
    BY <1>1, <1>17 DEF Put, Goto
  <2>5. \A q \in Insts : inst[q].claim = c => inst'[q].claim = c
    BY <2>1, ClaimsAssumption DEF LabelsGrow
  <2>6. Mine(c)
    BY <1>2, <1>17, <2>4, <2>5 DEF Mine, Unbound
  <2>7. OthersKept(c)
    BY <1>1, <1>17, <2>1 DEF OthersKept, Goto
  <2>. QED  BY <1>17, <2>1, <2>3, <2>6, <2>7, OneClaimMoves
<1>18. CASE Acquire(c)
  <2>1. PICK i \in cand[c] \cap lock[c] :
          /\ Put(i, [inst[i] EXCEPT !.claim = c], [lock EXCEPT ![c] = {}])
          /\ held' = [held EXCEPT ![c] = i]
    BY <1>18 DEF Acquire
  <2>. DEFINE r == [inst[i] EXCEPT !.claim = c]
              lk == [lock EXCEPT ![c] = {}]
  <2>2. i \in Insts /\ inst[i] \in InstRec /\ inst[i].claim = NoClaim
    BY <1>1, <2>1 DEF StoreInv, LockedIsFree
  <2>3. r \in InstRec /\ r.claim = c /\ r.st = inst[i].st
    BY <2>2 DEF InstRec
  <2>4. lk \in [Claims -> SUBSET Insts] /\ \A d \in Claims : lk[d] \subseteq lock[d]
    BY <1>1
  <2>5. pc[c] \in Unbound /\ Goto(c, "requota") /\ UNCHANGED <<claim, ccache, cache, orig>>
    BY <1>18 DEF Acquire, Unbound
  <2>6. inst[i].st = "live"
    BY <2>1 DEF StoreInv, LockedIsFree, Live
  <2>. HIDE DEF r, lk
  <2>. QED  BY <1>17, <2>1, <2>2, <2>3, <2>4, <2>5, <2>6 DEF r, lk
<1>19. CASE createOnDemand(c)
  <2>. DEFINE new == [st |-> "live", claim |-> c, owned |-> TRUE, pooled |-> FALSE,
                      phase |-> "Up"]
  <2>1. PICK i \in Insts :
          inst[i].st = "none" /\ Put(i, new, lock) /\ held' = [held EXCEPT ![c] = i]
    BY <1>19 DEF createOnDemand, Write
  <2>2. new \in InstRec /\ new.claim = c /\ new.st = "live"
    BY DEF InstRec, InstPhases
  <2>3. inst[i].claim = NoClaim
    BY <2>1 DEF StoreInv, UnbornHasNoLabel
  <2>4. pc[c] \in Unbound /\ Goto(c, "requota") /\ UNCHANGED <<claim, ccache, cache, orig>>
    BY <1>19 DEF createOnDemand, Unbound
  <2>. HIDE DEF new
  <2>. QED  BY <1>1, <1>17, <2>1, <2>2, <2>3, <2>4
<1>20. CASE Evict(c) \/ GiveBack(c) \/ Drop(c) \/ Expire(c)
  <2>1. Delete(held[c]) /\ UNCHANGED <<claim, ccache, cache, orig, held>>
    BY <1>20 DEF Evict, GiveBack, Drop, Expire
  <2>2. StoreInv' /\ LabelsGrow /\ Shrinks
    BY <1>1, <2>1, DeleteEffect DEF Shrinks
  <2>3. pc'[c] \notin Holding \cup Unbound /\ \A d \in Claims \ {c} : pc'[d] = pc[d]
    BY <1>1, <1>20 DEF Evict, GiveBack, Drop, Expire, Goto, Holding, Unbound
  <2>. QED  BY <1>2, <1>3, <2>1, <2>2, <2>3
<1>21. CASE syncInstance(c)
  <2>1. held[c] \in Insts /\ inst[held[c]].claim = c
    BY <1>21 DEF syncInstance, CtlInv, HeldIsMine, Holding
  <2>2. UNCHANGED <<claim, ccache, cache, orig, held>>
    BY <1>21 DEF syncInstance
  <2>3. pc'[c] \notin Unbound /\ \A d \in Claims \ {c} : pc'[d] = pc[d]
    BY <1>1, <1>21 DEF syncInstance, Goto, Unbound
  <2>4. StoreInv' /\ LabelsGrow /\ Shrinks
    <3>1. CASE UNCHANGED <<inst, fresh, locks>>
      BY <2>2, <3>1, StoreUntouched DEF locks
    <3>2. CASE /\ Live(cache[held[c]]) /\ held[c] \in fresh
               /\ Write(held[c], [cache[held[c]] EXCEPT !.claim = c, !.owned = TRUE])
      <4>. DEFINE r == [cache[held[c]] EXCEPT !.claim = c, !.owned = TRUE]
      <4>1. cache[held[c]] \in InstRec /\ cache[held[c]] = inst[held[c]]
        BY <1>1, <2>1, <3>2 DEF StoreInv, CopiesAreCurrent
      <4>2. r \in InstRec /\ r.claim = c /\ r.st = "live"
        BY <3>2, <4>1 DEF InstRec, Live
      <4>3. Put(held[c], r, lock) /\ Live(inst[held[c]]) /\ r.st # "none"
        BY <3>2, <4>1, <4>2 DEF Write
      <4>. HIDE DEF r
      <4>. QED  BY <1>1, <2>1, <2>2, <4>2, <4>3, PutEffect DEF Shrinks
    <3>. QED  BY <1>21, <3>1, <3>2 DEF syncInstance
  <2>. QED  BY <1>2, <1>3, <2>1, <2>2, <2>3, <2>4
<1>22. CASE SyncFails(c)
  <2>1. Return(c) /\ UNCHANGED clusterVars
    BY <1>22 DEF SyncFails
  <2>. QED  BY <1>2, <1>3, <1>4, <1>6, <1>8, <2>1
<1>23. CASE PatchBound(c) \/ PatchPending(c) \/ PatchRejected(c) \/ PatchExpired(c)
  <2>1. Return(c) /\ UNCHANGED <<inst, cache, ccache, fresh, lock, tlock>>
    BY <1>23 DEF PatchBound, PatchPending, PatchRejected, PatchExpired, caches, locks
  <2>2. /\ claim'[c].ref \in {claim[c].ref, NoInst, held[c]}
        /\ claim'[c].ref # held[c] \/ pc[c] = "bound" \/ claim'[c].ref \in {claim[c].ref, NoInst}
        /\ \A d \in Claims \ {c} : claim'[d].ref = claim[d].ref
    BY <1>23, PatchRef DEF PatchBound, PatchPending, PatchRejected, PatchExpired
  <2>3. pc[c] = "bound" => held[c] \in Insts /\ inst[held[c]].claim = c
    BY DEF CtlInv, HeldIsMine, Holding
  <2>4. claim'[c].ref = NoInst \/ (claim'[c].ref \in Insts /\ inst[claim'[c].ref].claim = c)
    BY <1>2, <2>2, <2>3
  <2>. QED  BY <1>3, <1>6, <1>8, <2>1, <2>2, <2>4, StoreUntouched
<1>24. CASE Release(c)
  <2>1. UNCHANGED clusterVars /\ UNCHANGED orig
    BY <1>24 DEF Release
  <2>2. /\ pc'[c] \notin Unbound
        /\ pc'[c] \in Holding => held'[c] \in Insts /\ inst[held'[c]].claim = c
        /\ \A d \in Claims \ {c} : pc'[d] = pc[d] /\ held'[d] = held[d]
    <3>1. CASE Goto(c, "rejected") /\ held' = [held EXCEPT ![c] = NoInst]
      BY <1>1, <3>1 DEF Goto, Unbound, Holding
    <3>2. CASE \E i \in HeldBy(cache, c) \cup HeldBy(inst, c) :
                 held' = [held EXCEPT ![c] = i] /\ Goto(c, "drop")
      BY <1>1, <1>9, <3>2 DEF Goto, Unbound
    <3>. QED  BY <1>24, <3>1, <3>2 DEF Release
  <2>. QED  BY <1>2, <1>3, <1>4, <2>1, <2>2
<1>25. CASE ApiError(c)
  <2>1. Return(c) /\ UNCHANGED <<claim, inst, cache, ccache, fresh, tlock>>
        /\ lock' = [lock EXCEPT ![c] = {}]
    BY <1>25 DEF ApiError, etcd, caches
  <2>2. StoreInv'
    BY <1>1, <2>1 DEF StoreInv, CopiesAreCurrent, LockedIsFree, CachedLabelsHold, UnbornHasNoLabel
  <2>3. LabelsGrow /\ Shrinks
    BY <2>1 DEF LabelsGrow, Shrinks, HeldBy
  <2>. QED  BY <1>2, <1>3, <1>6, <1>8, <2>1, <2>2, <2>3
<1>. QED
  BY <1>10, <1>11, <1>12, <1>13, <1>14, <1>15, <1>16, <1>18, <1>19, <1>20, <1>21, <1>22, <1>23,
     <1>24, <1>25 DEF ReconcileClaim

-----------------------------------------------------------------------------
(* The initial state satisfies the invariant. *)
LEMMA InitInv == Init => BindingInv
<1>. SUFFICES ASSUME Init PROVE BindingInv
  OBVIOUS
<1>1. TypeOK /\ WorkIsLeft
  BY InitType
<1>2. \A i \in Insts : inst[i] = Unborn /\ cache[i] = inst[i]
  BY DEF Init, ClusterInit
<1>3. \A c \in Claims : /\ claim[c] = NotCreated /\ ccache[c] = NotCreated
                        /\ orig[c] = NotCreated /\ pc[c] = "idle"
  BY DEF Init, ClusterInit, ClaimCtlInit
<1>4. CopiesAreCurrent /\ LockedIsFree /\ CachedLabelsHold /\ UnbornHasNoLabel
  BY <1>2 DEF CopiesAreCurrent, LockedIsFree, CachedLabelsHold, UnbornHasNoLabel, Unborn,
     Init, ClusterInit
<1>5. HeldIsMine /\ UnboundHoldsNothing /\ RefsAreMine
  BY <1>3 DEF HeldIsMine, UnboundHoldsNothing, RefsAreMine, NotCreated, Holding, Unbound
<1>6. OneInstancePerClaim
  BY <1>2 DEF OneInstancePerClaim, HeldBy, Live, Unborn
<1>. QED  BY <1>1, <1>4, <1>5, <1>6 DEF BindingInv

(* Every step keeps it, and no step moves a label. *)
LEMMA NextInv ==
  ASSUME BindingInv, [Next]_vars
  PROVE  BindingInv' /\ LabelsGrow
<1>1. TypeOK' /\ WorkIsLeft'
  BY NextType DEF BindingInv
<1>2. TypeOK /\ StoreInv /\ CtlInv /\ OneInstancePerClaim
  BY DEF BindingInv, StoreInv, CtlInv
<1>3. StoreInv' /\ CtlInv' /\ OneInstancePerClaim' /\ LabelsGrow
  <2>1. CASE ClusterNext /\ UNCHANGED <<claimCtl, poolCtl>>
    BY <1>2, <2>1, ClusterKeepsInv
  <2>2. CASE \E c \in Claims : (ReconcileClaim(c) \/ ApiError(c)) /\ UNCHANGED poolCtl
    BY <1>2, <2>2, ClaimCtlKeepsInv
  <2>3. CASE (PoolNext \/ PoolError) /\ UNCHANGED claimCtl
    BY <1>2, <2>3, PoolCtlKeepsInv
  <2>4. CASE Crash
    <3>1. UNCHANGED <<claim, inst>> /\ ccache' = claim /\ cache' = inst
      BY <2>4 DEF Crash, etcd
    <3>2. StoreInv'
      BY <1>2, <2>4, <3>1 DEF Crash, StoreInv, CopiesAreCurrent, LockedIsFree, CachedLabelsHold,
         UnbornHasNoLabel
    <3>3. HeldIsMine' /\ UnboundHoldsNothing'
      BY <2>4 DEF Crash, HeldIsMine, UnboundHoldsNothing, Holding, Unbound
    <3>4. RefsAreMine'
      BY <1>2, <2>4, <3>1 DEF Crash, CtlInv, RefsAreMine, NotCreated
    <3>5. OneInstancePerClaim' /\ LabelsGrow
      BY <1>2, <3>1 DEF OneInstancePerClaim, LabelsGrow, HeldBy
    <3>. QED  BY <3>2, <3>3, <3>4, <3>5 DEF CtlInv
  <2>5. CASE UNCHANGED vars
    BY <1>2, <2>5, StoreUntouched, NobodyMoves, ShrinkingKeepsOne
       DEF vars, clusterVars, etcd, caches, locks, claimCtl
  <2>. QED  BY <2>1, <2>2, <2>3, <2>4, <2>5 DEF Next
<1>. QED  BY <1>1, <1>3 DEF BindingInv, StoreInv, CtlInv

(* The inductive invariant holds in every reachable state. *)
THEOREM InvariantHolds == Spec => []BindingInv
<1>1. BindingInv /\ [Next]_vars => BindingInv'
  BY NextInv
<1>. QED  BY InitInv, <1>1, PTL DEF Spec

(* No claim ever holds two environments, for any number of claims, instances, *)
(* crashes and API errors and any lag of the caches (boundInstance, bind).    *)
THEOREM NeverTwo == Spec => []OneInstancePerClaim
<1>1. BindingInv => OneInstancePerClaim
  BY DEF BindingInv
<1>. QED  BY InvariantHolds, <1>1, PTL

(* The status of a claim never names another claim's environment (project,   *)
(* patchStatus).                                                             *)
THEOREM RefsNeverCross == Spec => []RefIsMine
<1>1. BindingInv => RefIsMine
  BY DEF BindingInv, RefsAreMine, RefIsMine
<1>. QED  BY InvariantHolds, <1>1, PTL

(* An environment, once won, is never handed to another claim                *)
(* (acquirePooled, syncInstance).                                            *)
THEOREM LabelsStay == Spec => LabelNeverMoves
<1>1. BindingInv /\ [Next]_vars
        => [\A i \in Insts : inst[i].claim # NoClaim => inst'[i].claim = inst[i].claim]_vars
  BY NextInv DEF LabelsGrow
<1>. QED  BY InvariantHolds, <1>1, PTL DEF Spec, LabelNeverMoves

(* The pool purge never destroys an environment a claim has won, even one won *)
(* between the uncached re-read and the delete (purgeSurplus).                *)
THEOREM PurgeIsSafe == Spec => PurgeSparesClaimed
<1>. DEFINE Spared == \A i \in Insts :
              (Live(inst[i]) /\ ~Live(inst'[i]) /\ inst[i].claim # NoClaim) => poolCtl' = poolCtl
<1>1. ASSUME BindingInv, [Next]_vars PROVE Spared
  <2>1. CASE poolCtl' = poolCtl
    BY <2>1
  <2>2. CASE Crash \/ ReconcileTemplate \/ RereadVictim \/ PoolError
    BY <2>2 DEF Crash, ReconcileTemplate, RereadVictim, PoolError, clusterVars, etcd
  <2>3. inst \in [Insts -> InstRec]
    BY <1>1 DEF BindingInv, TypeOK, ClusterTypeOK
  <2>4. CASE createPoolInstance
    BY <2>3, <2>4 DEF createPoolInstance, Write, Put, Live
  <2>5. CASE PurgeVictim
    <3>1. CASE victim \in tlock
      <4>1. inst[victim].claim = NoClaim
        BY <1>1, <3>1 DEF BindingInv, LockedIsFree
      <4>. QED  BY <2>3, <2>5, <3>1, <4>1 DEF PurgeVictim, Delete, Write, Put
    <3>2. CASE victim \notin tlock
      BY <2>5, <3>2 DEF PurgeVictim
    <3>. QED  BY <3>1, <3>2
  <2>. QED  BY <1>1, <2>1, <2>2, <2>4, <2>5 DEF Next, PoolNext, vars
<1>2. BindingInv /\ [Next]_vars => [Spared]_vars
  BY <1>1
<1>. QED  BY InvariantHolds, <1>2, PTL DEF Spec, PurgeSparesClaimed
=============================================================================

------------------------------ MODULE Binding ------------------------------
(***************************************************************************)
(* The claim controller, the template controller and everybody else on one *)
(* API server: who ends up holding which environment.                      *)
(***************************************************************************)
EXTENDS ClaimController, PoolController

vars == <<clusterVars, claimCtl, poolCtl, env>>

Init == ClusterInit /\ ClaimCtlInit /\ PoolCtlInit

(* The operator process dies.  Its reconciles are lost where they stand; the *)
(* next process fills its caches from the API server before it starts.       *)
Crash ==
  /\ "crash" \in env /\ faults < MaxFaults
  /\ faults' = faults + 1
  /\ ccache' = claim /\ cache' = inst /\ fresh' = Insts
  /\ lock' = [c \in Claims |-> {}] /\ tlock' = {}
  /\ pc' = [c \in Claims |-> "idle"]
  /\ orig' = [c \in Claims |-> NotCreated]
  /\ held' = [c \in Claims |-> NoInst]
  /\ cand' = [c \in Claims |-> {}]
  /\ tpc' = "idle" /\ need' = 0 /\ todo' = {} /\ victim' = NoInst
  /\ UNCHANGED etcd

Next ==
  /\ \/ ClusterNext /\ UNCHANGED <<claimCtl, poolCtl>>
     \/ \E c \in Claims : (ReconcileClaim(c) \/ ApiError(c)) /\ UNCHANGED poolCtl
     \/ (PoolNext \/ PoolError) /\ UNCHANGED claimCtl
     \/ Crash
  /\ UNCHANGED env

Spec == Init /\ [][Next]_vars

(* Reconcile comes back by itself for a claim that is not settled: pending    *)
(* and errors requeue, a binding inside quotaSettleWindow does so every       *)
(* quotaSettleRequeue, a lost or half-made binding has an instance event.     *)
Requeues(c) ==
  ~(\E i \in HeldBy(inst, c) : inst[i].owned /\ i \notin young /\ claim[c].phase = "Bound")

(* Informers catch up, started reconciles go on, workers come back to what    *)
(* asks for it, members come up, the collector collects.  Users, failures,    *)
(* faults and the clock owe nothing.                                          *)
Fairness ==
  /\ \A c \in Claims :
       /\ WF_vars(SyncClaim(c) /\ UNCHANGED <<claimCtl, poolCtl, env>>)
       /\ WF_vars((pc[c] # "idle" \/ Requeues(c)) /\ ReconcileClaim(c)
                 /\ UNCHANGED <<poolCtl, env>>)
  /\ \A i \in Insts :
       WF_vars((SyncInstance(i) \/ ComesUp(i) \/ GarbageCollect(i))
                 /\ UNCHANGED <<claimCtl, poolCtl, env>>)
  /\ WF_vars(PoolNext /\ UNCHANGED <<claimCtl, env>>)

FairSpec == Spec /\ Fairness

-----------------------------------------------------------------------------
TypeOK == ClusterTypeOK /\ ClaimCtlTypeOK /\ PoolCtlTypeOK /\ env \in Scenarios

(* A claim never holds two live instances: the claim-UID label is what      *)
(* boundInstance looks up, and a second one would be handed out if the      *)
(* decision "this claim holds nothing" were taken on a lagging cache        *)
(* (boundInstance, bind).                                                   *)
OneInstancePerClaim ==
  \A c \in Claims : \A i, j \in HeldBy(inst, c) : i = j

(* A claim's status.instanceRef only ever names an instance that was bound  *)
(* to that very claim, however stale the copies a reconcile works from      *)
(* (project, patchStatus).                                                  *)
RefIsMine ==
  \A c \in Claims : claim[c].ref # NoInst => inst[claim[c].ref].claim = c

(* Once won, an instance is never handed over: no write of either controller *)
(* changes a claim-UID label that is set (acquirePooled, syncInstance).      *)
LabelNeverMoves ==
  [][\A i \in Insts : inst[i].claim # NoClaim => inst'[i].claim = inst[i].claim]_vars

(* purgeSurplus never destroys an environment a claim has won, not even one  *)
(* won between the re-read and the delete.                                   *)
PurgeSparesClaimed ==
  [][\A i \in Insts :
       (Live(inst[i]) /\ ~Live(inst'[i]) /\ inst[i].claim # NoClaim)
         => poolCtl' = poolCtl]_vars

(* The inductive invariant behind the four properties above.  A copy that   *)
(* counts as current is current; a candidate or a victim that can still be  *)
(* written is nobody's; what a copy, a status or a running reconcile says   *)
(* about a label was true when read and labels do not change; a reconcile   *)
(* on its way to a binding really holds nothing.                            *)
CopiesAreCurrent == \A i \in fresh : cache[i] = inst[i]

LockedIsFree ==
  /\ \A c \in Claims : \A i \in lock[c] : Live(inst[i]) /\ inst[i].claim = NoClaim
  /\ \A i \in tlock : Live(inst[i]) /\ inst[i].claim = NoClaim

CachedLabelsHold ==
  \A i \in Insts : cache[i].claim # NoClaim => cache[i].claim = inst[i].claim

UnbornHasNoLabel == \A i \in Insts : inst[i].st = "none" => inst[i].claim = NoClaim

HeldIsMine ==
  \A c \in Claims : pc[c] \in Holding => held[c] \in Insts /\ inst[held[c]].claim = c

UnboundHoldsNothing ==
  \A c \in Claims : pc[c] \in Unbound => HeldBy(inst, c) = {}

RefsAreMine ==
  \A c \in Claims : \A r \in {claim[c].ref, ccache[c].ref, orig[c].ref} :
    r # NoInst => inst[r].claim = c

WorkIsLeft == tpc # "idle" => need > 0

BindingInv ==
  /\ TypeOK /\ WorkIsLeft
  /\ CopiesAreCurrent /\ LockedIsFree /\ CachedLabelsHold /\ UnbornHasNoLabel
  /\ HeldIsMine /\ UnboundHoldsNothing /\ RefsAreMine
  /\ OneInstancePerClaim

(* The allocation as it stands in etcd: the label is the holder, the label    *)
(* and the ownership the stage, status.instanceRef what the claim is told.    *)
Stage(r) ==
  IF r.st = "none" THEN "absent"
  ELSE IF r.st = "gone" THEN "gone"
  ELSE IF r.claim = NoClaim THEN "free"
  ELSE IF r.owned THEN "secured" ELSE "won"

Alloc == INSTANCE Allocation WITH
  stage <- [i \in Insts |-> Stage(inst[i])],
  holder <- [i \in Insts |-> inst[i].claim],
  told <- [c \in Claims |-> claim[c].ref]

(* All the writes of both controllers, on copies however old and with crashes *)
(* and errors between any two, amount to steps of Allocation: an environment  *)
(* goes whole and once to a claim that holds none, and a claim is told of one *)
(* only after its own deletion is sure to take it along (bind, syncInstance,  *)
(* patchStatus).                                                              *)
ImplementsAllocation == Alloc!Spec

(* What the refinement needs besides BindingInv: copies do not run ahead of   *)
(* the store in ownership and deletion, only a won instance is owned, and a   *)
(* reconcile about to tell its claim has seen to the ownership.               *)
CopiesTrail ==
  \A i \in Insts : /\ cache[i].owned => inst[i].owned
                   /\ cache[i].st = "gone" => inst[i].st = "gone"

FreeIsUnowned == \A i \in Insts : inst[i].claim = NoClaim => ~inst[i].owned

SecuredFirst ==
  \A c \in Claims : pc[c] = "bound" => inst[held[c]].owned \/ inst[held[c]].st = "gone"

SecureInv == CopiesTrail /\ FreeIsUnowned /\ SecuredFirst

(* Nothing but an eviction for quota takes an instance away: no deletion, no  *)
(* deadline, no failure, a template that stays enabled and has no maximum.    *)
OnlyQuotaTakes ==
  /\ \A s \in Scenarios : s \cap {"delete", "reap", "expire", "fail"} = {}
  /\ \A t \in Templates : t.enabled
  /\ MaxSize = 0 \/ ~Pooled

(* Evicting for quota never goes too far: when claims of one owner race, each *)
(* gives up its instance only while the owner keeps Limit others, so a race   *)
(* has winners (evictIfOverQuota's rule on a list that is stale by the time   *)
(* of the delete).  Holds where OnlyQuotaTakes does.                          *)
EvictionLeavesQuotaFull ==
  [][\A c \in Claims : (pc[c] = "evict" /\ pc'[c] = "release")
       => Cardinality(ownedInstances(c)') >= Limit]_vars

(* The inductive invariant behind it: nobody is on the way to any other       *)
(* teardown, a claim that is about to release holds nothing any more, and one *)
(* that is about to evict still has Limit instances of its owner before its   *)
(* own.  The oldest are never evicted, so another eviction leaves them.       *)
Before(c) == {j \in ownedInstances(c) : j < held[c]}

Undisturbed ==
  /\ tmpl.enabled
  /\ \A c \in Claims : claim[c].life # "gone" /\ pc[c] \notin {"giveback", "expire"}
  /\ \A i \in Insts : inst[i].phase # "Failed" /\ cache[i].phase # "Failed"

ReleasedAlready ==
  \A c \in Claims : pc[c] \in {"release", "drop"} => HeldBy(inst, c) = {}

EvictsBeyond ==
  \A c \in Claims : pc[c] = "evict" =>
    held[c] \in ownedInstances(c) /\ Cardinality(Before(c)) >= Limit

QuotaInv == Undisturbed /\ ReleasedAlready /\ EvictsBeyond

(* The quota settles: an instance beyond its owner's limit does not stay so   *)
(* while its quotaSettleWindow is open ("the convergence guaranteed rather    *)
(* than incidental").                                                         *)
Excess(i) ==
  /\ Live(inst[i]) /\ i \in young
  /\ \E c \in Claims : inst[i].claim = c /\ RanksBeyond(i, ownedInstances(c), Limit)

QuotaConverges == \A i \in Insts : Excess(i) ~> ~Excess(i)

(* A binding survives the operator: whoever wins an instance is eventually    *)
(* told so in its status, or has lost it again, whatever crash or error       *)
(* falls between the label, the ownership and the status write.               *)
WonIsReported ==
  \A c \in Claims, i \in Insts :
    (inst[i].claim = c /\ Live(inst[i]))
      ~> \/ claim[c].phase = "Bound" /\ claim[c].ref = i /\ inst[i].owned
         \/ ~Live(inst[i])
         \/ claim[c].life = "gone"

(* A parked claim is not forgotten: with the pool refilled behind every       *)
(* binding it ends up bound, or with a verdict.                               *)
WaiterIsServed ==
  \A c \in Claims : claim[c].life = "live"
    ~> claim[c].phase \in {"Bound", "Rejected", "Expired"} \/ claim[c].life = "gone"

(* "Deletion needs no finalizer: the claim is the instance's owner, so the    *)
(* garbage collector cascades the teardown" (Reconcile).                      *)
DeletionCascades ==
  \A c \in Claims, i \in Insts :
    (inst[i].claim = c /\ claim[c].life = "gone") ~> ~Live(inst[i])

(* A rejected claim "stays that way until the spec changes" and holds no      *)
(* instance: releaseHeld "is what makes `status.instanceRef = ""` below true" *)
(* (reject).  Looked at between reconciles, with the caches caught up.        *)
RejectedHoldsNothing ==
  \A c \in Claims :
    (claim[c].phase = "Rejected" /\ claim[c].ogen = claim[c].gen /\ claim[c].life = "live"
       /\ pc[c] = "idle" /\ ccache[c] = claim[c])
      => HeldBy(inst, c) = {}
=============================================================================

------------------------------ MODULE Cluster ------------------------------
(***************************************************************************)
(* The Kubernetes API server as the dploy operator sees it: the claims,    *)
(* the instances and one template, the informer caches in front of them,   *)
(* and everybody who writes them besides the claim and template            *)
(* controllers: the users, the instance controller (InstanceLifecycle is   *)
(* its own model), the garbage collector, time.                            *)
(*                                                                         *)
(* Resource versions are not counted.  What a conditional write asks is    *)
(* "is my copy the latest one?", so the module keeps, for each reader, the *)
(* set of instances whose copy is still the latest: `fresh' for the cache, *)
(* `lock' for the candidates a claim reconcile has listed, `tlock' for the *)
(* purge victim the template controller has re-read.  Every write to an    *)
(* instance removes it from all of them.                                   *)
(***************************************************************************)
EXTENDS Integers, FiniteSets

CONSTANTS
  Claims,      \* claim UIDs; each is created at most once
  Insts,       \* instance names, totally ordered as (creationTimestamp, name) is
  OwnerOf,     \* spec.owner of each claim
  NoClaim,     \* an instance without a claim-UID label
  NoInst,      \* no instance
  Pooled,      \* the template's method is pool
  MaxSize,     \* spec.pool.maxSize, 0 for unlimited
  Templates,   \* the values of enabled and pool.size an administrator may apply
  MaxGen,      \* bound on the edits of a claim's spec
  MaxFaults,   \* bound on operator crashes and API errors
  Scenarios    \* which disturbances happen together

ASSUME ClaimsAssumption == NoClaim \notin Claims
ASSUME InstsAssumption == Insts \subseteq Nat /\ IsFiniteSet(Insts) /\ NoInst \notin Insts
ASSUME TemplatesAssumption ==
  /\ Templates \subseteq [enabled : BOOLEAN, size : Nat]
  /\ Pooled \in BOOLEAN /\ MaxSize \in Nat
ASSUME BoundsAssumption == MaxGen \in Nat /\ MaxFaults \in Nat

VARIABLES
  claim,    \* [Claims -> ClaimRec] in etcd
  inst,     \* [Insts -> InstRec] in etcd
  tmpl,     \* the template's spec
  young,    \* instances bound less than quotaSettleWindow ago
  ccache,   \* the informer's copy of the claims
  cache,    \* the informer's copy of the instances
  fresh,    \* instances whose cached copy has the current resourceVersion
  lock,     \* [Claims -> SUBSET Insts] listed candidates still at the listed resourceVersion
  tlock,    \* the purge victim, while still at the re-read resourceVersion
  faults,   \* crashes and API errors so far
  env       \* the disturbances of this behaviour

etcd == <<claim, inst, tmpl, young>>
caches == <<ccache, cache, fresh>>
locks == <<lock, tlock>>
clusterVars == <<etcd, caches, locks, faults>>

InstPhases == {"Warming", "Up", "Failed"}
ClaimPhases == {"New", "Pending", "Bound", "Rejected", "Expired"}

(* `owned' stands for what createOnDemand and syncInstance write in one go: *)
(* the claim as sole controller reference, the owner label and spec.owner.  *)
(* Without it a pool member still belongs to its template.  "Warming" and   *)
(* "Up" tell a member that is Available from one that is not yet; for an    *)
(* instance made on demand only Failed matters.                             *)
(* `st' is "gone" from the moment the deletionTimestamp is set: a dying       *)
(* instance is skipped by every reader here, like one that no longer exists.  *)
InstRec == [st : {"none", "live", "gone"}, claim : Claims \cup {NoClaim},
            owned : BOOLEAN, pooled : BOOLEAN, phase : InstPhases]

ClaimRec == [life : {"none", "live", "gone"}, gen : Nat,
             phase : ClaimPhases, ref : Insts \cup {NoInst}, exp : BOOLEAN, ogen : Nat]

Unborn == [st |-> "none", claim |-> NoClaim, owned |-> FALSE, pooled |-> FALSE,
           phase |-> "Warming"]

NotCreated == [life |-> "none", gen |-> 1, phase |-> "New",
               ref |-> NoInst, exp |-> FALSE, ogen |-> 0]

Live(r) == r.st = "live"

(* The instances one claim holds, in a store or in a cached view of it. *)
HeldBy(store, c) == {i \in Insts : Live(store[i]) /\ store[i].claim = c}

ClusterTypeOK ==
  /\ claim \in [Claims -> ClaimRec]
  /\ inst \in [Insts -> InstRec]
  /\ tmpl \in [enabled : BOOLEAN, size : Nat]
  /\ young \subseteq Insts
  /\ ccache \in [Claims -> ClaimRec]
  /\ cache \in [Insts -> InstRec]
  /\ fresh \subseteq Insts
  /\ lock \in [Claims -> SUBSET Insts]
  /\ tlock \subseteq Insts
  /\ faults \in Nat

ClusterInit ==
  /\ claim = [c \in Claims |-> NotCreated]
  /\ inst = [i \in Insts |-> Unborn]
  /\ tmpl \in Templates
  /\ young = {}
  /\ ccache = claim
  /\ cache = inst
  /\ fresh = Insts
  /\ lock = [c \in Claims |-> {}]
  /\ tlock = {}
  /\ faults = 0
  /\ env \in Scenarios

-----------------------------------------------------------------------------
(* Writes.  Put replaces an instance; lk is the lock function to start from. *)

Put(i, r, lk) ==
  /\ inst' = [inst EXCEPT ![i] = r]
  /\ fresh' = fresh \ {i}
  /\ lock' = [c \in Claims |-> lk[c] \ {i}]
  /\ tlock' = tlock \ {i}

Write(i, r) == Put(i, r, lock)

(* An unconditional Delete sets the deletionTimestamp (the finalizer is the   *)
(* instance controller's business); repeated, or on nothing, it changes       *)
(* nothing.                                                                   *)
Delete(i) ==
  IF i \in Insts /\ Live(inst[i])
    THEN Write(i, [inst[i] EXCEPT !.st = "gone"])
    ELSE UNCHANGED <<inst, fresh, lock, tlock>>

-----------------------------------------------------------------------------
(* Informers: events of one object arrive some time after the write. *)

SyncInstance(i) ==
  /\ i \notin fresh
  /\ cache' = [cache EXCEPT ![i] = inst[i]]
  /\ fresh' = fresh \cup {i}
  /\ UNCHANGED <<etcd, ccache, locks, faults>>

SyncClaim(c) ==
  /\ ccache[c] # claim[c]
  /\ ccache' = [ccache EXCEPT ![c] = claim[c]]
  /\ UNCHANGED <<etcd, cache, fresh, locks, faults>>

-----------------------------------------------------------------------------
(* Users and administrators. *)

CreateClaim(c) ==
  /\ claim[c].life = "none"
  /\ claim' = [claim EXCEPT ![c].life = "live"]
  /\ UNCHANGED <<inst, tmpl, young, caches, locks, faults>>

(* A claim has no finalizer: it is gone at once. *)
DeleteClaim(c) ==
  /\ "delete" \in env
  /\ claim[c].life = "live"
  /\ claim' = [claim EXCEPT ![c].life = "gone"]
  /\ UNCHANGED <<inst, tmpl, young, caches, locks, faults>>

(* ExtendClaim and any other patch of the spec. *)
EditClaim(c) ==
  /\ "edit" \in env
  /\ claim[c].life = "live"
  /\ claim[c].gen < MaxGen
  /\ claim' = [claim EXCEPT ![c].gen = @ + 1]
  /\ UNCHANGED <<inst, tmpl, young, caches, locks, faults>>

EditTemplate ==
  /\ "template" \in env
  /\ tmpl' \in Templates \ {tmpl}
  /\ UNCHANGED <<claim, inst, young, caches, locks, faults>>

-----------------------------------------------------------------------------
(* The instance controller's writes, and the garbage collector's. *)

SetPhase(i, p) ==
  /\ Live(inst[i])
  /\ Write(i, [inst[i] EXCEPT !.phase = p])
  /\ UNCHANGED <<claim, tmpl, young, ccache, cache, faults>>

ComesUp(i) == inst[i].phase = "Warming" /\ SetPhase(i, "Up")

Fails(i) == "fail" \in env /\ inst[i].phase # "Failed" /\ SetPhase(i, "Failed")

Recovers(i) == inst[i].phase = "Failed" /\ SetPhase(i, "Up")

(* applyTTL of the instance controller, or an administrator's delete. *)
Reap(i) ==
  /\ "reap" \in env
  /\ Live(inst[i]) /\ inst[i].owned
  /\ Delete(i)
  /\ UNCHANGED <<claim, tmpl, young, ccache, cache, faults>>

GarbageCollect(i) ==
  /\ Live(inst[i]) /\ inst[i].owned
  /\ inst[i].claim \in Claims
  /\ claim[inst[i].claim].life = "gone"
  /\ Delete(i)
  /\ UNCHANGED <<claim, tmpl, young, ccache, cache, faults>>

(* quotaSettleWindow has passed since the instance was bound. *)
WindowCloses(i) ==
  /\ "window" \in env
  /\ i \in young
  /\ young' = young \ {i}
  /\ UNCHANGED <<claim, inst, tmpl, caches, locks, faults>>

ClusterNext ==
  \/ \E c \in Claims : SyncClaim(c) \/ CreateClaim(c) \/ DeleteClaim(c) \/ EditClaim(c)
  \/ \E i \in Insts :
       \/ SyncInstance(i) \/ ComesUp(i) \/ Fails(i) \/ Recovers(i)
       \/ Reap(i) \/ GarbageCollect(i) \/ WindowCloses(i)
  \/ EditTemplate
=============================================================================

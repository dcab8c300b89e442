-------------------------- MODULE ClaimController --------------------------
(***************************************************************************)
(* DployInstanceClaimReconciler: one reconcile per claim at a time, any    *)
(* number of claims in parallel, cut at every call to the API server, so   *)
(* that everything else may happen between two calls.  pc[c] names the     *)
(* call the reconcile of c makes next; reads of the informer caches are    *)
(* part of the step that uses them.                                        *)
(***************************************************************************)
EXTENDS Cluster

CONSTANTS
  Limit,        \* ownerLimit: environments per owner, 0 for unlimited
  WaitForPool,  \* the claims with spec.waitForPool
  BindRetries   \* claimBindRetries

ASSUME LimitsAssumption == Limit \in Nat /\ BindRetries \in Nat \ {0}

VARIABLES
  pc,     \* [Claims -> PCs]
  orig,   \* the claim as read from the cache when the reconcile began
  held,   \* the instance the reconcile is working on
  cand    \* warm candidates not tried yet

claimCtl == <<pc, orig, held, cand>>

Unbound == {"quota", "list", "acquire", "capacity", "create"}
Holding == {"requota", "evict", "recap", "giveback", "sync", "bound", "drop"}
PCs == {"idle", "confirm", "release", "expire", "pending", "rejected", "expired"}
         \cup Unbound \cup Holding

ClaimCtlTypeOK ==
  /\ pc \in [Claims -> PCs]
  /\ orig \in [Claims -> ClaimRec]
  /\ held \in [Claims -> Insts \cup {NoInst}]
  /\ cand \in [Claims -> SUBSET Insts]

ClaimCtlInit ==
  /\ pc = [c \in Claims |-> "idle"]
  /\ orig = [c \in Claims |-> NotCreated]
  /\ held = [c \in Claims |-> NoInst]
  /\ cand = [c \in Claims |-> {}]

-----------------------------------------------------------------------------
(* What the reconcile computes from a list of instances. *)

isClaimable(r) ==
  Live(r) /\ r.pooled /\ ~r.owned /\ r.claim = NoClaim /\ r.phase = "Up"

(* ownedInstances: by owner label, so a pool member counts once synced. *)
ownedInstances(c) ==
  {i \in Insts : /\ Live(inst[i]) /\ inst[i].owned
                 /\ inst[i].claim \in Claims /\ OwnerOf[inst[i].claim] = OwnerOf[c]}

templateInstances == {i \in Insts : Live(inst[i])}

overQuota(c) ==
  Limit > 0 /\ Cardinality({i \in ownedInstances(c) : inst[i].claim # c}) >= Limit

overMaxSize == MaxSize > 0 /\ Cardinality(templateInstances) >= MaxSize

(* A wrong version: without the tie-break by age every racer is beyond. *)
RanksBeyond_NoTieBreak(i, list, limit) ==
  limit > 0 /\ i \in list /\ Cardinality(list \ {i}) >= limit

(* The rank of an instance in a list sorted oldest first is the number of   *)
(* older ones; an instance missing from the list is let be.                 *)
RanksBeyond(i, list, limit) ==
  limit > 0 /\ i \in list /\ Cardinality({j \in list : j < i}) >= limit

(* acquirePooled tries min(len, claimBindRetries) candidates from an index   *)
(* hashed from the UID: some subset of that size, in some order.             *)
Attempts(S) ==
  {T \in SUBSET S : Cardinality(T) =
     IF Cardinality(S) < BindRetries THEN Cardinality(S) ELSE BindRetries}

-----------------------------------------------------------------------------
(* Control. *)

Goto(c, l) == pc' = [pc EXCEPT ![c] = l]

(* Reconcile returns: its local state is gone. *)
Return(c) ==
  /\ Goto(c, "idle")
  /\ orig' = [orig EXCEPT ![c] = NotCreated]
  /\ held' = [held EXCEPT ![c] = NoInst]
  /\ cand' = [cand EXCEPT ![c] = {}]

(* A merge patch carries only the fields that differ from the cached claim. *)
Merge(new, old, now) == IF new = old THEN now ELSE new

(* patchStatus: no resourceVersion, NotFound ignored. *)
patchStatus(c, phase, ref, exp) ==
  claim' = IF claim[c].life # "live" THEN claim ELSE
    [claim EXCEPT ![c].phase = Merge(phase, orig[c].phase, @),
                  ![c].ref   = Merge(ref, orig[c].ref, @),
                  ![c].exp   = Merge(exp, orig[c].exp, @),
                  ![c].ogen  = Merge(orig[c].gen, orig[c].ogen, @)]

(* A wrong version: the quota is looked at once, right after the binding. *)
AfterLookup_NoSettling(i, r) ==
     (IF "expire" \in env THEN {"expire"} ELSE {})
  \cup (IF r.phase = "Failed" THEN {"release"} ELSE {})
  \cup {"sync"}

(* The calls a reconcile may make next once it has instance i at hand, in a  *)
(* copy r of it: the deadline has passed, the failure has outlasted          *)
(* instanceFailureGrace, the binding still settles, or none of these.        *)
AfterLookup(i, r) ==
     (IF "expire" \in env THEN {"expire"} ELSE {})
  \cup (IF r.phase = "Failed" THEN {"release"} ELSE {})
  \cup {IF i \in young THEN "requota" ELSE "sync"}

Found(c, i, r) ==
  /\ held' = [held EXCEPT ![c] = i]
  /\ \E l \in AfterLookup(i, r) : Goto(c, l)

Terminal(r) == r.phase = "Expired" \/ (r.phase = "Rejected" /\ r.ogen = r.gen)

-----------------------------------------------------------------------------
(* One action per API call. *)

(* An Expired claim only records the generation it has seen. *)
Observe(c) ==
  /\ pc[c] = "idle" /\ ccache[c].life = "live"
  /\ ccache[c].phase = "Expired" /\ ccache[c].ogen # ccache[c].gen
  /\ claim' = IF claim[c].life # "live" THEN claim
              ELSE [claim EXCEPT ![c].ogen = ccache[c].gen]
  /\ UNCHANGED <<inst, tmpl, young, caches, locks, faults, claimCtl>>

(* The head of Reconcile, up to the cached half of boundInstance. *)
Start(c) ==
  /\ pc[c] = "idle" /\ ccache[c].life = "live"
  /\ ~Terminal(ccache[c])
  /\ orig' = [orig EXCEPT ![c] = ccache[c]]
  /\ IF ~tmpl.enabled THEN Goto(c, "release") /\ UNCHANGED held
     ELSE IF HeldBy(cache, c) = {} THEN Goto(c, "confirm") /\ UNCHANGED held
     ELSE \E i \in HeldBy(cache, c) : Found(c, i, cache[i])
  /\ UNCHANGED <<clusterVars, cand>>

(* A wrong version: a miss in the cache is taken for "holds nothing". *)
Confirm_TrustsCache(c) ==
  /\ pc[c] = "confirm"
  /\ Goto(c, "quota")
  /\ UNCHANGED <<clusterVars, orig, held, cand>>

(* The uncached half of boundInstance; without an instance the deadline left  *)
(* in the status is looked at before any new binding.                         *)
Confirm(c) ==
  /\ pc[c] = "confirm"
  /\ IF HeldBy(inst, c) # {} THEN \E i \in HeldBy(inst, c) : Found(c, i, inst[i])
     ELSE /\ \/ Goto(c, "quota")
             \/ "expire" \in env /\ orig[c].exp /\ Goto(c, "expire")
          /\ UNCHANGED held
  /\ UNCHANGED <<clusterVars, orig, cand>>

CheckQuota(c) ==
  /\ pc[c] = "quota"
  /\ Goto(c, IF overQuota(c) THEN "release" ELSE IF Pooled THEN "list" ELSE "create")
  /\ UNCHANGED <<clusterVars, orig, held, cand>>

ListPool(c) ==
  /\ pc[c] = "list"
  /\ \E T \in Attempts({i \in Insts : isClaimable(cache[i])}) :
       /\ cand' = [cand EXCEPT ![c] = T]
       /\ lock' = [lock EXCEPT ![c] = T \cap fresh]
  /\ Goto(c, "acquire")
  /\ UNCHANGED <<etcd, caches, tlock, faults, orig, held>>

(* A wrong version: the update carries no resourceVersion. *)
Acquire_Unconditional(c) ==
  /\ pc[c] = "acquire"
  /\ \E i \in cand[c] :
       /\ Put(i, [inst[i] EXCEPT !.claim = c], [lock EXCEPT ![c] = {}])
       /\ young' = young \cup {i}
       /\ held' = [held EXCEPT ![c] = i]
  /\ cand' = [cand EXCEPT ![c] = {}]
  /\ Goto(c, "requota")
  /\ UNCHANGED <<claim, tmpl, ccache, cache, faults, orig>>

(* The update that wins a warm member: label and boundAt annotation in one   *)
(* write, accepted only if nobody wrote the instance since it was listed.    *)
Acquire(c) ==
  /\ pc[c] = "acquire"
  /\ \E i \in cand[c] \cap lock[c] :
       /\ Put(i, [inst[i] EXCEPT !.claim = c], [lock EXCEPT ![c] = {}])
       /\ young' = young \cup {i}
       /\ held' = [held EXCEPT ![c] = i]
  /\ cand' = [cand EXCEPT ![c] = {}]
  /\ Goto(c, "requota")
  /\ UNCHANGED <<claim, tmpl, ccache, cache, faults, orig>>

(* A wrong version: the failed update is taken for a success. *)
AcquireConflict_Ignored(c) ==
  /\ pc[c] = "acquire"
  /\ \E i \in cand[c] \ lock[c] : held' = [held EXCEPT ![c] = i]
  /\ cand' = [cand EXCEPT ![c] = {}]
  /\ Goto(c, "requota")
  /\ UNCHANGED <<clusterVars, orig>>

(* Conflict or NotFound: the next candidate. *)
AcquireConflict(c) ==
  /\ pc[c] = "acquire"
  /\ \E i \in cand[c] \ lock[c] : cand' = [cand EXCEPT ![c] = @ \ {i}]
  /\ UNCHANGED <<clusterVars, pc, orig, held>>

PoolExhausted(c) ==
  /\ pc[c] = "acquire" /\ cand[c] = {}
  /\ Goto(c, IF c \in WaitForPool THEN "pending" ELSE "capacity")
  /\ UNCHANGED <<clusterVars, orig, held, cand>>

CheckCapacity(c) ==
  /\ pc[c] = "capacity"
  /\ Goto(c, IF overMaxSize THEN "pending" ELSE "create")
  /\ UNCHANGED <<clusterVars, orig, held, cand>>

(* Two instances of one second are ordered by generated names, so the new   *)
(* one may rank anywhere.                                                   *)
createOnDemand(c) ==
  /\ pc[c] = "create"
  /\ \E i \in Insts :
       /\ inst[i].st = "none"
       /\ Write(i, [st |-> "live", claim |-> c, owned |-> TRUE, pooled |-> FALSE,
                    phase |-> "Up"])
       /\ young' = young \cup {i}
       /\ held' = [held EXCEPT ![c] = i]
  /\ Goto(c, "requota")
  /\ UNCHANGED <<claim, tmpl, ccache, cache, faults, orig, cand>>

(* evictIfOverQuota: list, then delete, then reject. *)
Requota(c) ==
  /\ pc[c] = "requota"
  /\ Goto(c, IF RanksBeyond(held[c], ownedInstances(c), Limit) THEN "evict" ELSE "recap")
  /\ UNCHANGED <<clusterVars, orig, held, cand>>

Evict(c) ==
  /\ pc[c] = "evict"
  /\ Delete(held[c])
  /\ Goto(c, "release")
  /\ UNCHANGED <<claim, tmpl, young, ccache, cache, faults, orig, held, cand>>

(* evictIfOverMaxSize: list, then delete, then park. *)
Recap(c) ==
  /\ pc[c] = "recap"
  /\ Goto(c, IF Pooled /\ RanksBeyond(held[c], templateInstances, MaxSize)
               THEN "giveback" ELSE "sync")
  /\ UNCHANGED <<clusterVars, orig, held, cand>>

GiveBack(c) ==
  /\ pc[c] = "giveback"
  /\ Delete(held[c])
  /\ Goto(c, "pending")
  /\ UNCHANGED <<claim, tmpl, young, ccache, cache, faults, orig, held, cand>>

(* A wrong version: the label alone counts as synced. *)
InSync_LabelOnly(r, c) == r.claim = c

(* syncInstance on a cached copy that already says all of it writes nothing;  *)
(* otherwise the update goes through if that copy is current.  An update of a *)
(* dying instance has no effect anybody sees.                                 *)
InSync(r, c) == r.claim = c /\ r.owned

syncInstance(c) ==
  /\ pc[c] = "sync"
  /\ cache[held[c]].st # "none"
  /\ \/ /\ InSync(cache[held[c]], c) \/ cache[held[c]].st = "gone"
        /\ UNCHANGED <<inst, fresh, locks>>
     \/ /\ Live(cache[held[c]]) /\ ~InSync(cache[held[c]], c)
        /\ held[c] \in fresh
        /\ Write(held[c], [cache[held[c]] EXCEPT !.claim = c, !.owned = TRUE])
  /\ Goto(c, "bound")
  /\ UNCHANGED <<claim, tmpl, young, ccache, cache, faults, orig, held, cand>>

(* The cache has no such instance (yet or any more), or every retry met a     *)
(* conflict: Reconcile returns the error and is queued again.                 *)
SyncFails(c) ==
  /\ pc[c] = "sync"
  /\ \/ ~Live(cache[held[c]])
     \/ held[c] \notin fresh /\ ~InSync(cache[held[c]], c)
  /\ Return(c)
  /\ UNCHANGED clusterVars

(* project, then the patch. *)
PatchBound(c) ==
  /\ pc[c] = "bound"
  /\ patchStatus(c, "Bound", held[c], TRUE)
  /\ Return(c)
  /\ UNCHANGED <<inst, tmpl, young, caches, locks, faults>>

(* pending: expiresAt is what Reconcile had computed by then, or read. *)
PatchPending(c) ==
  /\ pc[c] = "pending"
  /\ patchStatus(c, "Pending", NoInst, held[c] # NoInst \/ orig[c].exp)
  /\ Return(c)
  /\ UNCHANGED <<inst, tmpl, young, caches, locks, faults>>

(* reject: releaseHeld looks the instance up again, deletes it, then patches. *)
Release(c) ==
  /\ pc[c] = "release"
  /\ LET mine == IF HeldBy(cache, c) # {} THEN HeldBy(cache, c) ELSE HeldBy(inst, c) IN
     \/ /\ mine = {}
        /\ held' = [held EXCEPT ![c] = NoInst]
        /\ Goto(c, "rejected")
     \/ \E i \in mine : held' = [held EXCEPT ![c] = i] /\ Goto(c, "drop")
  /\ UNCHANGED <<clusterVars, orig, cand>>

Drop(c) ==
  /\ pc[c] = "drop"
  /\ Delete(held[c])
  /\ Goto(c, "rejected")
  /\ UNCHANGED <<claim, tmpl, young, ccache, cache, faults, orig, held, cand>>

PatchRejected(c) ==
  /\ pc[c] = "rejected"
  /\ patchStatus(c, "Rejected", NoInst, FALSE)
  /\ Return(c)
  /\ UNCHANGED <<inst, tmpl, young, caches, locks, faults>>

(* expire: the delete, then the tombstone. *)
Expire(c) ==
  /\ pc[c] = "expire"
  /\ Delete(held[c])
  /\ Goto(c, "expired")
  /\ UNCHANGED <<claim, tmpl, young, ccache, cache, faults, orig, held, cand>>

PatchExpired(c) ==
  /\ pc[c] = "expired"
  /\ patchStatus(c, "Expired", NoInst, held[c] # NoInst \/ orig[c].exp)
  /\ Return(c)
  /\ UNCHANGED <<inst, tmpl, young, caches, locks, faults>>

(* Any call but the cached ones may fail: Reconcile returns the error. *)
ApiError(c) ==
  /\ "error" \in env /\ faults < MaxFaults
  /\ pc[c] # "idle"
  /\ Return(c)
  /\ lock' = [lock EXCEPT ![c] = {}]
  /\ faults' = faults + 1
  /\ UNCHANGED <<etcd, caches, tlock>>

(* The steps of one reconcile, in the order of the code. *)
ReconcileClaim(c) ==
  \/ Observe(c) \/ Start(c) \/ Confirm(c)
  \/ CheckQuota(c) \/ ListPool(c) \/ Acquire(c) \/ AcquireConflict(c)
  \/ PoolExhausted(c) \/ CheckCapacity(c) \/ createOnDemand(c)
  \/ Requota(c) \/ Evict(c) \/ Recap(c) \/ GiveBack(c)
  \/ syncInstance(c) \/ SyncFails(c) \/ PatchBound(c) \/ PatchPending(c)
  \/ Release(c) \/ Drop(c) \/ PatchRejected(c)
  \/ Expire(c) \/ PatchExpired(c)
=============================================================================

--------------------------- MODULE PoolController ---------------------------
(***************************************************************************)
(* DployTemplateReconciler: keeps the unclaimed pool members of one        *)
(* template at spec.pool.size.  One reconcile at a time: a cached list,    *)
(* then either a burst of creates or a purge that re-reads each victim     *)
(* uncached and deletes it under a resourceVersion precondition.           *)
(***************************************************************************)
EXTENDS Cluster

VARIABLES
  tpc,     \* "idle", "fill", "purge" (next: re-read a victim), "delete"
  need,    \* creates or deletes left in this reconcile
  todo,    \* purge victims not visited yet
  victim   \* the victim re-read

poolCtl == <<tpc, need, todo, victim>>

PoolCtlTypeOK ==
  /\ tpc \in {"idle", "fill", "purge", "delete"}
  /\ need \in Nat
  /\ todo \subseteq Insts
  /\ victim \in Insts \cup {NoInst}

PoolCtlInit == tpc = "idle" /\ need = 0 /\ todo = {} /\ victim = NoInst

-----------------------------------------------------------------------------
Listed == {i \in Insts : Live(cache[i])}

(* A wrong version: a claimed member still fills its slot. *)
UnclaimedIn_AnyMember(L) == {i \in L : cache[i].pooled}

(* Counted by spec.owner: a member won but not synced still fills a slot. *)
UnclaimedIn(L) == {i \in L : cache[i].pooled /\ ~cache[i].owned}

isPoolActive == tmpl.enabled /\ Pooled /\ tmpl.size > 0

desiredWarm == IF Pooled THEN tmpl.size ELSE 0

(* How many creates the fill loop makes. *)
Deficit ==
  LET slots == tmpl.size - Cardinality(UnclaimedIn(Listed))
      room == MaxSize - Cardinality(Listed)
  IN IF ~isPoolActive \/ slots <= 0 THEN 0
     ELSE IF MaxSize = 0 \/ slots <= room THEN slots
     ELSE IF room > 0 THEN room ELSE 0

Surplus == Cardinality(UnclaimedIn(Listed)) - desiredWarm

isPurgeable(r) == Live(r) /\ ~r.owned /\ r.claim = NoClaim

(* What the comment on the fill loop relies on: the creates of the previous  *)
(* reconcile are in the cache when the next one lists.                       *)
CreatesVisible == \A i \in Insts : cache[i].st = "none" => inst[i].st = "none"

-----------------------------------------------------------------------------
ReconcileTemplate ==
  /\ tpc = "idle"
  /\ "poollag" \in env \/ CreatesVisible
  /\ \/ /\ Deficit > 0
        /\ tpc' = "fill" /\ need' = Deficit
        /\ UNCHANGED todo
     \/ /\ Surplus > 0
        /\ tpc' = "purge" /\ need' = Surplus
        /\ todo' = UnclaimedIn(Listed)
  /\ UNCHANGED <<clusterVars, victim>>

(* A wrong version: the loop runs once too often. *)
createPoolInstance_OneTooMany ==
  /\ tpc = "fill"
  /\ \E i \in Insts :
       /\ inst[i].st = "none"
       /\ Write(i, [st |-> "live", claim |-> NoClaim, owned |-> FALSE, pooled |-> TRUE,
                    phase |-> "Warming"])
  /\ need' = need - 1
  /\ tpc' = IF need = 0 THEN "idle" ELSE "fill"
  /\ UNCHANGED <<claim, tmpl, young, ccache, cache, faults, todo, victim>>

createPoolInstance ==
  /\ tpc = "fill"
  /\ \E i \in Insts :
       /\ inst[i].st = "none"
       /\ Write(i, [st |-> "live", claim |-> NoClaim, owned |-> FALSE, pooled |-> TRUE,
                    phase |-> "Warming"])
  /\ need' = need - 1
  /\ tpc' = IF need = 1 THEN "idle" ELSE "fill"
  /\ UNCHANGED <<claim, tmpl, young, ccache, cache, faults, todo, victim>>

(* purgeSurplus visits the listed members by rank and age, a preference that *)
(* decides nothing here: any order.                                          *)
RereadVictim ==
  /\ tpc = "purge"
  /\ \E i \in todo :
       /\ todo' = todo \ {i}
       /\ IF isPurgeable(inst[i])
            THEN victim' = i /\ tlock' = {i} /\ tpc' = "delete" /\ UNCHANGED need
            ELSE /\ tpc' = IF todo = {i} THEN "idle" ELSE "purge"
                 /\ need' = IF todo = {i} THEN 0 ELSE need
                 /\ UNCHANGED <<victim, tlock>>
  /\ UNCHANGED <<etcd, caches, lock, faults>>

(* A wrong version: the delete carries no precondition. *)
PurgeVictim_Unconditional ==
  /\ tpc = "delete"
  /\ Delete(victim)
  /\ IF need = 1 \/ todo = {}
       THEN tpc' = "idle" /\ need' = 0 /\ todo' = {}
       ELSE tpc' = "purge" /\ need' = need - 1 /\ UNCHANGED todo
  /\ victim' = NoInst
  /\ UNCHANGED <<claim, tmpl, young, ccache, cache, faults>>

(* The conditional delete: a conflict or NotFound skips the victim. *)
PurgeVictim ==
  /\ tpc = "delete"
  /\ IF victim \in tlock
       THEN Delete(victim)
       ELSE UNCHANGED <<inst, fresh, locks>>
  /\ LET left == IF victim \in tlock THEN need - 1 ELSE need IN
     IF left = 0 \/ todo = {}
       THEN tpc' = "idle" /\ need' = 0 /\ todo' = {}
       ELSE tpc' = "purge" /\ need' = left /\ UNCHANGED todo
  /\ victim' = NoInst
  /\ UNCHANGED <<claim, tmpl, young, ccache, cache, faults>>

(* A create, a re-read or a delete fails otherwise: Reconcile returns the    *)
(* error with the rest of its work undone.                                   *)
PoolError ==
  /\ "error" \in env /\ faults < MaxFaults
  /\ tpc # "idle"
  /\ tpc' = "idle" /\ need' = 0 /\ todo' = {} /\ victim' = NoInst
  /\ tlock' = {}
  /\ faults' = faults + 1
  /\ UNCHANGED <<etcd, caches, lock>>

PoolNext ==
  ReconcileTemplate \/ createPoolInstance \/ RereadVictim \/ PurgeVictim
=============================================================================

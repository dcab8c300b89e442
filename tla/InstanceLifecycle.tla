------------------------- MODULE InstanceLifecycle -------------------------
(***************************************************************************)
(* DployInstanceReconciler on one instance: finalizer, short UUID,         *)
(* workload namespace, HelmRelease, projected phase, expiry, teardown.     *)
(* Every API call is a step of its own; instance, namespaces and           *)
(* HelmRelease are read from caches that lag behind.  helm-controller, the *)
(* garbage collector and the claim controller are the environment.         *)
(***************************************************************************)
EXTENDS Integers, FiniteSets

CONSTANTS
  MaxUUID,    \* bound on the short UUIDs ever drawn
  MaxFaults,  \* bound on operator crashes and API errors
  Env         \* the disturbances that happen in this instance of the model

ASSUME UUIDAssumption == MaxUUID \in Nat \ {0}
ASSUME FaultsAssumption == MaxFaults \in Nat

VARIABLES
  inst,      \* the DployInstance in etcd
  icache,    \* the informer's copy
  cfresh,    \* the copy has the current resourceVersion
  nss,       \* workload namespaces that exist
  nscache,   \* those the informer knows
  hr,        \* the instance's HelmRelease
  hrcache,   \* the informer's copy
  hfresh,    \* that copy has the current resourceVersion
  running,   \* where Helm has the workload installed
  source,    \* what the template says of its chart: SourceReady, or no template
  drawn,     \* short UUIDs drawn so far
  pc,        \* the API call the running reconcile makes next
  orig,      \* the instance as that reconcile read it
  ocur,      \* orig has the current resourceVersion
  faults

vars == <<inst, icache, cfresh, nss, nscache, hr, hrcache, hfresh, running, source,
          drawn, pc, orig, ocur, faults>>
cluster == <<nss, nscache, hr, hrcache, hfresh, running, source>>
helm == <<hr, hrcache, hfresh, running>>
local == <<pc, orig, ocur>>

UUIDs == 1..MaxUUID
NoUUID == 0

(* A wrong version: the name is built before the UUID is known. *)
workloadNamespace_NoUUID(r) == <<IF r.owned THEN "owner" ELSE "pool", NoUUID>>

(* workloadNamespace: `<owner or "pool">-<template>-<uuid>'. *)
Names == {"pool", "owner"} \X UUIDs
NoName == <<"none", 0>>
workloadNamespace(r) == <<IF r.owned THEN "owner" ELSE "pool", r.uuid>>

Phases == {"New", "Pending", "Provisioning", "Up", "Failed", "Expiring"}

(* "Up" is Available, Claimed or Ready: phaseFor tells them apart by owned. *)
InstRec == [st : {"live", "deleting", "gone"}, fin : BOOLEAN, owned : BOOLEAN,
            uuid : UUIDs \cup {NoUUID}, ns : Names \cup {NoName}, phase : Phases]

ReleaseRec == [st : {"none", "live", "deleting"}, target : Names \cup {NoName},
               owned : BOOLEAN, ready : {"unknown", "true", "false"}]

NoRelease == [st |-> "none", target |-> NoName, owned |-> FALSE, ready |-> "unknown"]

PCs == {"idle", "namespace", "source", "gate", "release", "fail", "project", "expire",
        "expiring", "unfinalize"}

TypeOK ==
  /\ inst \in InstRec /\ icache \in InstRec /\ orig \in InstRec
  /\ nss \subseteq Names /\ nscache \subseteq Names
  /\ hr \in ReleaseRec /\ hrcache \in ReleaseRec
  /\ running \in Names \cup {NoName}
  /\ source \in {"unverified", "verified", "missing"}
  /\ drawn \in 0..MaxUUID
  /\ pc \in PCs
  /\ cfresh \in BOOLEAN /\ hfresh \in BOOLEAN /\ ocur \in BOOLEAN
  /\ faults \in Nat

(* Created by a claim, with its owner, or by the template, without. *)
Init ==
  /\ \E o \in BOOLEAN :
       inst = [st |-> "live", fin |-> FALSE, owned |-> o, uuid |-> NoUUID, ns |-> NoName,
               phase |-> "New"]
  /\ icache = inst /\ orig = inst
  /\ cfresh = TRUE /\ hfresh = TRUE /\ ocur = FALSE
  /\ nss = {} /\ nscache = {}
  /\ hr = NoRelease /\ hrcache = NoRelease
  /\ running = NoName
  /\ source = "unverified"
  /\ drawn = 0 /\ pc = "idle" /\ faults = 0

-----------------------------------------------------------------------------
(* Writes.  Each one makes every copy of the object outdated. *)

PutInst(r) ==
  /\ inst' = r
  /\ cfresh' = (cfresh /\ r = inst)
  /\ ocur' = (ocur /\ r = inst)

PutRelease(r) ==
  /\ hr' = r
  /\ hfresh' = (hfresh /\ r = hr)

(* patchStatus: a merge patch against the copy that was read; NotFound is   *)
(* ignored.                                                                 *)
Merge(new, old, now) == IF new = old THEN now ELSE new

Patched(old, uuid, ns, phase) ==
  IF inst.st = "gone" THEN inst
  ELSE [inst EXCEPT !.uuid = Merge(uuid, old.uuid, @),
                    !.ns = Merge(ns, old.ns, @),
                    !.phase = Merge(phase, old.phase, @)]

(* A wrong version: recomputed on every pass. *)
targetNS_Recomputed == workloadNamespace(orig)

(* The namespace is pinned: the status field, once set, wins over the name. *)
targetNS == IF orig.ns # NoName THEN orig.ns ELSE workloadNamespace(orig)

Goto(l) == pc' = l

-----------------------------------------------------------------------------
(* The environment. *)

SyncInst ==
  /\ ~cfresh
  /\ icache' = inst /\ cfresh' = TRUE
  /\ UNCHANGED <<inst, cluster, drawn, local, faults>>

SyncNamespaces ==
  /\ nscache # nss
  /\ nscache' = nss
  /\ UNCHANGED <<inst, icache, cfresh, nss, helm, source, drawn, local, faults>>

SyncRelease ==
  /\ ~hfresh
  /\ hrcache' = hr /\ hfresh' = TRUE
  /\ UNCHANGED <<inst, icache, cfresh, nss, nscache, hr, running, source, drawn, local, faults>>

(* The template controller's probe resolves the chart. *)
Verify ==
  /\ source = "unverified"
  /\ source' = "verified"
  /\ UNCHANGED <<inst, icache, cfresh, nss, nscache, helm, drawn, local, faults>>

(* An administrator breaks the chart reference or deletes the template. *)
SourceChanges ==
  /\ "template" \in Env /\ source = "verified"
  /\ source' \in {"unverified", "missing"}
  /\ UNCHANGED <<inst, icache, cfresh, nss, nscache, helm, drawn, local, faults>>

Killed(r) == IF r.fin THEN [r EXCEPT !.st = "deleting"] ELSE [r EXCEPT !.st = "gone"]

(* A claim releases it, the collector or an administrator deletes it.  Without *)
(* the finalizer it is gone at once.                                           *)
Delete ==
  /\ "delete" \in Env
  /\ inst.st = "live"
  /\ PutInst(Killed(inst))
  /\ UNCHANGED <<icache, cluster, drawn, pc, orig, faults>>

(* The claim controller wins and syncs a warm member. *)
Claimed ==
  /\ "claim" \in Env
  /\ inst.st = "live" /\ ~inst.owned /\ inst.phase = "Up"
  /\ PutInst([inst EXCEPT !.owned = TRUE])
  /\ UNCHANGED <<icache, cluster, drawn, pc, orig, faults>>

(* helm-controller installs, fails, retries or, once the release is deleted,  *)
(* uninstalls and lets it go.                                                 *)
HelmInstalls ==
  /\ hr.st = "live" /\ hr.target \in nss
  /\ hr.ready # "true" \/ running # hr.target
  /\ PutRelease([hr EXCEPT !.ready = "true"])
  /\ running' = hr.target
  /\ UNCHANGED <<inst, icache, cfresh, nss, nscache, hrcache, source, drawn, local, faults>>

HelmFails ==
  /\ "helm" \in Env
  /\ hr.st = "live" /\ hr.ready # "false"
  /\ PutRelease([hr EXCEPT !.ready = "false"])
  /\ UNCHANGED <<inst, icache, cfresh, nss, nscache, hrcache, running, source, drawn, local,
                 faults>>

HelmUninstalls ==
  /\ hr.st = "deleting"
  /\ PutRelease(NoRelease)
  /\ running' = NoName
  /\ UNCHANGED <<inst, icache, cfresh, nss, nscache, hrcache, source, drawn, local, faults>>

(* The HelmRelease has the instance as controller reference. *)
CollectRelease ==
  /\ inst.st = "gone" /\ hr.st = "live"
  /\ PutRelease([hr EXCEPT !.st = "deleting"])
  /\ UNCHANGED <<inst, icache, cfresh, nss, nscache, hrcache, running, source, drawn, local,
                 faults>>

Environment ==
  \/ SyncInst \/ SyncNamespaces \/ SyncRelease
  \/ Verify \/ SourceChanges \/ Delete \/ Claimed
  \/ HelmInstalls \/ HelmFails \/ HelmUninstalls \/ CollectRelease

-----------------------------------------------------------------------------
(* Reconcile, on a live instance. *)

(* A wrong version: the deletionTimestamp is not looked at. *)
Reading_AlsoDying == pc = "idle" /\ icache.st # "gone"

Reading == pc = "idle" /\ icache.st = "live"

(* ensureMeta: a full update, refused unless the copy is current. *)
ensureMeta ==
  /\ Reading /\ ~icache.fin
  /\ cfresh
  /\ PutInst([icache EXCEPT !.fin = TRUE])
  /\ UNCHANGED <<icache, cluster, drawn, pc, orig, faults>>

TemplateNotFound ==
  /\ Reading /\ icache.fin /\ source = "missing"
  /\ PutInst(Patched(icache, icache.uuid, icache.ns, "Failed"))
  /\ UNCHANGED <<icache, cluster, drawn, pc, orig, faults>>

(* "The rest of the pass has to run against the new state": after            *)
(* continueRequeue, or at once when the update of ensureMeta comes back as   *)
(* an event.                                                                 *)
UUIDVisible == icache.uuid = NoUUID => inst.uuid = NoUUID

AssignUUID ==
  /\ Reading /\ icache.fin /\ source # "missing" /\ icache.uuid = NoUUID
  /\ "uuidlag" \in Env \/ UUIDVisible
  /\ drawn < MaxUUID
  /\ drawn' = drawn + 1
  /\ PutInst(Patched(icache, drawn + 1, icache.ns, "Pending"))
  /\ UNCHANGED <<icache, cluster, pc, orig, faults>>

(* A wrong version: Failed is final. *)
Begin_NotAfterFailure ==
  /\ Reading /\ icache.fin /\ source # "missing" /\ icache.uuid # NoUUID
  /\ icache.phase # "Failed"
  /\ orig' = icache /\ ocur' = cfresh
  /\ Goto("namespace")
  /\ UNCHANGED <<inst, icache, cfresh, cluster, drawn, faults>>

(* Names and templates rendered; a template that does not render fails the    *)
(* instance, but what is on the instance by then is reported with it.         *)
Begin ==
  /\ Reading /\ icache.fin /\ source # "missing" /\ icache.uuid # NoUUID
  /\ orig' = icache /\ ocur' = cfresh
  /\ \/ Goto("namespace")
     \/ "render" \in Env /\ Goto("fail")
  /\ UNCHANGED <<inst, icache, cfresh, cluster, drawn, faults>>

(* CreateOrUpdate by a cached read.  AlreadyExists, or a conflict when only    *)
(* the labels change, returns and comes back: the status patch at the end of   *)
(* the pass is not reached.                                                    *)
ensureNamespace ==
  /\ pc = "namespace"
  /\ nss' = IF targetNS \in nscache THEN nss ELSE nss \cup {targetNS}
  /\ \/ Goto(IF targetNS \in nss \ nscache THEN "idle" ELSE "source")
     \/ "race" \in Env /\ targetNS \in nscache /\ Goto("idle")
  /\ UNCHANGED <<inst, icache, cfresh, nscache, helm, source, drawn, orig, ocur, faults>>

(* The source is shared by all instances of the template: another reconcile   *)
(* may have just written it.  Then the template's own verdict.                *)
ensureSource ==
  /\ pc = "source"
  /\ \/ "race" \in Env /\ Goto("idle")
     \/ Goto(IF source = "verified" THEN "release" ELSE "gate")
  /\ UNCHANGED <<inst, icache, cfresh, cluster, drawn, orig, ocur, faults>>

SourceNotReady ==
  /\ pc = "gate"
  /\ PutInst(Patched(orig, orig.uuid, targetNS, "Provisioning"))
  /\ Goto("idle")
  /\ UNCHANGED <<icache, cluster, drawn, orig, faults>>

(* The release this pass wants: the owner is in its labels and values. *)
Wanted(r) == [r EXCEPT !.st = IF r.st = "none" THEN "live" ELSE @,
                       !.target = targetNS, !.owned = orig.owned]

(* AlreadyExists when the cache has missed the creation, Conflict when it has *)
(* missed a write of helm-controller: either one fails the instance.          *)
ensureHelmRelease ==
  /\ pc = "release"
  /\ \/ /\ hrcache.st # "none" /\ Wanted(hrcache) = hrcache
        /\ Goto("project")
        /\ UNCHANGED <<hr, hfresh>>
     \/ /\ hrcache.st # "none" /\ Wanted(hrcache) # hrcache /\ hfresh
        /\ PutRelease(Wanted(hrcache))
        /\ Goto("project")
     \/ /\ hrcache.st = "none" /\ hr.st = "none"
        /\ PutRelease(Wanted(NoRelease))
        /\ Goto("project")
     \/ /\ ~hfresh
        /\ IF hrcache.st = "none" THEN hr.st # "none" ELSE Wanted(hrcache) # hrcache
        /\ Goto("fail")
        /\ UNCHANGED <<hr, hfresh>>
  /\ UNCHANGED <<inst, icache, cfresh, nss, nscache, hrcache, running, source, drawn, orig,
                 ocur, faults>>

fail ==
  /\ pc = "fail"
  /\ PutInst(Patched(orig, orig.uuid, targetNS, "Failed"))
  /\ Goto("idle")
  /\ UNCHANGED <<icache, cluster, drawn, orig, faults>>

(* translateHelmRelease and phaseFor, on the cached release. *)
phaseFor(h) ==
  IF h.ready = "true" THEN "Up" ELSE IF h.ready = "false" THEN "Failed" ELSE "Provisioning"

Project ==
  /\ pc = "project"
  /\ PutInst(Patched(orig, orig.uuid, targetNS, phaseFor(hrcache)))
  /\ Goto("idle")
  /\ UNCHANGED <<icache, cluster, drawn, orig, faults>>

(* applyTTL past the deadline: the phase, then the delete. *)
applyTTL ==
  /\ pc = "project" /\ "ttl" \in Env
  /\ PutInst(Patched(orig, orig.uuid, targetNS, "Expiring"))
  /\ Goto("expire")
  /\ UNCHANGED <<icache, cluster, drawn, orig, faults>>

Expire ==
  /\ pc = "expire"
  /\ PutInst(IF inst.st = "live" THEN Killed(inst) ELSE inst)
  /\ Goto("idle")
  /\ UNCHANGED <<icache, cluster, drawn, orig, faults>>

-----------------------------------------------------------------------------
(* reconcileDelete. *)

Dying == pc = "idle" /\ icache.st = "deleting" /\ icache.fin

(* A wrong version: waits for a release nobody deletes. *)
DeleteRelease_OnlyWaits ==
  /\ Dying /\ hrcache.st # "none"
  /\ orig' = icache /\ ocur' = cfresh
  /\ Goto("expiring")
  /\ UNCHANGED <<inst, icache, cfresh, cluster, drawn, faults>>

DeleteRelease ==
  /\ Dying /\ hrcache.st # "none"
  /\ orig' = icache /\ ocur' = cfresh
  /\ PutRelease(IF hrcache.st = "live" /\ hr.st = "live"
                  THEN [hr EXCEPT !.st = "deleting"] ELSE hr)
  /\ Goto("expiring")
  /\ UNCHANGED <<inst, icache, cfresh, nss, nscache, hrcache, running, source, drawn, faults>>

ReportExpiring ==
  /\ pc = "expiring"
  /\ PutInst(Patched(orig, orig.uuid, orig.ns, "Expiring"))
  /\ Goto("idle")
  /\ UNCHANGED <<icache, cluster, drawn, orig, faults>>

(* No release in the cache: the namespace named in the status goes, and all   *)
(* that runs in it.                                                           *)
DeleteNamespace ==
  /\ Dying /\ hrcache.st = "none"
  /\ orig' = icache /\ ocur' = cfresh
  /\ nss' = nss \ {icache.ns}
  /\ running' = IF running = icache.ns THEN NoName ELSE running
  /\ Goto("unfinalize")
  /\ UNCHANGED <<inst, icache, cfresh, nscache, hr, hrcache, hfresh, source, drawn, faults>>

(* A wrong version: a patch without resourceVersion. *)
RemoveFinalizer_Unconditional ==
  /\ pc = "unfinalize"
  /\ PutInst([inst EXCEPT !.fin = FALSE, !.st = "gone"])
  /\ Goto("idle")
  /\ UNCHANGED <<icache, cluster, drawn, orig, faults>>

RemoveFinalizer ==
  /\ pc = "unfinalize"
  /\ PutInst(IF ocur THEN [inst EXCEPT !.fin = FALSE, !.st = "gone"] ELSE inst)
  /\ Goto("idle")
  /\ UNCHANGED <<icache, cluster, drawn, orig, faults>>

-----------------------------------------------------------------------------
(* A call that fails: while materializing it is reported, elsewhere Reconcile *)
(* returns the error.                                                         *)
ApiError ==
  /\ "error" \in Env /\ faults < MaxFaults
  /\ pc # "idle"
  /\ Goto(IF pc \in {"namespace", "source", "release"} THEN "fail" ELSE "idle")
  /\ faults' = faults + 1
  /\ UNCHANGED <<inst, icache, cfresh, cluster, drawn, orig, ocur>>

Crash ==
  /\ "crash" \in Env /\ faults < MaxFaults
  /\ Goto("idle")
  /\ icache' = inst /\ cfresh' = TRUE
  /\ nscache' = nss
  /\ hrcache' = hr /\ hfresh' = TRUE
  /\ faults' = faults + 1
  /\ UNCHANGED <<inst, nss, hr, running, source, drawn, orig, ocur>>

Reconcile ==
  \/ ensureMeta \/ TemplateNotFound \/ AssignUUID \/ Begin
  \/ ensureNamespace \/ ensureSource \/ SourceNotReady \/ ensureHelmRelease \/ fail
  \/ Project \/ applyTTL \/ Expire
  \/ DeleteRelease \/ ReportExpiring \/ DeleteNamespace \/ RemoveFinalizer

Next == Environment \/ Reconcile \/ ApiError \/ Crash

Spec == Init /\ [][Next]_vars

(* Caches catch up, the probe answers, helm-controller installs and           *)
(* uninstalls, the collector collects; an instance that is not settled is     *)
(* requeued by every path of Reconcile, or has an event on its way.           *)
Fairness ==
  /\ WF_vars(SyncInst) /\ WF_vars(SyncNamespaces) /\ WF_vars(SyncRelease)
  /\ WF_vars(Verify) /\ WF_vars(CollectRelease)
  /\ WF_vars(HelmInstalls) /\ WF_vars(HelmUninstalls)
  /\ WF_vars(Reconcile)

FairSpec == Spec /\ Fairness
-----------------------------------------------------------------------------
(* Nothing is created for an instance that does not carry the finalizer:     *)
(* deleted at that moment it would vanish and leave its namespace or release *)
(* behind.  A pass that began before the instance was deleted, or on an old  *)
(* copy, creates all the same, so this needs the finalizer to outlast every  *)
(* such pass (ensureMeta before everything else, reconcileDelete).           *)
CreatedUnderFinalizer ==
  [][(nss' \ nss # {} \/ (hr.st = "none" /\ hr'.st # "none")) => inst.fin]_vars

(* "Pin the workload namespace for the instance's lifetime": no pass, on     *)
(* whatever copy, moves an environment to another namespace, not even when   *)
(* it is claimed and its computed name changes (Reconcile).                  *)
NamespacePinned == [][inst.ns # NoName => inst'.ns = inst.ns]_vars

(* When the finalizer goes, the namespace named in the status has gone: the  *)
(* name cannot have been written between the read that decided what to       *)
(* delete and the update (reconcileDelete).                                  *)
NamespaceGoneFirst ==
  [][(inst.fin /\ ~inst'.fin) => inst.st = "deleting" /\ inst.ns \notin nss]_vars

(* The inductive invariant behind the three properties above.  A copy that    *)
(* counts as current is current; a pass that names things has read a UUID; an *)
(* instance never comes back from deletion; the finalizer is there whenever a *)
(* pass may still create something; what is about to lose it has been read as *)
(* dying, with its namespace deleted.                                         *)
CopiesAreCurrent == (cfresh => icache = inst) /\ (ocur => orig = inst)

PassHasUUID ==
  pc \in {"namespace", "source", "gate", "release", "fail", "project"}
    => orig.uuid # NoUUID

NoReturn == icache.st # "live" => inst.st # "live"

FinalizerGuards ==
  /\ icache.st = "live" /\ icache.fin => inst.fin
  /\ pc \in {"namespace", "source", "release"} => inst.fin

DeletedFirst ==
  pc = "unfinalize" => /\ icache.st # "live" /\ inst.st # "live"
                       /\ orig.st = "deleting" /\ orig.ns \notin nss

LifeInv ==
  /\ TypeOK /\ PassHasUUID
  /\ CopiesAreCurrent /\ NoReturn /\ FinalizerGuards /\ DeletedFirst

(* What pinning rests on, once a UUID is visible to the pass after the one    *)
(* that drew it.  UUID and namespace are written once; a copy without a       *)
(* namespace computes the name that is written, because the owner cannot have *)
(* changed before there was one.                                              *)
Copies == {icache, orig}

WrittenOnce ==
  \A r \in Copies : /\ r.uuid # NoUUID => inst.uuid = r.uuid
                    /\ r.ns # NoName => inst.ns = r.ns

SameName ==
  \A r \in Copies : (inst.ns # NoName /\ r.ns = NoName /\ r.uuid # NoUUID)
                      => inst.ns = workloadNamespace(r)

UnnamedIsUnclaimed ==
  inst.ns = NoName => inst.phase # "Up" /\ \A r \in Copies : r.owned = inst.owned

PinInv == LifeInv /\ WrittenOnce /\ SameName /\ UnnamedIsUnclaimed

(* Teardown ends, whatever it finds half-made: the instance gone, the        *)
(* release uninstalled, no workload running (reconcileDelete).               *)
TearsDown ==
  inst.st # "live" ~> inst.st = "gone" /\ hr.st = "none" /\ running = NoName

(* No new trouble: helm-controller does not fail, templates render, no write  *)
(* of another reconcile gets in the way.                                      *)
Calm ==
  /\ ~HelmFails
  /\ ~(pc = "idle" /\ pc' = "fail")
  /\ ~(pc \in {"namespace", "source"} /\ pc' = "idle")

(* Once the chart resolves for good and troubles cease, an environment ends   *)
(* up reported as up and stays so, whatever failed, raced, crashed or was     *)
(* half-made before: no failure is final, no stale copy is believed forever   *)
(* (Reconcile).                                                               *)
SettlesUp ==
  (<>[](source = "verified") /\ <>[][Calm]_vars) =>
    <>[](inst.st = "live" => inst.phase = "Up")

(* The workload namespace carries no owner reference, "so the finalizer      *)
(* deletes it explicitly" (ensureNamespace).                                 *)
NamespaceCollected == inst.st = "gone" ~> nss = {}
=============================================================================

-------------------------- MODULE LifecycleProofs --------------------------
(***************************************************************************)
(* Proofs about InstanceLifecycle: types, the finalizer guarding all that  *)
(* a pass creates, the namespace deleted before the finalizer, and the     *)
(* pinned namespace.                                                       *)
(***************************************************************************)
EXTENDS InstanceLifecycle, TLAPS

(* The steps, by what they write: the instance, the release, or neither. *)
InstWrite ==
  \/ Delete \/ Claimed
  \/ ensureMeta \/ TemplateNotFound \/ AssignUUID \/ SourceNotReady \/ fail
  \/ Project \/ applyTTL \/ Expire \/ ReportExpiring \/ RemoveFinalizer

ReleaseWrite ==
  \/ HelmInstalls \/ HelmFails \/ HelmUninstalls \/ CollectRelease
  \/ ensureHelmRelease \/ DeleteRelease

NoWrite ==
  \/ SyncInst \/ SyncNamespaces \/ SyncRelease \/ Verify \/ SourceChanges
  \/ Begin \/ ensureNamespace \/ ensureSource \/ DeleteNamespace
  \/ ApiError \/ Crash

(* The three groups are all of Next. *)
LEMMA ThreeKinds == Next => InstWrite \/ ReleaseWrite \/ NoWrite
BY DEF Next, Environment, Reconcile, InstWrite, ReleaseWrite, NoWrite

-----------------------------------------------------------------------------
(* What a pass computes. *)

(* A pass that has read a UUID has a proper namespace name. *)
LEMMA TargetType ==
  ASSUME TypeOK, orig.uuid # NoUUID
  PROVE  targetNS \in Names /\ targetNS # NoName
BY DEF TypeOK, InstRec, targetNS, workloadNamespace, Names, NoName

(* A patch keeps the type, the finalizer, the owner and the life. *)
LEMMA PatchedType ==
  ASSUME TypeOK, NEW old, NEW u \in UUIDs \cup {NoUUID}, NEW n \in Names \cup {NoName},
         NEW p \in Phases
  PROVE  /\ Patched(old, u, n, p) \in InstRec
         /\ Patched(old, u, n, p).st = inst.st
         /\ Patched(old, u, n, p).fin = inst.fin
BY DEF TypeOK, InstRec, Patched, Merge

(* What every write of the instance has in common: it keeps the type and the *)
(* resourceVersion bookkeeping, never revives, and only RemoveFinalizer      *)
(* takes the finalizer away.                                                 *)
LEMMA InstWriteShape ==
  ASSUME TypeOK, PassHasUUID, CopiesAreCurrent, InstWrite
  PROVE  /\ \E r \in InstRec : PutInst(r)
         /\ inst.st # "live" => inst'.st # "live"
         /\ RemoveFinalizer \/ (inst.fin => inst'.fin)
<1>. USE DEF TypeOK
<1>1. CASE Delete \/ Expire
  BY <1>1 DEF Delete, Expire, PutInst, Killed, InstRec
<1>2. CASE Claimed
  <2>. DEFINE r == [inst EXCEPT !.owned = TRUE]
  <2>1. r \in InstRec /\ r.st = inst.st /\ r.fin = inst.fin
    BY DEF InstRec
  <2>2. PutInst(r) /\ inst' = r
    BY <1>2 DEF Claimed, PutInst
  <2>. QED  BY <2>1, <2>2
<1>3. CASE ensureMeta
  <2>. DEFINE r == [icache EXCEPT !.fin = TRUE]
  <2>1. r \in InstRec /\ r.st = inst.st /\ r.fin
    BY <1>3 DEF ensureMeta, CopiesAreCurrent, InstRec
  <2>2. PutInst(r) /\ inst' = r
    BY <1>3 DEF ensureMeta, PutInst
  <2>. QED  BY <2>1, <2>2
<1>4. CASE TemplateNotFound \/ AssignUUID \/ SourceNotReady \/ fail \/ Project \/ applyTTL
             \/ ReportExpiring
  <2>1. \E old \in InstRec, u \in UUIDs \cup {NoUUID}, n \in Names \cup {NoName}, p \in Phases :
          PutInst(Patched(old, u, n, p))
    <3>1. /\ icache.uuid \in UUIDs \cup {NoUUID} /\ icache.ns \in Names \cup {NoName}
          /\ orig.uuid \in UUIDs \cup {NoUUID} /\ orig.ns \in Names \cup {NoName}
          /\ {"Failed", "Pending", "Provisioning", "Expiring", "Up"} \subseteq Phases
      BY DEF InstRec, Phases
    <3>2. CASE TemplateNotFound
      <4>1. PutInst(Patched(icache, icache.uuid, icache.ns, "Failed"))
        BY <3>2 DEF TemplateNotFound
      <4>. QED  BY <3>1, <4>1, Zenon
    <3>3. CASE ReportExpiring
      <4>1. PutInst(Patched(orig, orig.uuid, orig.ns, "Expiring"))
        BY <3>3 DEF ReportExpiring
      <4>. QED  BY <3>1, <4>1, Zenon
    <3>4. CASE AssignUUID
      <4>1. PutInst(Patched(icache, drawn + 1, icache.ns, "Pending"))
        BY <3>4 DEF AssignUUID
      <4>2. drawn + 1 \in UUIDs \cup {NoUUID}
        BY <3>4, UUIDAssumption DEF AssignUUID, UUIDs
      <4>. QED  BY <3>1, <4>1, <4>2, Zenon
    <3>5. CASE SourceNotReady \/ fail \/ applyTTL
      BY <3>1, <3>5, TargetType DEF SourceNotReady, fail, applyTTL, PassHasUUID
    <3>6. CASE Project
      <4>1. phaseFor(hrcache) \in Phases
        BY DEF phaseFor, Phases
      <4>. QED  BY <3>1, <3>6, <4>1, TargetType DEF Project, PassHasUUID
    <3>. QED  BY <1>4, <3>2, <3>3, <3>4, <3>5, <3>6
  <2>2. PICK old \in InstRec, u \in UUIDs \cup {NoUUID}, n \in Names \cup {NoName}, p \in Phases :
          PutInst(Patched(old, u, n, p))
    BY <2>1
  <2>3. inst' = Patched(old, u, n, p)
    BY <2>2 DEF PutInst
  <2>. QED  BY <2>2, <2>3, PatchedType
<1>5. CASE RemoveFinalizer
  <2>. DEFINE r == IF ocur THEN [inst EXCEPT !.fin = FALSE, !.st = "gone"] ELSE inst
  <2>1. r \in InstRec /\ (inst.st # "live" => r.st # "live")
    BY DEF InstRec
  <2>2. PutInst(r) /\ inst' = r
    BY <1>5 DEF RemoveFinalizer, PutInst
  <2>. QED  BY <1>5, <2>1, <2>2
<1>. QED  BY <1>1, <1>2, <1>3, <1>4, <1>5 DEF InstWrite

-----------------------------------------------------------------------------
(* Every step keeps the types, and UUIDs under the running pass. *)
LEMMA NextType ==
  ASSUME TypeOK, PassHasUUID, CopiesAreCurrent, [Next]_vars
  PROVE  TypeOK' /\ PassHasUUID'
<1>1. CASE InstWrite
  <2>1. PICK r \in InstRec : PutInst(r)
    BY <1>1, InstWriteShape
  <2>2. inst' \in InstRec /\ cfresh' \in BOOLEAN /\ ocur' \in BOOLEAN
    BY <2>1 DEF PutInst, TypeOK
  <2>3. UNCHANGED <<icache, cluster, orig, faults>> /\ pc' \in {pc, "idle", "expire"}
    BY <1>1 DEF InstWrite, Delete, Claimed, ensureMeta, TemplateNotFound, AssignUUID,
       SourceNotReady, fail, Project, applyTTL, Expire, ReportExpiring, RemoveFinalizer, Goto
  <2>4. drawn' = drawn \/ (drawn < MaxUUID /\ drawn' = drawn + 1)
    BY <1>1 DEF InstWrite, Delete, Claimed, ensureMeta, TemplateNotFound, AssignUUID,
       SourceNotReady, fail, Project, applyTTL, Expire, ReportExpiring, RemoveFinalizer
  <2>5. drawn' \in 0..MaxUUID
    BY <2>4, UUIDAssumption DEF TypeOK
  <2>. QED  BY <2>2, <2>3, <2>5 DEF TypeOK, PassHasUUID, cluster, PCs
<1>2. CASE ReleaseWrite
  <2>1. UNCHANGED <<inst, icache, cfresh, nss, nscache, hrcache, source, drawn, faults>>
    BY <1>2 DEF ReleaseWrite, HelmInstalls, HelmFails, HelmUninstalls, CollectRelease,
       ensureHelmRelease, DeleteRelease, local
  <2>2. /\ orig' \in {orig, icache} /\ ocur' \in {ocur, cfresh}
        /\ running' \in {running, hr.target, NoName}
        /\ \/ pc' = pc /\ orig' = orig
           \/ pc' \in {"project", "fail"} /\ pc = "release" /\ orig' = orig
           \/ pc' = "expiring"
    BY <1>2 DEF ReleaseWrite, HelmInstalls, HelmFails, HelmUninstalls, CollectRelease,
       ensureHelmRelease, DeleteRelease, local, Goto
  <2>3. PassHasUUID'
    BY <2>2 DEF PassHasUUID
  <2>4. NoRelease \in ReleaseRec
    BY DEF NoRelease, ReleaseRec
  <2>5. \E h \in ReleaseRec : hr' = h /\ hfresh' \in BOOLEAN
    <3>1. CASE ensureHelmRelease
      <4>1. \A h \in ReleaseRec : Wanted(h) \in ReleaseRec
        BY <3>1, TargetType DEF ensureHelmRelease, PassHasUUID, Wanted, ReleaseRec, TypeOK, InstRec
      <4>. QED  BY <3>1, <4>1, <2>4 DEF ensureHelmRelease, PutRelease, TypeOK
    <3>2. CASE HelmInstalls \/ HelmFails \/ CollectRelease \/ DeleteRelease
      <4>1. hr' \in {hr, [hr EXCEPT !.ready = "true"], [hr EXCEPT !.ready = "false"],
                     [hr EXCEPT !.st = "deleting"]}
        BY <3>2 DEF HelmInstalls, HelmFails, CollectRelease, DeleteRelease, PutRelease
      <4>2. hfresh' \in BOOLEAN
        BY <3>2 DEF HelmInstalls, HelmFails, CollectRelease, DeleteRelease, PutRelease, TypeOK
      <4>. QED  BY <4>1, <4>2 DEF ReleaseRec, TypeOK
    <3>3. CASE HelmUninstalls
      BY <2>4, <3>3 DEF HelmUninstalls, PutRelease, TypeOK
    <3>. QED  BY <1>2, <3>1, <3>2, <3>3 DEF ReleaseWrite
  <2>6. hr.target \in Names \cup {NoName}
    BY DEF TypeOK, ReleaseRec
  <2>7. pc' \in PCs
    BY <2>2 DEF TypeOK, PCs
  <2>. QED  BY <2>1, <2>2, <2>3, <2>5, <2>6, <2>7 DEF TypeOK
<1>3. CASE NoWrite
  <2>1. CASE SyncInst \/ SyncNamespaces \/ SyncRelease \/ Verify \/ SourceChanges
    BY <2>1 DEF SyncInst, SyncNamespaces, SyncRelease, Verify, SourceChanges, cluster, helm, local,
       TypeOK, PassHasUUID
  <2>2. CASE Begin \/ ensureSource \/ ApiError
    BY <2>2 DEF Begin, ensureSource, ApiError, Goto, cluster, TypeOK, PassHasUUID, PCs
  <2>3. CASE ensureNamespace
    BY <2>3, TargetType DEF ensureNamespace, Goto, helm, TypeOK, PassHasUUID, PCs
  <2>4. CASE DeleteNamespace
    BY <2>4 DEF DeleteNamespace, Goto, TypeOK, PassHasUUID, PCs
  <2>5. CASE Crash
    BY <2>5 DEF Crash, Goto, TypeOK, PassHasUUID, PCs
  <2>. QED  BY <1>3, <2>1, <2>2, <2>3, <2>4, <2>5 DEF NoWrite
<1>4. CASE UNCHANGED vars
  BY <1>4 DEF vars, TypeOK, PassHasUUID
<1>. QED  BY <1>1, <1>2, <1>3, <1>4, ThreeKinds

-----------------------------------------------------------------------------
(* All parts of the invariant hold at the start. *)
LEMMA InitInv == Init => PinInv
<1>. SUFFICES ASSUME Init PROVE PinInv
  OBVIOUS
<1>1. TypeOK
  <2>1. PICK o \in BOOLEAN :
          inst = [st |-> "live", fin |-> FALSE, owned |-> o, uuid |-> NoUUID, ns |-> NoName,
                  phase |-> "New"]
    BY DEF Init
  <2>2. inst \in InstRec
    BY <2>1 DEF InstRec, Phases
  <2>3. NoRelease \in ReleaseRec
    BY DEF NoRelease, ReleaseRec
  <2>4. drawn \in 0..MaxUUID /\ faults \in Nat
    BY UUIDAssumption DEF Init
  <2>5. /\ icache \in InstRec /\ orig \in InstRec
        /\ hr \in ReleaseRec /\ hrcache \in ReleaseRec
    BY <2>2, <2>3 DEF Init
  <2>6. /\ nss \subseteq Names /\ nscache \subseteq Names
        /\ running \in Names \cup {NoName}
        /\ source \in {"unverified", "verified", "missing"} /\ pc \in PCs
        /\ cfresh \in BOOLEAN /\ hfresh \in BOOLEAN /\ ocur \in BOOLEAN
    BY DEF Init, PCs
  <2>. QED  BY <2>2, <2>4, <2>5, <2>6 DEF TypeOK
<1>. QED  BY <1>1 DEF Init, PinInv, LifeInv, PassHasUUID, CopiesAreCurrent, NoReturn,
            FinalizerGuards, DeletedFirst, Copies, WrittenOnce, SameName, UnnamedIsUnclaimed

(* Every step keeps the invariant. *)
LEMMA NextInv ==
  ASSUME LifeInv, [Next]_vars
  PROVE  LifeInv'
<1>. USE DEF LifeInv
<1>1. TypeOK' /\ PassHasUUID'
  BY NextType
<1>2. CASE InstWrite
  <2>1. PICK r \in InstRec : PutInst(r)
    BY <1>2, InstWriteShape
  <2>2. UNCHANGED <<icache, nss, orig>> /\ pc' \in {pc, "idle", "expire"}
    BY <1>2 DEF InstWrite, Delete, Claimed, ensureMeta, TemplateNotFound, AssignUUID,
       SourceNotReady, fail, Project, applyTTL, Expire, ReportExpiring, RemoveFinalizer, Goto,
       cluster
  <2>3. CopiesAreCurrent'
    BY <2>1, <2>2 DEF PutInst, CopiesAreCurrent
  <2>4. inst.st # "live" => inst'.st # "live"
    BY <1>2, InstWriteShape
  <2>5. NoReturn' /\ DeletedFirst'
    BY <2>2, <2>4 DEF NoReturn, DeletedFirst
  <2>6. FinalizerGuards'
    <3>1. CASE RemoveFinalizer
      BY <2>2, <3>1 DEF RemoveFinalizer, FinalizerGuards, DeletedFirst, Goto
    <3>2. CASE inst.fin => inst'.fin
      BY <2>2, <3>2 DEF FinalizerGuards
    <3>. QED  BY <1>2, <3>1, <3>2, InstWriteShape
  <2>. QED  BY <1>1, <2>3, <2>5, <2>6
<1>3. CASE ReleaseWrite
  <2>1. UNCHANGED <<inst, icache, cfresh, nss>>
    BY <1>3 DEF ReleaseWrite, HelmInstalls, HelmFails, HelmUninstalls, CollectRelease,
       ensureHelmRelease, DeleteRelease, local
  <2>2. \/ UNCHANGED <<orig, ocur>> /\ pc' \in {pc, "project", "fail"}
        \/ orig' = icache /\ ocur' = cfresh /\ pc' = "expiring"
    BY <1>3 DEF ReleaseWrite, HelmInstalls, HelmFails, HelmUninstalls, CollectRelease,
       ensureHelmRelease, DeleteRelease, local, Goto
  <2>. QED  BY <1>1, <2>1, <2>2 DEF CopiesAreCurrent, NoReturn, FinalizerGuards, DeletedFirst
<1>4. CASE NoWrite
  <2>. USE DEF CopiesAreCurrent, NoReturn, FinalizerGuards, DeletedFirst
  <2>1. CASE SyncInst
    BY <1>1, <2>1 DEF SyncInst, cluster, local
  <2>2. CASE SyncNamespaces \/ SyncRelease \/ Verify \/ SourceChanges
    BY <1>1, <2>2 DEF SyncNamespaces, SyncRelease, Verify, SourceChanges, helm, local
  <2>3. CASE Begin
    BY <1>1, <2>3 DEF Begin, Reading, Goto, cluster
  <2>4. CASE ensureNamespace \/ ensureSource \/ ApiError
    BY <1>1, <2>4 DEF ensureNamespace, ensureSource, ApiError, Goto, cluster
  <2>5. CASE DeleteNamespace
    BY <1>1, <2>5 DEF DeleteNamespace, Dying, Goto
  <2>6. CASE Crash
    BY <1>1, <2>6 DEF Crash, Goto
  <2>. QED  BY <1>4, <2>1, <2>2, <2>3, <2>4, <2>5, <2>6 DEF NoWrite
<1>5. CASE UNCHANGED vars
  BY <1>1, <1>5 DEF vars, CopiesAreCurrent, NoReturn, FinalizerGuards, DeletedFirst
<1>. QED  BY <1>2, <1>3, <1>4, <1>5, ThreeKinds

(* The inductive invariant holds in every reachable state. *)
THEOREM InvariantHolds == Spec => []LifeInv
<1>1. Init => LifeInv
  BY InitInv DEF PinInv
<1>2. LifeInv /\ [Next]_vars => LifeInv'
  BY NextInv
<1>. QED  BY <1>1, <1>2, PTL DEF Spec

(* Every variable of the lifecycle keeps its type. *)
THEOREM TypeCorrect == Spec => []TypeOK
<1>1. LifeInv => TypeOK
  BY DEF LifeInv
<1>. QED  BY InvariantHolds, <1>1, PTL

-----------------------------------------------------------------------------
(* Nothing is created for an instance without the finalizer, whatever it     *)
(* went through since the pass read it (ensureMeta, reconcileDelete).        *)
THEOREM FinalizerFirst == Spec => CreatedUnderFinalizer
<1>. DEFINE Guarded == (nss' \ nss # {} \/ (hr.st = "none" /\ hr'.st # "none")) => inst.fin
<1>1. ASSUME LifeInv, [Next]_vars PROVE Guarded
  <2>1. CASE InstWrite
    BY <2>1 DEF InstWrite, Delete, Claimed, ensureMeta, TemplateNotFound, AssignUUID,
       SourceNotReady, fail, Project, applyTTL, Expire, ReportExpiring, RemoveFinalizer, cluster
  <2>2. CASE ensureHelmRelease \/ ensureNamespace
    BY <1>1, <2>2 DEF ensureHelmRelease, ensureNamespace, LifeInv, FinalizerGuards
  <2>3. CASE HelmInstalls \/ HelmFails \/ HelmUninstalls \/ CollectRelease \/ DeleteRelease
    BY <2>3 DEF HelmInstalls, HelmFails, HelmUninstalls, CollectRelease, DeleteRelease, PutRelease
  <2>4. CASE NoWrite /\ ~ensureNamespace
    BY <2>4 DEF NoWrite, SyncInst, SyncNamespaces, SyncRelease, Verify, SourceChanges, Begin,
       ensureSource, DeleteNamespace, ApiError, Crash, cluster, helm
  <2>5. CASE UNCHANGED vars
    BY <2>5 DEF vars
  <2>. QED  BY <1>1, <2>1, <2>2, <2>3, <2>4, <2>5, ThreeKinds DEF ReleaseWrite
<1>2. LifeInv /\ [Next]_vars => [Guarded]_vars
  BY <1>1
<1>. QED  BY InvariantHolds, <1>2, PTL DEF Spec, CreatedUnderFinalizer

(* The finalizer only goes from a dying instance whose recorded namespace    *)
(* has been deleted (reconcileDelete).                                       *)
THEOREM NamespaceBeforeFinalizer == Spec => NamespaceGoneFirst
<1>. DEFINE Deleted == (inst.fin /\ ~inst'.fin) => inst.st = "deleting" /\ inst.ns \notin nss
<1>1. ASSUME LifeInv, [Next]_vars PROVE Deleted
  <2>1. CASE RemoveFinalizer
    BY <1>1, <2>1 DEF RemoveFinalizer, PutInst, LifeInv, CopiesAreCurrent, DeletedFirst
  <2>2. CASE InstWrite /\ ~RemoveFinalizer
    BY <1>1, <2>2, InstWriteShape DEF LifeInv
  <2>3. CASE ReleaseWrite \/ NoWrite
    BY <2>3 DEF ReleaseWrite, HelmInstalls, HelmFails, HelmUninstalls, CollectRelease,
       ensureHelmRelease, DeleteRelease, NoWrite, SyncInst, SyncNamespaces, SyncRelease, Verify,
       SourceChanges, Begin, ensureNamespace, ensureSource, DeleteNamespace, ApiError, Crash
  <2>4. CASE UNCHANGED vars
    BY <2>4 DEF vars
  <2>. QED  BY <1>1, <2>1, <2>2, <2>3, <2>4, ThreeKinds
<1>2. LifeInv /\ [Next]_vars => [Deleted]_vars
  BY <1>1
<1>. QED  BY InvariantHolds, <1>2, PTL DEF Spec, NamespaceGoneFirst

-----------------------------------------------------------------------------
(* Pinning.  What a write does to the three fields it is about. *)
Pinned == inst.ns # NoName => inst'.ns = inst.ns

(* Steps that write none of them but the owner, and the phase unless to Up. *)
LEMMA OtherWrites ==
  ASSUME PinInv,
         Delete \/ Claimed \/ ensureMeta \/ Expire \/ RemoveFinalizer \/ TemplateNotFound
           \/ ReportExpiring
  PROVE  /\ inst'.uuid = inst.uuid /\ inst'.ns = inst.ns
         /\ inst'.phase = "Up" => inst.phase = "Up"
         /\ inst.ns = NoName => inst'.owned = inst.owned
<1>1. inst \in InstRec /\ icache \in InstRec /\ (cfresh => icache = inst)
  BY DEF PinInv, LifeInv, TypeOK, CopiesAreCurrent
<1>2. CASE Delete \/ Expire \/ RemoveFinalizer
  BY <1>1, <1>2 DEF Delete, Expire, RemoveFinalizer, PutInst, Killed, InstRec
<1>3. CASE Claimed
  BY <1>1, <1>3 DEF Claimed, PutInst, InstRec, PinInv, UnnamedIsUnclaimed
<1>4. CASE ensureMeta
  BY <1>1, <1>4 DEF ensureMeta, PutInst, InstRec
<1>5. CASE TemplateNotFound \/ ReportExpiring
  BY <1>1, <1>5 DEF TemplateNotFound, ReportExpiring, PutInst, Patched, Merge, InstRec
<1>. QED  BY <1>2, <1>3, <1>4, <1>5

(* Steps that report on a pass: the namespace written is the pinned one. *)
LEMMA Reports ==
  ASSUME PinInv, SourceNotReady \/ fail \/ Project \/ applyTTL
  PROVE  /\ inst'.uuid = inst.uuid /\ inst'.owned = inst.owned
         /\ Pinned
         /\ \/ inst' = inst
            \/ inst'.ns # NoName /\ (inst.ns = NoName => inst'.ns = workloadNamespace(orig))
<1>1. inst \in InstRec /\ orig.uuid # NoUUID /\ targetNS # NoName
  BY TargetType DEF PinInv, LifeInv, TypeOK, PassHasUUID, SourceNotReady, fail, Project, applyTTL
<1>2. PICK p : inst' = Patched(orig, orig.uuid, targetNS, p)
  BY DEF SourceNotReady, fail, Project, applyTTL, PutInst
<1>3. CASE inst.st = "gone"
  BY <1>2, <1>3 DEF Patched, Pinned
<1>4. CASE inst.st # "gone"
  <2>1. /\ inst'.uuid = inst.uuid /\ inst'.owned = inst.owned
        /\ inst'.ns = IF targetNS = orig.ns THEN inst.ns ELSE targetNS
    BY <1>1, <1>2, <1>4 DEF Patched, Merge, InstRec
  <2>2. CASE orig.ns # NoName
    BY <1>1, <2>1, <2>2 DEF targetNS, PinInv, WrittenOnce, Copies, Pinned
  <2>3. CASE orig.ns = NoName
    <3>1. inst'.ns = workloadNamespace(orig) /\ inst'.ns # NoName
      BY <1>1, <2>1, <2>3 DEF targetNS
    <3>2. Pinned
      BY <1>1, <2>3, <3>1 DEF PinInv, SameName, Copies, Pinned
    <3>. QED  BY <2>1, <3>1, <3>2
  <2>. QED  BY <2>2, <2>3
<1>. QED  BY <1>3, <1>4

(* Every step keeps what pinning rests on, and pins. *)
LEMMA PinStep ==
  ASSUME PinInv, "uuidlag" \notin Env, [Next]_vars
  PROVE  PinInv' /\ Pinned
<1>. USE DEF Copies
<1>1. LifeInv'
  BY NextInv DEF PinInv
<1>2. CASE InstWrite
  <2>1. UNCHANGED <<icache, orig>>
    BY <1>2 DEF InstWrite, Delete, Claimed, ensureMeta, TemplateNotFound, AssignUUID,
       SourceNotReady, fail, Project, applyTTL, Expire, ReportExpiring, RemoveFinalizer
  <2>2. CASE Delete \/ Claimed \/ ensureMeta \/ Expire \/ RemoveFinalizer \/ TemplateNotFound
               \/ ReportExpiring
    BY <1>1, <2>1, <2>2, OtherWrites
       DEF PinInv, WrittenOnce, SameName, UnnamedIsUnclaimed, workloadNamespace, Pinned
  <2>3. CASE AssignUUID
    <3>1. inst \in InstRec /\ icache.uuid = NoUUID /\ inst.uuid = NoUUID
      BY <2>3 DEF PinInv, LifeInv, TypeOK, AssignUUID, UUIDVisible
    <3>2. orig.uuid = NoUUID
      BY <3>1 DEF PinInv, WrittenOnce
    <3>3. inst'.ns = inst.ns /\ inst'.owned = inst.owned /\ (inst'.phase = "Up" => inst.phase = "Up")
      BY <2>3, <3>1 DEF AssignUUID, PutInst, Patched, Merge, InstRec
    <3>. QED  BY <1>1, <2>1, <3>1, <3>2, <3>3
                DEF PinInv, WrittenOnce, SameName, UnnamedIsUnclaimed, Pinned
  <2>4. CASE SourceNotReady \/ fail \/ Project \/ applyTTL
    <3>1. CASE inst' = inst
      BY <1>1, <2>1, <3>1
         DEF PinInv, WrittenOnce, SameName, UnnamedIsUnclaimed, workloadNamespace, Pinned
    <3>2. CASE inst'.ns # NoName /\ inst.ns # NoName
      BY <1>1, <2>1, <2>4, <3>2, Reports
         DEF PinInv, WrittenOnce, SameName, UnnamedIsUnclaimed, workloadNamespace, Pinned
    <3>3. CASE inst'.ns # NoName /\ inst.ns = NoName /\ inst'.ns = workloadNamespace(orig)
      <4>1. \A r \in Copies : r.ns = NoName /\ r.owned = orig.owned
        BY <3>3 DEF PinInv, WrittenOnce, UnnamedIsUnclaimed
      <4>2. orig.uuid # NoUUID
        BY <2>4 DEF PinInv, LifeInv, PassHasUUID, SourceNotReady, fail, Project, applyTTL
      <4>3. \A r \in Copies : r.uuid # NoUUID => r.uuid = orig.uuid
        BY <4>2 DEF PinInv, WrittenOnce
      <4>4. WrittenOnce' /\ SameName'
        BY <2>1, <2>4, <3>3, <4>1, <4>3, Reports
           DEF PinInv, WrittenOnce, SameName, workloadNamespace
      <4>. QED  BY <1>1, <3>3, <4>4 DEF PinInv, UnnamedIsUnclaimed, Pinned
    <3>. QED  BY <2>4, <3>1, <3>2, <3>3, Reports
  <2>. QED  BY <1>2, <2>2, <2>3, <2>4 DEF InstWrite
<1>3. CASE ReleaseWrite \/ NoWrite
  <2>1. inst' = inst
    BY <1>3 DEF ReleaseWrite, HelmInstalls, HelmFails, HelmUninstalls, CollectRelease,
       ensureHelmRelease, DeleteRelease, NoWrite, SyncInst, SyncNamespaces, SyncRelease, Verify,
       SourceChanges, Begin, ensureNamespace, ensureSource, DeleteNamespace, ApiError, Crash
  <2>2. icache' \in {icache, inst} /\ orig' \in {orig, icache}
    BY <1>3 DEF ReleaseWrite, HelmInstalls, HelmFails, HelmUninstalls, CollectRelease,
       ensureHelmRelease, DeleteRelease, NoWrite, SyncInst, SyncNamespaces, SyncRelease, Verify,
       SourceChanges, Begin, ensureNamespace, ensureSource, DeleteNamespace, ApiError, Crash, local
  <2>. QED  BY <1>1, <2>1, <2>2
              DEF PinInv, WrittenOnce, SameName, UnnamedIsUnclaimed, workloadNamespace, Pinned
<1>4. CASE UNCHANGED vars
  BY <1>1, <1>4
     DEF vars, PinInv, WrittenOnce, SameName, UnnamedIsUnclaimed, workloadNamespace, Pinned
<1>. QED  BY <1>2, <1>3, <1>4, ThreeKinds

(* As long as a UUID, once drawn, is seen by the next pass, no pass moves an *)
(* environment to another namespace, claimed or not (Reconcile).             *)
THEOREM NamespaceStays ==
  ASSUME "uuidlag" \notin Env
  PROVE  Spec => NamespacePinned
<1>1. PinInv /\ [Next]_vars => PinInv'
  BY PinStep
<1>2. PinInv /\ [Next]_vars => [inst.ns # NoName => inst'.ns = inst.ns]_vars
  BY PinStep DEF Pinned
<1>. QED  BY InitInv, <1>1, <1>2, PTL DEF Spec, NamespacePinned
=============================================================================

------------------------------ MODULE ClaimTTL ------------------------------
(***************************************************************************)
(* How long an environment lives: the claim controller derives the TTL and *)
(* its ceiling from the claim, the template and the OperatorConfig,        *)
(* anchors the deadline at the binding and copies it onto the instance;    *)
(* the instance controller enforces that copy; the API server and the CTFd *)
(* plugin extend by raising spec.ttlSeconds.  One claim, the instances it  *)
(* holds one after another, and time.  Both controllers read informer      *)
(* caches and are woken by events and by the RequeueAfter of their own     *)
(* passes.  Who gets an instance is Binding's question: here quota and     *)
(* capacity simply answer one way or the other.                            *)
(***************************************************************************)
EXTENDS Integers

CONSTANTS
  MaxNow,     \* the horizon
  MaxInst,    \* bound on the instances the claim is ever given
  MaxGen,     \* bound on the edits of the claim's spec
  MaxFaults,  \* bound on crashes and failing calls
  Settle,     \* quotaSettleWindow
  Grace,      \* instanceFailureGrace
  Templates,  \* the TTLSpecs the template may have
  Config,     \* spec.defaults of the OperatorConfig, all 0 if there is none
  BakedIn,    \* the fallbacks of operatorconfig
  ApiStep,    \* EXTEND_TTL and DPLOY_EXTEND_SECONDS
  Wants,      \* what spec.ttlSeconds is set to by hand
  Scenarios   \* which disturbances happen together

None == -1        \* no time
Unlimited == -1   \* a lifetime or a number of extensions
Time == 0..MaxNow

(* What the CRDs admit: only the extendSeconds of a template has a minimum. *)
TTLSpec == [seconds : Int, extend : Nat, max : Int]
Defaults == [seconds : Int, extend : Int, max : Int]

ASSUME NumbersAssumption ==
  /\ MaxNow \in Nat /\ MaxInst \in Nat /\ MaxGen \in Nat /\ MaxFaults \in Nat
  /\ Settle \in Nat /\ Grace \in Nat /\ ApiStep \in Nat \ {0}

ASSUME SettingsAssumption ==
  /\ Templates \subseteq TTLSpec /\ Config \in Defaults /\ BakedIn \in TTLSpec
  /\ BakedIn.seconds > 0 /\ BakedIn.max > 0 /\ Wants \subseteq Int

VARIABLES
  now,
  env,       \* the disturbances of this behaviour
  pooled,    \* method: pool
  tmpl,      \* the template's ttl
  claim, ccache,        \* the claim and the operator's copy of it
  inst, icache, last,   \* the live instance bound to it, the copy, ids given
  engine,    \* what a pass of the instance controller finds
  cq, ct,    \* claim controller: enqueued, due time of the delayed entry
  iq, it,    \* instance controller
  pass,      \* the claim pass under way
  req,       \* the extend request under way
  faults,
  promise,   \* history: the deadline promised at the binding, or to an extension
  lapsed,    \* history: the last instance was torn down at its deadline, and
             \* the claim has not been rejected since
  bad        \* history: for how long the instance has been Failed

vars == <<now, env, pooled, tmpl, claim, ccache, inst, icache, last, engine,
          cq, ct, iq, it, pass, req, faults, promise, lapsed, bad>>
settings == <<env, pooled, tmpl>>
objects == <<claim, inst, last>>
caches == <<ccache, icache>>
queues == <<cq, ct, iq, it>>
history == <<promise, lapsed, bad>>

Phases == {"Pending", "Bound", "Rejected", "Expired"}
Engines == {"progressing", "ready", "failed", "unsourced", "broken"}
PCs == {"idle", "serve", "sync", "release", "patch"}
Notes == {"none", "settling", "failed"}
Stamps == Nat \cup {None}

Claim ==
  [want : Int, gen : Nat, obs : Nat, phase : Phases, boundAt : Stamps,
   expiresAt : Stamps, ttl : Int, max : Int]
Status == {"obs", "phase", "boundAt", "expiresAt", "ttl", "max"}

(* own: the owner and the deadline have been written; at: the boundAt         *)
(* annotation; won: when it really was bound (history).                       *)
Instance ==
  [id : 0..MaxInst, own : BOOLEAN, at : Stamps, ttl : Int, exp : Stamps,
   failed : BOOLEAN, ready : {"Unset", "Unknown", "True", "False"},
   since : Stamps, won : Stamps]

Pass == [pc : PCs, orig : Claim, st : Claim, id : 0..MaxInst, note : Notes]
Request == [on : BOOLEAN, rest : BOOLEAN, read : Int, wanted : Int]

NewClaim(w) ==
  [want |-> w, gen |-> 1, obs |-> 0, phase |-> "Pending", boundAt |-> None,
   expiresAt |-> None, ttl |-> 0, max |-> 0]
NoInst ==
  [id |-> 0, own |-> FALSE, at |-> None, ttl |-> 0, exp |-> None,
   failed |-> FALSE, ready |-> "Unset", since |-> None, won |-> None]
NoPass == [pc |-> "idle", orig |-> NewClaim(0), st |-> NewClaim(0), id |-> 0, note |-> "none"]
NoReq == [on |-> FALSE, rest |-> FALSE, read |-> 0, wanted |-> 0]

TypeOK ==
  /\ now \in Time /\ env \in Scenarios /\ pooled \in BOOLEAN /\ tmpl \in Templates
  /\ claim \in Claim /\ ccache \in Claim
  /\ inst \in Instance /\ icache \in Instance /\ last \in 0..MaxInst
  /\ engine \in Engines
  /\ cq \in BOOLEAN /\ iq \in BOOLEAN /\ ct \in Stamps /\ it \in Stamps
  /\ pass \in Pass /\ req \in Request
  /\ faults \in 0..MaxFaults /\ promise \in Int /\ lapsed \in BOOLEAN
  /\ bad \in Nat

Init ==
  /\ now = 0 /\ env \in Scenarios /\ pooled \in BOOLEAN /\ tmpl \in Templates
  /\ \E w \in Wants : claim = NewClaim(w) /\ ccache = NewClaim(w)
  /\ inst = NoInst /\ icache = NoInst /\ last = 0 /\ engine = "progressing"
  /\ cq = TRUE /\ ct = None /\ iq = FALSE /\ it = None
  /\ pass = NoPass /\ req = NoReq /\ faults = 0
  /\ promise = 0 /\ lapsed = FALSE /\ bad = 0

(* An operator that keeps up: no time passes while there is work for it, and  *)
(* its passes begin on copies that are current.                               *)
Prompt == "slow" \notin env

(* One edit fewer for an operator that may be late. *)
EditsLeft == claim.gen < IF Prompt THEN MaxGen ELSE MaxGen - 1

Lagging == ccache # claim \/ icache # inst

-----------------------------------------------------------------------------
(* The arithmetic of lifetimes. *)

First(a, b) == IF a # 0 THEN a ELSE b

Resolve == [f \in {"seconds", "extend", "max"} |-> First(Config[f], BakedIn[f])]

resolveInstanceTTL == First(tmpl.seconds, Resolve.seconds)

maxLifetime ==
  LET max == First(tmpl.max, Resolve.max)
      extend == First(tmpl.extend, Resolve.extend)
  IN IF resolveInstanceTTL = Unlimited \/ max <= 0
     THEN Unlimited
     ELSE resolveInstanceTTL + max * extend

(* Without a limit only where the template is, and never beyond the ceiling. *)
resolveClaimTTL(want) ==
  LET asked == IF want < 0 THEN Unlimited ELSE First(want, resolveInstanceTTL)
      ttl == IF asked = Unlimited /\ maxLifetime # Unlimited THEN maxLifetime ELSE asked
  IN IF maxLifetime > 0 /\ ttl > maxLifetime THEN maxLifetime ELSE ttl

(* A wrong version: only -1 is taken for a lifetime without a deadline. *)
expiryFrom_MinusOneOnly(boundAt, ttl) == IF ttl = Unlimited THEN None ELSE boundAt + ttl

expiryFrom(boundAt, ttl) == IF ttl <= 0 THEN None ELSE boundAt + ttl

Past(t) == t # None /\ t <= now

(* A wrong version: the instance controller is a second ahead. *)
isExpired_After(c) == c.expiresAt # None /\ c.expiresAt < now

isExpired(c) == Past(c.expiresAt)

(* A wrong version: a binding whose status was lost starts its clock anew. *)
boundAtOf_Now(i) == now

boundAtOf(i) == i.at

failedFor(i) == IF i.failed THEN now - i.since ELSE 0

-----------------------------------------------------------------------------
(* The work queues: an entry added with a delay keeps the earlier due time,  *)
(* and a delay that is not positive adds none.                               *)

AddAfter(due, t) ==
  IF t = None \/ t <= now \/ (due # None /\ due <= t) THEN due ELSE t

Dequeued(due) == IF Past(due) THEN None ELSE due

SyncClaim ==
  /\ ccache # claim
  /\ ccache' = claim /\ cq' = TRUE
  /\ UNCHANGED <<now, settings, objects, icache, engine, ct, iq, it, pass, req,
                 faults, history>>

(* For() and claimsForInstance: both controllers hear of the instance. *)
SyncInst ==
  /\ icache # inst
  /\ icache' = inst /\ cq' = TRUE /\ iq' = TRUE
  /\ UNCHANGED <<now, settings, objects, ccache, engine, ct, it, pass, req,
                 faults, history>>

-----------------------------------------------------------------------------
(* The claim controller.  A pass reads its copy of the claim, works on st and *)
(* ends in a merge patch of what it changed.                                  *)

Step(pc, st, id, note) ==
  pass' = [pc |-> pc, orig |-> IF pass.pc = "idle" THEN ccache ELSE pass.orig,
           st |-> st, id |-> id, note |-> note]

reject(st, id, note) ==
  Step("release", [st EXCEPT !.phase = "Rejected", !.expiresAt = None], id, note)

expire(st, id) == Step("release", [st EXCEPT !.phase = "Expired"], id, "none")

park(st) == [st EXCEPT !.phase = "Pending"]

Began ==
  /\ pass.pc = "idle" /\ (cq \/ Past(ct))
  /\ Prompt => ~Lagging
  /\ cq' = FALSE /\ ct' = Dequeued(ct)

(* Expired is final, Rejected until the spec changes. *)
Terminal ==
  \/ ccache.phase = "Expired"
  \/ ccache.phase = "Rejected" /\ ccache.obs = ccache.gen

ObserveTerminal ==
  /\ Began /\ Terminal
  /\ IF ccache.obs = ccache.gen
     THEN UNCHANGED pass
     ELSE Step("patch", ccache, 0, "none")
  /\ UNCHANGED <<now, settings, objects, caches, engine, iq, it, req, faults, history>>

(* boundInstance: the copy, and the API server where the copy shows none. *)
boundInstance == IF icache.id # 0 THEN icache ELSE inst

Resolved == [ccache EXCEPT !.max = maxLifetime, !.ttl = resolveClaimTTL(ccache.want)]

(* From the anchor on: expired, failed for too long, evicted while the        *)
(* binding settles, or served.                                                *)
Decide(st0, i) ==
  LET at == IF st0.boundAt # None THEN st0.boundAt ELSE boundAtOf(i)
      st == [st0 EXCEPT !.boundAt = at, !.expiresAt = expiryFrom(at, st0.ttl)]
      freed == [st EXCEPT !.boundAt = None]
      settling == now - at < Settle
  IN IF isExpired(st) THEN expire(st, i.id)
     ELSE IF failedFor(i) > Grace THEN reject(freed, i.id, "failed")
     ELSE \/ "refuse" \in env /\ settling /\ reject(freed, i.id, "none")
          \/ "full" \in env /\ settling /\ pooled /\ Step("release", park(freed), i.id, "none")
          \/ Step("sync", [st EXCEPT !.phase = "Bound"], i.id,
                  IF settling THEN "settling" ELSE "none")

(* The template is missing or disabled, whatever the claim holds; or the      *)
(* owner of a claim that holds nothing is at the limit.                       *)
Refuse ==
  /\ "refuse" \in env
  /\ Began /\ ~Terminal
  /\ \/ reject(ccache, boundInstance.id, "none")
     \/ ~isExpired(ccache) /\ boundInstance.id = 0 /\ reject(Resolved, 0, "none")
  /\ UNCHANGED <<now, settings, objects, caches, engine, iq, it, req, faults, history>>

Lapse ==
  /\ Began /\ ~Terminal
  /\ isExpired(ccache)
  /\ expire(Resolved, boundInstance.id)
  /\ UNCHANGED <<now, settings, objects, caches, engine, iq, it, req, faults, history>>

Reconcile ==
  /\ Began /\ ~Terminal
  /\ ~isExpired(ccache) /\ boundInstance.id # 0
  /\ Decide(Resolved, boundInstance)
  /\ UNCHANGED <<now, settings, objects, caches, engine, iq, it, req, faults, history>>

(* No warm member to wait for, or the template is at its maximum. *)
Park ==
  /\ "full" \in env /\ pooled
  /\ Began /\ ~Terminal
  /\ ~isExpired(ccache) /\ boundInstance.id = 0
  /\ Step("patch", park(Resolved), 0, "none")
  /\ UNCHANGED <<now, settings, objects, caches, engine, iq, it, req, faults, history>>

(* createOnDemand writes owner and deadline with the instance, acquirePooled  *)
(* the label and the anchor only.                                             *)
Bind ==
  /\ Began /\ ~Terminal
  /\ ~isExpired(ccache) /\ boundInstance.id = 0
  /\ last < MaxInst
  /\ last' = last + 1
  /\ \E warm \in {pooled, FALSE} :
       /\ inst' = [NoInst EXCEPT
            !.id = last + 1, !.own = ~warm, !.at = now, !.won = now,
            !.ttl = IF warm THEN resolveInstanceTTL ELSE Resolved.ttl,
            !.exp = IF warm THEN None ELSE expiryFrom(now, Resolved.ttl),
            !.ready = IF warm THEN "True" ELSE "Unset",
            !.since = IF warm THEN now ELSE None]
       /\ engine' = IF warm THEN "ready" ELSE "progressing"
  /\ Step("serve", [Resolved EXCEPT !.boundAt = now], last + 1, "none")
  /\ promise' = IF Resolved.ttl <= 0 THEN MaxNow + 1 ELSE now + Resolved.ttl
  /\ lapsed' = FALSE /\ bad' = 0
  /\ UNCHANGED <<now, settings, claim, caches, iq, it, req, faults>>

(* The rest of a pass that has just bound; what it holds is new, not failed. *)
Serve ==
  /\ pass.pc = "serve"
  /\ Decide(pass.st, [NoInst EXCEPT !.id = pass.id])
  /\ UNCHANGED <<now, settings, objects, caches, engine, queues, req, faults, history>>

stampBoundAt(i, at) == IF i.at = None THEN [i EXCEPT !.at = at] ELSE i

(* A wrong version: the deadline is copied with the ownership only. *)
Desired_Once(i) ==
  IF i.own THEN i
  ELSE [stampBoundAt(i, pass.st.boundAt) EXCEPT
         !.own = TRUE, !.ttl = pass.st.ttl, !.exp = pass.st.expiresAt]

Desired(i) ==
  [stampBoundAt(i, pass.st.boundAt) EXCEPT
    !.own = TRUE, !.ttl = pass.st.ttl, !.exp = pass.st.expiresAt]

(* The update works on the cached instance: nothing to write, written, or a   *)
(* conflict that outlasts the retries, or NotFound.                           *)
syncInstance ==
  /\ pass.pc = "sync"
  /\ \/ /\ icache.id = pass.id /\ Desired(icache) = icache
        /\ pass' = [pass EXCEPT !.pc = "patch"]
        /\ UNCHANGED <<inst, cq>>
     \/ /\ icache.id = pass.id /\ icache = inst /\ Desired(icache) # icache
        /\ inst' = Desired(inst)
        /\ pass' = [pass EXCEPT !.pc = "patch"]
        /\ UNCHANGED cq
     \/ /\ icache.id # pass.id \/ (icache # inst /\ Desired(icache) # icache)
        /\ pass' = NoPass /\ cq' = TRUE
        /\ UNCHANGED inst
  /\ UNCHANGED <<now, settings, claim, last, caches, engine, ct, iq, it, req,
                 faults, history>>

(* The delete of expire, releaseHeld and the evictions. *)
Release ==
  /\ pass.pc = "release"
  /\ inst' = IF inst.id = pass.id THEN NoInst ELSE inst
  /\ lapsed' = (lapsed \/ (pass.st.phase = "Expired" /\ inst.id # 0 /\ inst.id = pass.id))
  /\ pass' = [pass EXCEPT !.pc = "patch"]
  /\ UNCHANGED <<now, settings, claim, last, caches, engine, queues, req, faults,
                 promise, bad>>

RequeueAt(p) ==
  CASE p.st.phase = "Pending" -> now + 1
    [] p.st.phase = "Bound" /\ p.note = "settling"
         /\ (p.st.expiresAt = None \/ p.st.expiresAt > now + 1) -> now + 1
    [] p.st.phase = "Bound" -> p.st.expiresAt
    [] OTHER -> None

(* What the merge patch makes of the claim. *)
Patched(p) ==
  LET st == [p.st EXCEPT !.obs = p.st.gen]
  IN [f \in DOMAIN claim |-> IF f \in Status /\ st[f] # p.orig[f] THEN st[f] ELSE claim[f]]

(* A wrong version: the deadline is left to the events. *)
patchStatus_NoRequeue ==
  /\ pass.pc = "patch"
  /\ claim' = Patched(pass)
  /\ pass' = NoPass
  /\ lapsed' = (lapsed /\ pass.st.phase # "Rejected")
  /\ UNCHANGED <<now, settings, inst, last, caches, engine, cq, ct, iq, it, req,
                 faults, promise, bad>>

patchStatus ==
  /\ pass.pc = "patch"
  /\ claim' = Patched(pass)
  /\ ct' = AddAfter(ct, RequeueAt(pass))
  /\ pass' = NoPass
  /\ lapsed' = (lapsed /\ pass.st.phase # "Rejected")
  /\ UNCHANGED <<now, settings, inst, last, caches, engine, cq, iq, it, req,
                 faults, promise, bad>>

ClaimPass ==
  \/ ObserveTerminal \/ Refuse \/ Lapse \/ Reconcile \/ Park \/ Bind \/ Serve
  \/ syncInstance \/ Release \/ patchStatus

-----------------------------------------------------------------------------
(* The instance controller: the Ready condition, then applyTTL on the copy of *)
(* the deadline.  A source that is not ready and a failing step return before *)
(* applyTTL.                                                                  *)

Ready(e) == CASE e = "ready" -> "True" [] e = "progressing" -> "Unknown" [] OTHER -> "False"

(* A wrong version: the first failure is remembered. *)
Observed_First(i) ==
  [i EXCEPT !.failed = engine \in {"failed", "broken"},
            !.ready = Ready(engine),
            !.since = IF i.since = None THEN now ELSE i.since]

(* SetStatusCondition moves the time of the transition with the status only. *)
Observed(i) ==
  [i EXCEPT !.failed = engine \in {"failed", "broken"},
            !.ready = Ready(engine),
            !.since = IF i.ready # Ready(engine) THEN now ELSE i.since]

Deadline(i) == IF i.ttl = Unlimited THEN None ELSE i.exp

Enforced == engine \in {"progressing", "ready", "failed"}

applyTTL ==
  /\ Enforced /\ Past(Deadline(icache))
  /\ inst' = IF inst.id = icache.id THEN NoInst ELSE inst
  /\ lapsed' = (lapsed \/ inst.id = icache.id)
  /\ it' = Dequeued(it)

ReportStatus ==
  /\ ~(Enforced /\ Past(Deadline(icache)))
  /\ inst' = IF inst.id # icache.id THEN inst
             ELSE [f \in DOMAIN inst |->
                    IF Observed(icache)[f] # icache[f] THEN Observed(icache)[f] ELSE inst[f]]
  /\ it' = AddAfter(Dequeued(it), IF engine \in {"ready", "failed"} THEN Deadline(icache)
                                  ELSE now + 1)
  /\ UNCHANGED lapsed

InstancePass ==
  /\ iq \/ Past(it)
  /\ Prompt => ~Lagging
  /\ iq' = FALSE
  /\ \/ icache.id # 0 /\ applyTTL
     \/ icache.id # 0 /\ ReportStatus
     \/ icache.id = 0 /\ it' = Dequeued(it) /\ UNCHANGED <<inst, lapsed>>
  /\ UNCHANGED <<now, settings, claim, last, caches, engine, cq, ct, pass, req,
                 faults, promise, bad>>

-----------------------------------------------------------------------------
(* Extending: ExtendClaim reads past the cache and patches; so does extend of *)
(* the plugin, which does not ask whether the claim is bound.  They differ in *)
(* what they take for a ceiling.  One request at a time.                      *)

Limited(rest) == IF rest THEN claim.max > 0 ELSE claim.max # Unlimited

Raised(rest, step) ==
  IF Limited(rest) /\ claim.ttl + step > claim.max THEN claim.max ELSE claim.ttl + step

AskExtend(rest) ==
  /\ ~req.on /\ EditsLeft
  /\ (IF rest THEN "extend" ELSE "plugin") \in env
  /\ claim.ttl # Unlimited
  /\ rest => claim.boundAt # None /\ claim.ttl # 0
  /\ Limited(rest) => claim.ttl < claim.max
  /\ req' = [on |-> TRUE, rest |-> rest, read |-> claim.want,
             wanted |-> Raised(rest, IF rest THEN First(tmpl.extend, ApiStep) ELSE ApiStep)]
  /\ UNCHANGED <<now, settings, objects, caches, engine, queues, pass, faults, history>>

(* The answer counts if the environment is still there. *)
Answer ==
  IF req.rest /\ claim.phase = "Bound" /\ claim.expiresAt > now
  THEN claim.boundAt + req.wanted
  ELSE promise

PatchExtend ==
  /\ req.on
  /\ req' = NoReq
  /\ claim' = IF (req.rest /\ req.read = req.wanted) \/ claim.want = req.wanted THEN claim
              ELSE [claim EXCEPT !.want = req.wanted, !.gen = @ + 1]
  /\ promise' = Answer
  /\ UNCHANGED <<now, settings, inst, last, caches, engine, queues, pass, faults,
                 lapsed, bad>>

-----------------------------------------------------------------------------
(* The environment. *)

EditWant(w) ==
  /\ "edit" \in env /\ EditsLeft /\ w # claim.want
  /\ claim' = [claim EXCEPT !.want = w, !.gen = @ + 1]
  /\ UNCHANGED <<now, settings, inst, last, caches, engine, queues, pass, req,
                 faults, history>>

EditTemplate(t) ==
  /\ "template" \in env /\ t # tmpl
  /\ tmpl' = t
  /\ UNCHANGED <<now, env, pooled, objects, caches, engine, queues, pass, req,
                 faults, history>>

(* Only a change of the HelmRelease is an event. *)
EngineMoves(e) ==
  /\ "fail" \in env /\ inst.id # 0 /\ e # engine
  /\ e = "unsourced" => "source" \in env
  /\ engine' = e
  /\ iq' = (iq \/ e \in {"progressing", "ready", "failed"})
  /\ UNCHANGED <<now, settings, objects, caches, cq, ct, it, pass, req, faults, history>>

LoseInstance ==
  /\ "lose" \in env /\ inst.id # 0
  /\ inst' = NoInst
  /\ UNCHANGED <<now, settings, claim, last, caches, engine, queues, pass, req,
                 faults, history>>

(* A restart lists everything and reconciles it. *)
Crash ==
  /\ "crash" \in env /\ faults < MaxFaults
  /\ faults' = faults + 1
  /\ pass' = NoPass
  /\ ccache' = claim /\ icache' = inst
  /\ cq' = TRUE /\ iq' = TRUE /\ ct' = None /\ it' = None
  /\ UNCHANGED <<now, settings, objects, engine, req, history>>

CallFails ==
  /\ "error" \in env /\ faults < MaxFaults
  /\ pass.pc # "idle"
  /\ faults' = faults + 1
  /\ pass' = NoPass /\ cq' = TRUE
  /\ UNCHANGED <<now, settings, objects, caches, engine, ct, iq, it, req, history>>

Busy ==
  \/ Lagging \/ pass.pc # "idle" \/ cq \/ iq \/ Past(ct) \/ Past(it)

Tick ==
  /\ now < MaxNow /\ (Prompt => ~Busy)
  /\ now' = now + 1
  /\ bad' = IF inst.failed THEN bad + 1 ELSE 0
  /\ UNCHANGED <<settings, objects, caches, engine, queues, pass, req, faults,
                 promise, lapsed>>

Environment ==
  \/ \E w \in Wants : EditWant(w)
  \/ \E t \in Templates : EditTemplate(t)
  \/ \E e \in Engines : EngineMoves(e)
  \/ LoseInstance \/ Crash \/ CallFails

Next ==
  \/ SyncClaim \/ SyncInst \/ ClaimPass \/ InstancePass
  \/ (\E rest \in BOOLEAN : AskExtend(rest)) \/ PatchExtend
  \/ Environment \/ Tick

Spec == Init /\ [][Next]_vars

-----------------------------------------------------------------------------
(* What the TTL settings promise, field by field: the template's value, the   *)
(* OperatorConfig's, or the fallback, 0 meaning unset and -1 no limit.        *)
InForce(t, f) ==
  IF t[f] # 0 THEN t[f] ELSE IF Config[f] # 0 THEN Config[f] ELSE BakedIn[f]

(* Sensible: no negative number but -1, and no extension that shortens. *)
Sensible(t) == InForce(t, "seconds") >= Unlimited /\ InForce(t, "extend") >= 0

Bounded(t) == Sensible(t) /\ InForce(t, "seconds") > 0 /\ InForce(t, "max") > 0

Ceiling(t) == InForce(t, "seconds") + InForce(t, "max") * InForce(t, "extend")

InPlay == IF "template" \in env THEN Templates ELSE {tmpl}

(* An instance a claim owns carries a deadline, and one within the ceiling    *)
(* (ttl + maxExtends * extendSeconds) of the moment it was really bound, as   *)
(* long as no template in play allows an unlimited life: whatever is asked    *)
(* for in spec.ttlSeconds, however often and through whom it is extended, on  *)
(* stale copies, through crashes and failing calls.  A free extension         *)
(* would come from resolving the TTL wrongly or from anchoring it anew.  A    *)
(* negative TTL, whichever, or a negative step counts as unlimited here: the  *)
(* code gives them no deadline or no ceiling.                                 *)
LifetimeWithinCeiling ==
  (inst.own /\ \A t \in InPlay : Bounded(t)) =>
    /\ inst.exp # None
    /\ \E t \in InPlay : inst.exp <= inst.won + Ceiling(t)

(* With an operator that keeps up, time never passes the deadline of an       *)
(* instance that is still there, nor that of a claim that still says Bound:   *)
(* between the two controllers, the events and the requeues of their passes,  *)
(* someone is always woken in time, whatever the engine does meanwhile.       *)
TornDownAtDeadline ==
  Prompt =>
    /\ inst.own /\ inst.exp # None => now <= inst.exp
    /\ claim.phase = "Bound" /\ claim.expiresAt # None => now <= claim.expiresAt

(* Every extension that is asked for adds the same number of seconds. *)
OneStep ==
  ~({"extend", "plugin"} \subseteq env) \/ First(tmpl.extend, ApiStep) = ApiStep

(* With an operator that keeps up, an environment is not torn down at its     *)
(* deadline before the time promised: that of the binding, or the one an      *)
(* extend request was answered while the claim was Bound and running.  Not    *)
(* so when someone shortens the lifetime (an extension by the smaller step of *)
(* the two that read the old status does) or deletes the instance, and not    *)
(* when status.boundAt outlives the instance it was for: a rejection without  *)
(* a fault of the instance leaves it, and so does a release whose patch is    *)
(* lost.  The next environment of the claim then inherits it.  Nor so when a  *)
(* negative TTL other than -1 is in force, which never expires but can be     *)
(* extended, into a deadline.                                                 *)
GrantIsKept ==
  [][(/\ Prompt /\ lapsed' /\ ~lapsed /\ OneStep /\ Sensible(tmpl)
      /\ env \cap {"edit", "template", "lose", "refuse"} = {}
      /\ faults = 0 \/ env \cap {"full", "fail"} = {})
       => now >= promise]_vars

(* With an operator that keeps up, a claim whose environment was torn down at *)
(* its deadline gets no other ("must not quietly help itself to a fresh one"  *)
(* in Reconcile), whichever controller reaped it and wherever the claim's     *)
(* pass was, unless it is rejected meanwhile: a Rejected claim is judged anew *)
(* when its spec changes.  A pass that tears down and dies before its patch   *)
(* leaves the old deadline: that is as good unless the lifetime was           *)
(* shortened, or the anchor inherited, since.                                 *)
NoSecondLife ==
  [][(/\ Prompt /\ lapsed
      /\ \/ faults = 0
         \/ /\ OneStep /\ Sensible(tmpl)
            /\ env \cap {"edit", "template", "refuse", "full", "fail"} = {})
       => last' = last]_vars

(* With an operator that keeps up, an environment is only given up as failed  *)
(* when it has been Failed for longer than instanceFailureGrace without a     *)
(* break: a retry of Flux that clears the condition starts the count afresh.  *)
(* As long as its source is ready: see FirstSightingIsSpared.                 *)
RetryIsNotRejected ==
  Prompt /\ "source" \notin env /\ pass.pc = "release" /\ pass.note = "failed"
    => bad > Grace

(* What the comments of instanceFailureGrace ("how long an instance must stay *)
(* Failed"), of failedFor ("continuously Failed") and of Reconcile            *)
(* ("Rejecting on the first sighting destroys an environment that was about   *)
(* to come up") say, for any source.  An instance that waits for its source   *)
(* is Provisioning with Ready=False; the transition time failedFor reads is   *)
(* from then, and the first failure that follows is taken for an old one.     *)
FirstSightingIsSpared ==
  Prompt /\ pass.pc = "release" /\ pass.note = "failed" => bad > Grace

(* What the comment of instanceFailureGrace says: the grace is short enough   *)
(* that nobody is left with a dead environment, so one that stays Failed is   *)
(* released when the grace is over.  The claim's pass that sees the failure   *)
(* asks to be woken at the deadline, not at the end of the grace.             *)
FailedIsReleased ==
  Prompt /\ claim.phase = "Bound" /\ inst.failed => bad <= Grace + 1
=============================================================================

------------------------------ MODULE TTLProofs ------------------------------
(***************************************************************************)
(* Proofs about ClaimTTL that hold for every operator, prompt or not: the  *)
(* types and the ceiling on a lifetime; and, for one that keeps up, that   *)
(* only a lasting failure is given up.                                     *)
(***************************************************************************)
EXTENDS ClaimTTL, TLAPS

-----------------------------------------------------------------------------
(* The arithmetic. *)

(* A product of settings is a number. *)
LEMMA Product ==
  ASSUME NEW m \in Nat, NEW e \in Int
  PROVE  m * e \in Int /\ (e >= 0 => m * e >= 0)
OBVIOUS

(* What the template, the OperatorConfig and the fallbacks resolve to. *)
LEMMA SettingsType ==
  ASSUME tmpl \in Templates
  PROVE  /\ resolveInstanceTTL \in Int /\ resolveInstanceTTL # 0
         /\ First(tmpl.max, Resolve.max) \in Int
         /\ First(tmpl.extend, Resolve.extend) \in Int
         /\ First(tmpl.extend, ApiStep) \in Nat \ {0}
BY SettingsAssumption, NumbersAssumption
DEF resolveInstanceTTL, First, Resolve, TTLSpec, Defaults

LEMMA Settings ==
  /\ resolveInstanceTTL = InForce(tmpl, "seconds")
  /\ First(tmpl.max, Resolve.max) = InForce(tmpl, "max")
  /\ First(tmpl.extend, Resolve.extend) = InForce(tmpl, "extend")
BY DEF resolveInstanceTTL, First, Resolve, InForce

(* The ceiling is a number, and with sensible settings Unlimited or positive. *)
LEMMA MaxType ==
  ASSUME tmpl \in Templates
  PROVE  /\ maxLifetime \in Int
         /\ Sensible(tmpl) => maxLifetime = Unlimited \/ maxLifetime > 0
<1>. DEFINE m == First(tmpl.max, Resolve.max)
            e == First(tmpl.extend, Resolve.extend)
<1>1. m \in Int /\ e \in Int
  BY SettingsType
<1>2. m > 0 => m * e \in Int /\ (e >= 0 => m * e >= 0)
  BY <1>1, Product
<1>3. maxLifetime = IF resolveInstanceTTL = Unlimited \/ m <= 0
                    THEN Unlimited ELSE resolveInstanceTTL + m * e
  BY DEF maxLifetime
<1>4. Sensible(tmpl) => resolveInstanceTTL >= -1 /\ e >= 0
  BY Settings DEF Sensible, Unlimited
<1>. HIDE DEF m, e
<1>. QED
  BY <1>1, <1>2, <1>3, <1>4, SettingsType DEF Unlimited

(* A lifetime that is granted is kept by the ceiling where there is one; with *)
(* sensible settings it is Unlimited or positive.                             *)
LEMMA GrantType ==
  ASSUME tmpl \in Templates, NEW w \in Int
  PROVE  /\ resolveClaimTTL(w) \in Int /\ maxLifetime \in Int
         /\ maxLifetime > 0 => resolveClaimTTL(w) <= maxLifetime
         /\ maxLifetime > 0 /\ resolveInstanceTTL > 0 => resolveClaimTTL(w) > 0
BY SettingsType, MaxType DEF resolveClaimTTL, First, Unlimited

Lifetimes == Nat \cup {Unlimited}

LEMMA SensibleGrant ==
  ASSUME tmpl \in Templates, Sensible(tmpl), NEW w \in Int
  PROVE  /\ resolveClaimTTL(w) \in Lifetimes \ {0}
         /\ maxLifetime \in Lifetimes \ {0}
         /\ maxLifetime > 0 => resolveClaimTTL(w) > 0 /\ resolveClaimTTL(w) <= maxLifetime
<1>1. resolveInstanceTTL >= -1
  BY Settings DEF Sensible, Unlimited
<1>. QED
  BY <1>1, SettingsType, MaxType DEF resolveClaimTTL, First, Lifetimes, Unlimited

LEMMA ExpiryType ==
  ASSUME NEW at \in Stamps, NEW ttl \in Int
  PROVE  expiryFrom(at, ttl) \in Stamps
BY DEF expiryFrom, Stamps, None

-----------------------------------------------------------------------------
(* The records, field by field. *)

LEMMA NewClaimType ==
  ASSUME NEW w \in Int
  PROVE  NewClaim(w) \in Claim
BY DEF NewClaim, Claim, Phases, Stamps, None

LEMMA NoPassType == NoPass \in Pass /\ NoInst \in Instance /\ NoReq \in Request
BY NewClaimType, NumbersAssumption
DEF NoPass, Pass, PCs, Notes, NoInst, Instance, Stamps, None, NoReq, Request

(* The merge patch of a status. *)
LEMMA PatchedFields ==
  ASSUME claim \in Claim, NEW p \in Pass
  PROVE  /\ Patched(p) \in Claim
         /\ Patched(p).want = claim.want /\ Patched(p).gen = claim.gen
         /\ Patched(p).obs = IF p.st.gen # p.orig.obs THEN p.st.gen ELSE claim.obs
         /\ Patched(p).phase = IF p.st.phase # p.orig.phase THEN p.st.phase ELSE claim.phase
         /\ Patched(p).boundAt = IF p.st.boundAt # p.orig.boundAt THEN p.st.boundAt ELSE claim.boundAt
         /\ Patched(p).expiresAt =
              IF p.st.expiresAt # p.orig.expiresAt THEN p.st.expiresAt ELSE claim.expiresAt
         /\ Patched(p).ttl = IF p.st.ttl # p.orig.ttl THEN p.st.ttl ELSE claim.ttl
         /\ Patched(p).max = IF p.st.max # p.orig.max THEN p.st.max ELSE claim.max
<1>. DEFINE a == [p.st EXCEPT !.obs = p.st.gen]
            b == p.orig
            m == [f \in DOMAIN claim |-> IF f \in Status /\ a[f] # b[f] THEN a[f] ELSE claim[f]]
<1>1. Patched(p) = m
  BY DEF Patched
<1>2. /\ a \in Claim /\ b \in Claim /\ a.obs = p.st.gen /\ a.phase = p.st.phase
      /\ a.boundAt = p.st.boundAt /\ a.expiresAt = p.st.expiresAt
      /\ a.ttl = p.st.ttl /\ a.max = p.st.max
  BY DEF Pass, Claim
<1>. HIDE DEF a, b
<1>3. m \in Claim
  BY <1>2 DEF Claim, Status
<1>4. DOMAIN claim = {"want", "gen", "obs", "phase", "boundAt", "expiresAt", "ttl", "max"}
  BY DEF Claim
<1>5. /\ m.want = claim.want /\ m.gen = claim.gen
      /\ m.obs = IF a.obs # b.obs THEN a.obs ELSE claim.obs
      /\ m.phase = IF a.phase # b.phase THEN a.phase ELSE claim.phase
      /\ m.boundAt = IF a.boundAt # b.boundAt THEN a.boundAt ELSE claim.boundAt
      /\ m.expiresAt = IF a.expiresAt # b.expiresAt THEN a.expiresAt ELSE claim.expiresAt
      /\ m.ttl = IF a.ttl # b.ttl THEN a.ttl ELSE claim.ttl
      /\ m.max = IF a.max # b.max THEN a.max ELSE claim.max
  BY <1>4 DEF Status
<1>. QED
  BY <1>1, <1>2, <1>3, <1>5 DEF b

(* What a pass of the instance controller writes. *)
LEMMA ObservedFields ==
  ASSUME now \in Nat, NEW i \in Instance
  PROVE  /\ Observed(i) \in Instance
         /\ Observed(i).id = i.id /\ Observed(i).own = i.own /\ Observed(i).at = i.at
         /\ Observed(i).ttl = i.ttl /\ Observed(i).exp = i.exp /\ Observed(i).won = i.won
<1>1. Ready(engine) \in {"Unknown", "True", "False"}
  BY DEF Ready
<1>2. (engine \in {"failed", "broken"}) \in BOOLEAN
  OBVIOUS
<1>. DEFINE since == IF i.ready # Ready(engine) THEN now ELSE i.since
<1>3. since \in Stamps
  BY DEF Instance, Stamps
<1>4. Observed(i) = [i EXCEPT !.failed = engine \in {"failed", "broken"},
                              !.ready = Ready(engine), !.since = since]
  BY DEF Observed
<1>. HIDE DEF since
<1>. QED
  BY <1>1, <1>2, <1>3, <1>4 DEF Instance

LEMMA Merged ==
  ASSUME inst \in Instance, NEW i \in Instance, now \in Nat,
         NEW m, m = [f \in DOMAIN inst |->
                      IF Observed(i)[f] # i[f] THEN Observed(i)[f] ELSE inst[f]]
  PROVE  /\ m \in Instance
         /\ m.id = inst.id /\ m.own = inst.own /\ m.at = inst.at
         /\ m.ttl = inst.ttl /\ m.exp = inst.exp /\ m.won = inst.won
         /\ i = inst => m = Observed(inst)
<1>. DEFINE o == Observed(i)
<1>1. o \in Instance
  BY ObservedFields
<1>2. /\ o.id = i.id /\ o.own = i.own /\ o.at = i.at
      /\ o.ttl = i.ttl /\ o.exp = i.exp /\ o.won = i.won
  BY ObservedFields
<1>. HIDE DEF o
<1>3. DOMAIN inst = {"id", "own", "at", "ttl", "exp", "failed", "ready", "since", "won"}
  BY DEF Instance
<1>4. m = [f \in DOMAIN inst |-> IF o[f] # i[f] THEN o[f] ELSE inst[f]]
  BY DEF o
<1>5. m \in Instance
  BY <1>1, <1>4 DEF Instance
<1>6. /\ m.id = inst.id /\ m.own = inst.own /\ m.at = inst.at
      /\ m.ttl = inst.ttl /\ m.exp = inst.exp /\ m.won = inst.won
  BY <1>2, <1>3, <1>4
<1>7. ASSUME i = inst PROVE m = o
  <2>1. \A f \in DOMAIN inst : m[f] = o[f]
    BY <1>4, <1>7
  <2>. QED
    BY <1>1, <1>5, <2>1, <1>3 DEF Instance
<1>. QED
  BY <1>5, <1>6, <1>7 DEF o

LEMMA ResolvedFields ==
  ASSUME tmpl \in Templates, ccache \in Claim
  PROVE  /\ Resolved \in Claim
         /\ Resolved.want = ccache.want /\ Resolved.gen = ccache.gen /\ Resolved.obs = ccache.obs
         /\ Resolved.phase = ccache.phase /\ Resolved.boundAt = ccache.boundAt
         /\ Resolved.expiresAt = ccache.expiresAt
         /\ Resolved.max = maxLifetime /\ Resolved.ttl = resolveClaimTTL(ccache.want)
<1>. DEFINE m == maxLifetime
            g == resolveClaimTTL(ccache.want)
<1>1. m \in Int /\ g \in Int
  BY GrantType DEF Claim
<1>2. Resolved = [ccache EXCEPT !.max = m, !.ttl = g]
  BY DEF Resolved
<1>. HIDE DEF m, g
<1>3. [ccache EXCEPT !.max = m, !.ttl = g] \in Claim
  BY <1>1 DEF Claim
<1>4. /\ Resolved.want = ccache.want /\ Resolved.gen = ccache.gen /\ Resolved.obs = ccache.obs
      /\ Resolved.phase = ccache.phase /\ Resolved.boundAt = ccache.boundAt
      /\ Resolved.expiresAt = ccache.expiresAt
      /\ Resolved.max = m /\ Resolved.ttl = g
  BY <1>2 DEF Claim
<1>. QED
  BY <1>2, <1>3, <1>4 DEF m, g

(* A step of a pass, by what it records and what it leaves of the status. *)
Moves(pc, phase, id, note) ==
  /\ pass' \in Pass
  /\ pass'.pc = pc /\ pass'.st.phase = phase /\ pass'.id = id /\ pass'.note = note
  /\ pass'.orig = IF pass.pc = "idle" THEN ccache ELSE pass.orig

Keeps(st) ==
  /\ pass'.st.ttl = st.ttl /\ pass'.st.max = st.max
  /\ pass'.st.gen = st.gen /\ pass'.st.want = st.want

Deadlined(at, ttl) == pass'.st.boundAt = at /\ pass'.st.expiresAt = expiryFrom(at, ttl)

LEMMA StepFields ==
  ASSUME pass \in Pass, ccache \in Claim,
         NEW pc \in PCs, NEW st \in Claim, NEW id \in 0..MaxInst, NEW note \in Notes,
         Step(pc, st, id, note)
  PROVE  pass'.st = st /\ Moves(pc, st.phase, id, note)
BY DEF Step, Pass, Moves

LEMMA RejectFields ==
  ASSUME pass \in Pass, ccache \in Claim,
         NEW st \in Claim, NEW id \in 0..MaxInst, NEW note \in Notes,
         reject(st, id, note)
  PROVE  /\ Moves("release", "Rejected", id, note) /\ Keeps(st)
         /\ pass'.st.boundAt = st.boundAt /\ pass'.st.expiresAt = None
<1>. DEFINE s == [st EXCEPT !.phase = "Rejected", !.expiresAt = None]
<1>1. /\ s \in Claim /\ s.phase = "Rejected" /\ s.boundAt = st.boundAt /\ s.expiresAt = None
      /\ s.ttl = st.ttl /\ s.max = st.max /\ s.gen = st.gen /\ s.want = st.want
  BY DEF Claim, Phases, Stamps
<1>2. Step("release", s, id, note)
  BY DEF reject
<1>. HIDE DEF s
<1>. QED
  BY <1>1, <1>2, StepFields DEF PCs, Keeps

LEMMA ExpireFields ==
  ASSUME pass \in Pass, ccache \in Claim, NEW st \in Claim, NEW id \in 0..MaxInst,
         expire(st, id)
  PROVE  /\ Moves("release", "Expired", id, "none") /\ Keeps(st)
         /\ pass'.st.boundAt = st.boundAt /\ pass'.st.expiresAt = st.expiresAt
<1>. DEFINE s == [st EXCEPT !.phase = "Expired"]
<1>1. /\ s \in Claim /\ s.phase = "Expired" /\ s.boundAt = st.boundAt
      /\ s.expiresAt = st.expiresAt
      /\ s.ttl = st.ttl /\ s.max = st.max /\ s.gen = st.gen /\ s.want = st.want
  BY DEF Claim, Phases
<1>2. Step("release", s, id, "none")
  BY DEF expire
<1>. HIDE DEF s
<1>. QED
  BY <1>1, <1>2, StepFields DEF PCs, Notes, Keeps

LEMMA ParkFields ==
  ASSUME pass \in Pass, ccache \in Claim,
         NEW pc \in PCs, NEW st \in Claim, NEW id \in 0..MaxInst,
         Step(pc, park(st), id, "none")
  PROVE  /\ Moves(pc, "Pending", id, "none") /\ Keeps(st)
         /\ pass'.st.boundAt = st.boundAt
<1>1. /\ park(st) \in Claim /\ park(st).phase = "Pending" /\ park(st).boundAt = st.boundAt
      /\ park(st).ttl = st.ttl /\ park(st).max = st.max
      /\ park(st).gen = st.gen /\ park(st).want = st.want
  BY DEF park, Claim, Phases
<1>. QED
  BY <1>1, StepFields DEF Notes, Keeps

(* The five ways a pass may take from the anchor on. *)
Anchor(st, i) == IF st.boundAt # None THEN st.boundAt ELSE i.at

LEMMA DecideFields ==
  ASSUME TypeOK, NEW st0 \in Claim, NEW i \in Instance, Decide(st0, i)
  PROVE  /\ Keeps(st0)
         /\ \/ /\ \E n \in {"settling", "none"} : Moves("sync", "Bound", i.id, n)
               /\ Deadlined(Anchor(st0, i), st0.ttl) /\ ~Past(pass'.st.expiresAt)
            \/ /\ Moves("release", "Expired", i.id, "none")
               /\ Deadlined(Anchor(st0, i), st0.ttl) /\ Past(pass'.st.expiresAt)
            \/ /\ Moves("release", "Rejected", i.id, "failed")
               /\ pass'.st.boundAt = None /\ failedFor(i) > Grace
            \/ /\ Moves("release", "Rejected", i.id, "none")
               /\ pass'.st.boundAt = None /\ "refuse" \in env
            \/ /\ Moves("release", "Pending", i.id, "none")
               /\ pass'.st.boundAt = None /\ "full" \in env
<1>. DEFINE at == Anchor(st0, i)
            exp == expiryFrom(at, st0.ttl)
            st == [st0 EXCEPT !.boundAt = at, !.expiresAt = exp]
            freed == [st EXCEPT !.boundAt = None]
            n == IF now - at < Settle THEN "settling" ELSE "none"
<1>1. at \in Stamps
  BY DEF Anchor, Claim, Instance
<1>2. exp \in Stamps
  BY <1>1, ExpiryType DEF Claim
<1>3. None \in Stamps
  BY DEF Stamps
<1>. HIDE DEF at, exp
<1>4. /\ st \in Claim /\ st.boundAt = at /\ st.expiresAt = exp /\ st.ttl = st0.ttl
      /\ st.max = st0.max /\ st.gen = st0.gen /\ st.want = st0.want
  BY <1>1, <1>2 DEF Claim
<1>. HIDE DEF st
<1>5. /\ freed \in Claim /\ freed.boundAt = None /\ freed.ttl = st0.ttl
      /\ freed.max = st0.max /\ freed.gen = st0.gen /\ freed.want = st0.want
  BY <1>3, <1>4 DEF Claim
<1>. HIDE DEF freed
<1>6. pass \in Pass /\ ccache \in Claim /\ i.id \in 0..MaxInst
  BY DEF TypeOK, Instance
<1>7. \/ isExpired(st) /\ expire(st, i.id)
      \/ failedFor(i) > Grace /\ reject(freed, i.id, "failed")
      \/ "refuse" \in env /\ reject(freed, i.id, "none")
      \/ "full" \in env /\ Step("release", park(freed), i.id, "none")
      \/ ~isExpired(st) /\ Step("sync", [st EXCEPT !.phase = "Bound"], i.id, n)
  BY DEF Decide, st, freed, at, exp, Anchor, boundAtOf
<1>8. n \in Notes /\ n \in {"settling", "none"}
  BY DEF Notes
<1>. HIDE DEF n
<1>9. CASE isExpired(st) /\ expire(st, i.id)
  BY <1>4, <1>6, <1>9, ExpireFields DEF Keeps, Deadlined, isExpired, at, exp
<1>10. CASE failedFor(i) > Grace /\ reject(freed, i.id, "failed")
  BY <1>5, <1>6, <1>10, RejectFields DEF Keeps, Notes
<1>11. CASE "refuse" \in env /\ reject(freed, i.id, "none")
  BY <1>5, <1>6, <1>11, RejectFields DEF Keeps, Notes
<1>12. CASE "full" \in env /\ Step("release", park(freed), i.id, "none")
  BY <1>5, <1>6, <1>12, ParkFields DEF Keeps, PCs
<1>13. CASE ~isExpired(st) /\ Step("sync", [st EXCEPT !.phase = "Bound"], i.id, n)
  <2>. DEFINE s == [st EXCEPT !.phase = "Bound"]
  <2>1. /\ s \in Claim /\ s.phase = "Bound" /\ s.boundAt = at /\ s.expiresAt = exp
        /\ s.ttl = st0.ttl /\ s.max = st0.max /\ s.gen = st0.gen /\ s.want = st0.want
    BY <1>4 DEF Claim, Phases
  <2>2. Step("sync", s, i.id, n)
    BY <1>13
  <2>. HIDE DEF s
  <2>3. pass'.st = s /\ Moves("sync", "Bound", i.id, n)
    BY <1>6, <1>8, <2>1, <2>2, StepFields DEF PCs
  <2>. QED
    BY <1>4, <1>8, <1>13, <2>1, <2>3 DEF Keeps, Deadlined, isExpired, at, exp
<1>. QED
  BY <1>7, <1>9, <1>10, <1>11, <1>12, <1>13

LEMMA BindFields ==
  ASSUME TypeOK, Bind
  PROVE  /\ inst' \in Instance /\ inst'.id = last + 1 /\ inst'.at = now /\ inst'.won = now
         /\ ~inst'.failed /\ inst'.ready # "False"
         /\ \/ inst'.own /\ inst'.exp = expiryFrom(now, resolveClaimTTL(ccache.want))
            \/ ~inst'.own /\ inst'.exp = None
         /\ last + 1 \in 1..MaxInst
         /\ Moves("serve", ccache.phase, last + 1, "none") /\ Keeps(Resolved)
         /\ pass'.st.boundAt = now
         /\ engine' \in {"ready", "progressing"}
         /\ promise' = IF resolveClaimTTL(ccache.want) <= 0
                       THEN MaxNow + 1 ELSE now + resolveClaimTTL(ccache.want)
<1>. DEFINE g == resolveClaimTTL(ccache.want)
            t == resolveInstanceTTL
            e == expiryFrom(now, g)
<1>1. now \in Nat /\ now \in Stamps /\ None \in Stamps
  BY NumbersAssumption DEF TypeOK, Time, Stamps
<1>2. g \in Int /\ t \in Int
  BY GrantType, SettingsType DEF TypeOK, Claim
<1>3. e \in Stamps
  BY <1>1, <1>2, ExpiryType
<1>4. last + 1 \in 1..MaxInst /\ last + 1 \in 0..MaxInst
  BY NumbersAssumption DEF TypeOK, Bind
<1>5. /\ Resolved \in Claim /\ Resolved.ttl = g /\ Resolved.phase = ccache.phase
  BY ResolvedFields DEF TypeOK
<1>6. PICK warm \in {pooled, FALSE} :
       /\ inst' = [NoInst EXCEPT
            !.id = last + 1, !.own = ~warm, !.at = now, !.won = now,
            !.ttl = IF warm THEN t ELSE g, !.exp = IF warm THEN None ELSE e,
            !.ready = IF warm THEN "True" ELSE "Unset",
            !.since = IF warm THEN now ELSE None]
       /\ engine' = IF warm THEN "ready" ELSE "progressing"
  BY <1>5 DEF Bind
<1>7. warm \in BOOLEAN
  BY DEF TypeOK
<1>. HIDE DEF g, t, e
<1>8. /\ inst' \in Instance /\ inst'.id = last + 1 /\ inst'.at = now /\ inst'.won = now
      /\ ~inst'.failed /\ inst'.ready # "False"
      /\ (inst'.own /\ inst'.exp = e) \/ (~inst'.own /\ inst'.exp = None)
  <2>1. CASE warm = TRUE
    BY <1>1, <1>2, <1>4, <1>6, <2>1 DEF NoInst, Instance
  <2>2. CASE warm = FALSE
    BY <1>1, <1>2, <1>3, <1>4, <1>6, <2>2 DEF NoInst, Instance
  <2>. QED
    BY <1>7, <2>1, <2>2
<1>9. engine' \in {"ready", "progressing"}
  BY <1>6
<1>10. promise' = IF g <= 0 THEN MaxNow + 1 ELSE now + g
  BY <1>5 DEF Bind
<1>. DEFINE s == [Resolved EXCEPT !.boundAt = now]
<1>11. /\ s \in Claim /\ s.phase = ccache.phase /\ s.boundAt = now
       /\ s.ttl = Resolved.ttl /\ s.max = Resolved.max /\ s.gen = Resolved.gen
       /\ s.want = Resolved.want
  BY <1>1, <1>5 DEF Claim
<1>12. Step("serve", s, last + 1, "none")
  BY DEF Bind
<1>13. pass \in Pass /\ ccache \in Claim
  BY DEF TypeOK
<1>. HIDE DEF s
<1>14. pass'.st = s /\ Moves("serve", s.phase, last + 1, "none")
  BY <1>4, <1>11, <1>12, <1>13, StepFields DEF PCs, Notes
<1>. QED
  BY <1>4, <1>8, <1>9, <1>10, <1>11, <1>14 DEF Keeps, g, e

(* What syncInstance writes. *)
LEMMA DesiredFields ==
  ASSUME pass \in Pass, NEW i \in Instance
  PROVE  /\ Desired(i) \in Instance /\ Desired(i).id = i.id /\ Desired(i).own
         /\ Desired(i).ttl = pass.st.ttl /\ Desired(i).exp = pass.st.expiresAt
         /\ Desired(i).failed = i.failed /\ Desired(i).ready = i.ready
         /\ Desired(i).since = i.since /\ Desired(i).won = i.won
         /\ Desired(i).at = IF i.at = None THEN pass.st.boundAt ELSE i.at
<1>. DEFINE j == stampBoundAt(i, pass.st.boundAt)
<1>1. /\ j \in Instance /\ j.id = i.id /\ j.failed = i.failed /\ j.ready = i.ready
      /\ j.since = i.since /\ j.won = i.won
      /\ j.at = IF i.at = None THEN pass.st.boundAt ELSE i.at
  BY DEF stampBoundAt, Instance, Pass, Claim
<1>2. Desired(i) = [j EXCEPT !.own = TRUE, !.ttl = pass.st.ttl, !.exp = pass.st.expiresAt]
  BY DEF Desired
<1>. HIDE DEF j
<1>3. pass.st.ttl \in Int /\ pass.st.expiresAt \in Stamps
  BY DEF Pass, Claim
<1>. QED
  BY <1>1, <1>2, <1>3 DEF Instance

(* The beginnings of a pass on the claim, and what they find. *)
LEMMA FoundType ==
  ASSUME TypeOK
  PROVE  boundInstance \in Instance /\ boundInstance.id \in 0..MaxInst
BY DEF TypeOK, boundInstance, Instance

LEMMA RefuseFields ==
  ASSUME TypeOK, Refuse
  PROVE  \/ /\ Moves("release", "Rejected", boundInstance.id, "none") /\ Keeps(ccache)
            /\ pass'.st.boundAt = ccache.boundAt
         \/ /\ Moves("release", "Rejected", 0, "none") /\ Keeps(Resolved)
            /\ boundInstance.id = 0 /\ pass'.st.boundAt = ccache.boundAt
<1>1. pass \in Pass /\ ccache \in Claim /\ tmpl \in Templates /\ 0 \in 0..MaxInst
  BY NumbersAssumption DEF TypeOK
<1>2. Resolved \in Claim /\ Resolved.boundAt = ccache.boundAt
  BY <1>1, ResolvedFields
<1>3. CASE reject(ccache, boundInstance.id, "none")
  BY <1>1, <1>3, FoundType, RejectFields DEF Notes
<1>4. CASE boundInstance.id = 0 /\ reject(Resolved, 0, "none")
  BY <1>1, <1>2, <1>4, RejectFields DEF Notes
<1>. QED
  BY <1>3, <1>4 DEF Refuse

LEMMA LapseFields ==
  ASSUME TypeOK, Lapse
  PROVE  /\ Moves("release", "Expired", boundInstance.id, "none") /\ Keeps(Resolved)
         /\ pass'.st.boundAt = ccache.boundAt /\ pass'.st.expiresAt = ccache.expiresAt
<1>1. pass \in Pass /\ ccache \in Claim /\ tmpl \in Templates
  BY DEF TypeOK
<1>2. /\ Resolved \in Claim /\ Resolved.boundAt = ccache.boundAt
      /\ Resolved.expiresAt = ccache.expiresAt
  BY <1>1, ResolvedFields
<1>. QED
  BY <1>1, <1>2, FoundType, ExpireFields DEF Lapse

LEMMA HoldingFields ==
  ASSUME TypeOK, Park
  PROVE  /\ Moves("patch", "Pending", 0, "none") /\ Keeps(Resolved)
         /\ pass'.st.boundAt = ccache.boundAt
<1>1. pass \in Pass /\ ccache \in Claim /\ tmpl \in Templates /\ 0 \in 0..MaxInst
  BY NumbersAssumption DEF TypeOK
<1>2. Resolved \in Claim /\ Resolved.boundAt = ccache.boundAt
  BY <1>1, ResolvedFields
<1>. QED
  BY <1>1, <1>2, ParkFields DEF Park, PCs

LEMMA ObserveFields ==
  ASSUME TypeOK, ObserveTerminal
  PROVE  \/ pass' = pass
         \/ /\ Moves("patch", ccache.phase, 0, "none") /\ pass'.st = ccache
            /\ ccache.phase = "Expired"
<1>1. pass \in Pass /\ ccache \in Claim /\ 0 \in 0..MaxInst
  BY NumbersAssumption DEF TypeOK
<1>. QED
  BY <1>1, StepFields DEF ObserveTerminal, Terminal, PCs, Notes

-----------------------------------------------------------------------------
(* Types. *)

LEMMA DueType ==
  ASSUME now \in Nat, NEW due \in Stamps, NEW t \in Stamps
  PROVE  AddAfter(due, t) \in Stamps /\ Dequeued(due) \in Stamps /\ now + 1 \in Stamps
BY DEF AddAfter, Dequeued, Stamps, None

LEMMA RequeueType ==
  ASSUME now \in Nat, NEW p \in Pass
  PROVE  RequeueAt(p) \in Stamps
<1>1. p.st.phase \in Phases /\ p.st.expiresAt \in Stamps
  BY DEF Pass, Claim
<1>2. now + 1 \in Stamps /\ None \in Stamps
  BY DEF Stamps
<1>. QED
  BY <1>1, <1>2 DEF RequeueAt, Phases

(* The changes of the spec: an extension, or an edit by hand. *)
LEMMA WantFields ==
  ASSUME claim \in Claim, NEW w \in Int,
         NEW c, c = [claim EXCEPT !.want = w, !.gen = @ + 1]
  PROVE  /\ c \in Claim /\ c.want = w /\ c.gen = claim.gen + 1
         /\ c.obs = claim.obs /\ c.phase = claim.phase /\ c.boundAt = claim.boundAt
         /\ c.expiresAt = claim.expiresAt /\ c.ttl = claim.ttl /\ c.max = claim.max
<1>. DEFINE g == claim.gen + 1
<1>1. g \in Nat
  BY DEF Claim
<1>2. c = [claim EXCEPT !.want = w, !.gen = g]
  BY DEF Claim
<1>. HIDE DEF g
<1>3. c \in Claim /\ c.want = w /\ c.gen = g
  BY <1>1, <1>2 DEF Claim
<1>4. /\ c.obs = claim.obs /\ c.phase = claim.phase /\ c.boundAt = claim.boundAt
      /\ c.expiresAt = claim.expiresAt /\ c.ttl = claim.ttl /\ c.max = claim.max
  BY <1>2 DEF Claim
<1>. QED
  BY <1>3, <1>4 DEF g

LEMMA AskFields ==
  ASSUME TypeOK, NEW rest \in BOOLEAN, AskExtend(rest)
  PROVE  req' \in Request /\ req'.on /\ req'.read = claim.want
<1>. DEFINE d == IF rest THEN First(tmpl.extend, ApiStep) ELSE ApiStep
<1>1. d \in Int
  BY SettingsType, NumbersAssumption DEF TypeOK
<1>2. claim.ttl \in Int /\ claim.max \in Int /\ claim.want \in Int
  BY DEF TypeOK, Claim
<1>3. req' = [on |-> TRUE, rest |-> rest, read |-> claim.want, wanted |-> Raised(rest, d)]
  BY DEF AskExtend
<1>. HIDE DEF d
<1>4. Raised(rest, d) \in Int
  BY <1>1, <1>2 DEF Raised
<1>. QED
  BY <1>2, <1>3, <1>4 DEF Request

LEMMA TypeInit == Init => TypeOK
<1>. SUFFICES ASSUME Init PROVE TypeOK
  OBVIOUS
<1>1. claim \in Claim /\ ccache \in Claim
  BY NewClaimType, SettingsAssumption DEF Init
<1>2. 0 \in 0..MaxInst /\ 0 \in 0..MaxFaults /\ now \in Time
  BY NumbersAssumption DEF Init, Time
<1>3. 0 \in Int /\ 0 \in Nat
  OBVIOUS
<1>. QED
  BY <1>1, <1>2, <1>3, NoPassType DEF Init, TypeOK, Engines, Stamps

LEMMA TypeStep == TypeOK /\ [Next]_vars => TypeOK'
<1>. SUFFICES ASSUME TypeOK, [Next]_vars PROVE TypeOK'
  OBVIOUS
<1>1. /\ now \in Nat /\ pass \in Pass /\ claim \in Claim /\ ccache \in Claim
      /\ inst \in Instance /\ icache \in Instance /\ tmpl \in Templates
      /\ ct \in Stamps /\ it \in Stamps /\ last \in 0..MaxInst /\ promise \in Int
      /\ req \in Request /\ TypeOK
  BY NumbersAssumption DEF TypeOK, Time
<1>. USE DEF settings, objects, caches, queues, history
<1>2. ASSUME Began PROVE cq' \in BOOLEAN /\ ct' \in Stamps
  BY <1>1, <1>2, DueType DEF Began
<1>3. CASE UNCHANGED vars
  BY <1>3 DEF TypeOK, vars
<1>4. CASE SyncClaim
  BY <1>4 DEF SyncClaim, TypeOK
<1>5. CASE SyncInst
  BY <1>5 DEF SyncInst, TypeOK
<1>6. CASE ObserveTerminal
  <2>1. pass' \in Pass
    BY <1>1, <1>6, ObserveFields DEF Moves
  <2>. QED
    BY <1>2, <1>6, <2>1 DEF ObserveTerminal, TypeOK
<1>7. CASE Refuse
  <2>1. pass' \in Pass
    BY <1>1, <1>7, RefuseFields DEF Moves
  <2>. QED
    BY <1>2, <1>7, <2>1 DEF Refuse, TypeOK
<1>8. CASE Lapse
  <2>1. pass' \in Pass
    BY <1>1, <1>8, LapseFields DEF Moves
  <2>. QED
    BY <1>2, <1>8, <2>1 DEF Lapse, TypeOK
<1>9. CASE Reconcile
  <2>1. pass' \in Pass
    BY <1>1, <1>9, FoundType, ResolvedFields, DecideFields DEF Reconcile, Moves
  <2>. QED
    BY <1>2, <1>9, <2>1 DEF Reconcile, TypeOK
<1>10. CASE Park
  <2>1. pass' \in Pass
    BY <1>1, <1>10, HoldingFields DEF Moves
  <2>. QED
    BY <1>2, <1>10, <2>1 DEF Park, TypeOK
<1>11. CASE Bind
  <2>1. /\ pass' \in Pass /\ inst' \in Instance /\ engine' \in Engines
    BY <1>1, <1>11, BindFields DEF Moves, Engines
  <2>2. promise' \in Int
    BY <1>1, <1>11, BindFields, GrantType, NumbersAssumption DEF Claim
  <2>3. last' \in 0..MaxInst
    BY <1>1, <1>11, NumbersAssumption DEF Bind
  <2>. QED
    BY <1>2, <1>11, <2>1, <2>2, <2>3 DEF Bind, TypeOK
<1>12. CASE Serve
  <2>1. [NoInst EXCEPT !.id = pass.id] \in Instance
    BY <1>1, NoPassType DEF Instance, Pass
  <2>2. pass.st \in Claim
    BY <1>1 DEF Pass
  <2>3. pass' \in Pass
    BY <1>1, <1>12, <2>1, <2>2, DecideFields DEF Serve, Moves
  <2>. QED
    BY <1>12, <2>3 DEF Serve, TypeOK
<1>13. CASE syncInstance
  <2>1. /\ [pass EXCEPT !.pc = "patch"] \in Pass /\ NoPass \in Pass
        /\ Desired(inst) \in Instance
    BY <1>1, NoPassType, DesiredFields DEF Pass, PCs
  <2>2. /\ pass' \in Pass /\ inst' \in Instance /\ cq' \in BOOLEAN
    BY <1>13, <2>1 DEF syncInstance, TypeOK
  <2>. QED
    BY <1>13, <2>2 DEF syncInstance, TypeOK
<1>14. CASE Release
  <2>1. [pass EXCEPT !.pc = "patch"] \in Pass
    BY <1>1 DEF Pass, PCs
  <2>2. inst' \in Instance /\ lapsed' \in BOOLEAN
    BY <1>1, <1>14, NoPassType DEF Release
  <2>. QED
    BY <1>14, <2>1, <2>2 DEF Release, TypeOK
<1>15. CASE patchStatus
  <2>1. claim' \in Claim /\ pass' \in Pass
    BY <1>1, <1>15, PatchedFields, NoPassType DEF patchStatus
  <2>2. ct' \in Stamps
    BY <1>1, <1>15, RequeueType, DueType DEF patchStatus
  <2>3. lapsed' \in BOOLEAN
    BY <1>15 DEF patchStatus
  <2>. QED
    BY <1>15, <2>1, <2>2, <2>3 DEF patchStatus, TypeOK
<1>16. CASE InstancePass
  <2>1. inst' \in Instance /\ lapsed' \in BOOLEAN
    BY <1>1, <1>16, NoPassType, Merged DEF InstancePass, applyTTL, ReportStatus, TypeOK
  <2>2. Deadline(icache) \in Stamps
    BY <1>1 DEF Deadline, Instance, Stamps
  <2>3. Dequeued(it) \in Stamps /\ now + 1 \in Stamps
    BY <1>1, DueType
  <2>4. it' \in {Dequeued(it), AddAfter(Dequeued(it), Deadline(icache)),
                 AddAfter(Dequeued(it), now + 1)}
    BY <1>16 DEF InstancePass, applyTTL, ReportStatus
  <2>5. it' \in Stamps
    BY <1>1, <2>2, <2>3, <2>4, DueType
  <2>. QED
    BY <1>16, <2>1, <2>5 DEF InstancePass, TypeOK
<1>17. ASSUME NEW rest \in BOOLEAN, AskExtend(rest) PROVE TypeOK'
  BY <1>17, AskFields DEF AskExtend, TypeOK
<1>18. CASE PatchExtend
  <2>1. claim' \in Claim
    BY <1>1, <1>18, WantFields DEF PatchExtend, Request
  <2>2. claim.boundAt \in Int /\ req.wanted \in Int
    BY <1>1 DEF Claim, Request, Stamps, None
  <2>3. promise' \in Int
    BY <1>1, <1>18, <2>2 DEF PatchExtend, Answer
  <2>. QED
    BY <1>18, <2>1, <2>3, NoPassType DEF PatchExtend, TypeOK, NoReq
<1>19. ASSUME NEW w \in Wants, EditWant(w) PROVE TypeOK'
  <2>1. claim' \in Claim
    BY <1>1, <1>19, WantFields, SettingsAssumption DEF EditWant
  <2>. QED
    BY <1>19, <2>1 DEF EditWant, TypeOK
<1>20. ASSUME NEW t \in Templates, EditTemplate(t) PROVE TypeOK'
  BY <1>20 DEF EditTemplate, TypeOK
<1>21. ASSUME NEW e \in Engines, EngineMoves(e) PROVE TypeOK'
  <2>1. iq' \in BOOLEAN
    BY <1>21 DEF EngineMoves
  <2>. QED
    BY <1>21, <2>1 DEF EngineMoves, TypeOK
<1>22. CASE LoseInstance
  BY <1>22, NoPassType DEF LoseInstance, TypeOK
<1>23. CASE Crash
  <2>1. faults' \in 0..MaxFaults
    BY <1>1, <1>23, NumbersAssumption DEF Crash, TypeOK
  <2>. QED
    BY <1>23, <2>1, NoPassType DEF Crash, TypeOK, Stamps
<1>24. CASE CallFails
  <2>1. faults' \in 0..MaxFaults
    BY <1>1, <1>24, NumbersAssumption DEF CallFails, TypeOK
  <2>. QED
    BY <1>24, <2>1, NoPassType DEF CallFails, TypeOK
<1>25. CASE Tick
  <2>1. now' \in Time /\ bad' \in Nat
    BY <1>1, <1>25, NumbersAssumption DEF Tick, TypeOK, Time
  <2>. QED
    BY <1>25, <2>1 DEF Tick, TypeOK
<1>. QED
  BY <1>3, <1>4, <1>5, <1>6, <1>7, <1>8, <1>9, <1>10, <1>11, <1>12, <1>13, <1>14, <1>15,
     <1>16, <1>17, <1>18, <1>19, <1>20, <1>21, <1>22, <1>23, <1>24, <1>25
  DEF Next, ClaimPass, Environment

(* Types, through every action and for every setting the CRDs admit, negative *)
(* ones and a spec.ttlSeconds of any sign included: a deadline that is        *)
(* recorded, in the claim, on the instance, in a copy, a pass or a queue, is  *)
(* a time.                                                                    *)
THEOREM TypeCorrect == Spec => []TypeOK
BY TypeInit, TypeStep, PTL DEF Spec

-----------------------------------------------------------------------------
(* The ceiling. *)

(* No anchor, in the claim or its copy, in the pass under way, on the         *)
(* instance or its copy, is later than the moment the live instance was       *)
(* really bound; the instance's own says exactly that moment.                 *)
AnchorsBeforeBinding ==
  /\ claim.boundAt <= now /\ ccache.boundAt <= now /\ pass.st.boundAt <= now
  /\ inst.at <= now /\ icache.at <= now
  /\ inst.id # 0 =>
       /\ claim.boundAt <= inst.won /\ ccache.boundAt <= inst.won
       /\ pass.st.boundAt <= inst.won /\ icache.at <= inst.won
       /\ inst.at = inst.won

(* Every instance of a claim has an anchor. *)
Anchored ==
  /\ inst.id = 0 => inst = NoInst
  /\ inst.id # 0 => inst.at # None
  /\ icache.id # 0 => icache.at # None

(* A lifetime some template in play allows. *)
Capped(ttl) ==
  (\A t \in InPlay : Bounded(t)) => ttl > 0 /\ \E t \in InPlay : ttl <= Ceiling(t)

(* A pass about to write the deadline of an instance has an anchor, a         *)
(* lifetime within the ceiling and the deadline they make.                    *)
Serving ==
  /\ pass.pc \in {"serve", "sync"} =>
       pass.id # 0 /\ pass.st.boundAt # None /\ Capped(pass.st.ttl)
  /\ pass.pc = "sync" => pass.st.expiresAt = expiryFrom(pass.st.boundAt, pass.st.ttl)

CeilingInv == AnchorsBeforeBinding /\ Anchored /\ Serving /\ LifetimeWithinCeiling

(* What is granted is within the ceiling of the template of the moment. *)
LEMMA GrantIsCapped ==
  ASSUME tmpl \in Templates, NEW w \in Int
  PROVE  Capped(resolveClaimTTL(w))
<1>. SUFFICES ASSUME \A t \in InPlay : Bounded(t)
              PROVE  /\ resolveClaimTTL(w) > 0
                     /\ \E t \in InPlay : resolveClaimTTL(w) <= Ceiling(t)
  BY DEF Capped
<1>1. tmpl \in InPlay
  BY DEF InPlay
<1>2. Bounded(tmpl)
  BY <1>1
<1>3. resolveInstanceTTL > 0 /\ First(tmpl.max, Resolve.max) > 0
  BY <1>2, Settings DEF Bounded
<1>4. maxLifetime = Ceiling(tmpl)
  BY <1>3, Settings, SettingsType DEF maxLifetime, Ceiling, Unlimited
<1>5. maxLifetime > 0
  <2>1. Sensible(tmpl)
    BY <1>2 DEF Bounded
  <2>2. First(tmpl.max, Resolve.max) * First(tmpl.extend, Resolve.extend) >= 0
    BY <1>3, <2>1, Settings, SettingsType, Product DEF Sensible
  <2>. QED
    BY <1>3, <2>2, SettingsType, Product DEF maxLifetime, Unlimited
<1>. QED
  BY <1>1, <1>3, <1>4, <1>5, GrantType

(* A deadline made of an anchor and a lifetime within the ceiling. *)
LEMMA DeadlineIsCapped ==
  ASSUME NEW at \in Nat, NEW won \in Int, at <= won, NEW ttl \in Int, Capped(ttl),
         tmpl \in Templates, \A t \in InPlay : Bounded(t)
  PROVE  /\ expiryFrom(at, ttl) # None
         /\ \E t \in InPlay : expiryFrom(at, ttl) <= won + Ceiling(t)
<1>1. PICK t \in InPlay : ttl > 0 /\ ttl <= Ceiling(t)
  BY DEF Capped
<1>2. t \in Templates
  BY DEF InPlay
<1>3. InForce(t, "seconds") \in Int /\ InForce(t, "max") \in Int /\ InForce(t, "extend") \in Int
  BY <1>2, SettingsAssumption DEF InForce, TTLSpec, Defaults
<1>4. InForce(t, "max") > 0
  BY DEF Bounded
<1>5. InForce(t, "max") * InForce(t, "extend") \in Int
  BY <1>3, <1>4, Product
<1>6. Ceiling(t) \in Int
  BY <1>3, <1>5 DEF Ceiling
<1>. QED
  BY <1>1, <1>6 DEF expiryFrom, None

(* The templates in play are settled at the start. *)
LEMMA SamePlay ==
  ASSUME [Next]_vars
  PROVE  InPlay' = InPlay /\ env' = env /\ (tmpl' = tmpl \/ "template" \in env)
<1>1. env' = env /\ (tmpl' = tmpl \/ "template" \in env)
  BY DEF Next, ClaimPass, Environment, vars, settings, SyncClaim, SyncInst, ObserveTerminal,
     Refuse, Lapse, Reconcile, Park, Bind, Serve, syncInstance, Release, patchStatus,
     InstancePass, AskExtend, PatchExtend, EditWant, EditTemplate, EngineMoves, LoseInstance,
     Crash, CallFails, Tick
<1>. QED
  BY <1>1 DEF InPlay

(* An instance that stays as it is, or is gone, stays within its ceiling. *)
LEMMA StillCapped ==
  ASSUME LifetimeWithinCeiling, InPlay' = InPlay,
         \/ inst' = NoInst
         \/ inst'.own = inst.own /\ inst'.exp = inst.exp /\ inst'.won = inst.won
  PROVE  LifetimeWithinCeiling'
<1>1. CASE inst' = NoInst
  BY <1>1 DEF LifetimeWithinCeiling, NoInst
<1>2. CASE inst'.own = inst.own /\ inst'.exp = inst.exp /\ inst'.won = inst.won
  BY <1>2, Zenon DEF LifetimeWithinCeiling
<1>. QED
  BY <1>1, <1>2

(* A pass that goes on, ends or fails without touching anchor or lifetime. *)
LEMMA StillServing ==
  ASSUME Serving, InPlay' = InPlay,
         \/ pass'.pc \notin {"serve", "sync"}
         \/ pass' = pass
  PROVE  Serving'
BY DEF Serving, Capped

(* The steps of a pass on the claim that leave the objects alone. *)
LEMMA DecideCeiling ==
  ASSUME TypeOK, CeilingInv, InPlay' = InPlay, NEW st \in Claim, NEW i \in Instance, 
         Decide(st, i), i.id # 0, Capped(st.ttl), UNCHANGED <<now, claim, inst, caches>>,
         st.boundAt <= now, i.at <= now, Anchor(st, i) # None,
         inst.id # 0 => st.boundAt <= inst.won /\ i.at <= inst.won
  PROVE  CeilingInv'
<1>1. TypeOK /\ now \in Nat /\ inst.won \in Int
  BY NumbersAssumption DEF TypeOK, Time, Instance, Stamps, None
<1>2. st.boundAt \in Int /\ i.at \in Int
  BY DEF Claim, Instance, Stamps, None
<1>. DEFINE a == Anchor(st, i)
<1>3. a \in Int /\ a <= now /\ (inst.id # 0 => a <= inst.won) /\ a # None
  BY <1>2 DEF Anchor
<1>. HIDE DEF a
<1>4. \/ /\ pass'.pc = "sync" /\ pass'.id = i.id /\ pass'.st.boundAt = a
         /\ pass'.st.expiresAt = expiryFrom(a, st.ttl)
      \/ pass'.pc = "release" /\ pass'.st.boundAt \in {a, None}
  BY <1>1, DecideFields DEF Moves, Deadlined, a
<1>5. pass'.st.ttl = st.ttl
  BY <1>1, DecideFields DEF Keeps
<1>6. inst.id # 0 => inst.at = inst.won /\ inst.at # None
  BY DEF CeilingInv, AnchorsBeforeBinding, Anchored
<1>7. pass'.st.boundAt <= now' /\ (inst'.id # 0 => pass'.st.boundAt <= inst'.won)
  BY <1>1, <1>3, <1>4, <1>6 DEF TypeOK, Instance, Stamps, None
<1>8. AnchorsBeforeBinding' /\ Anchored'
  BY <1>7 DEF CeilingInv, AnchorsBeforeBinding, Anchored, caches
<1>9. Serving'
  BY <1>3, <1>4, <1>5 DEF Serving, Capped
<1>. QED
  BY <1>8, <1>9, StillCapped DEF CeilingInv

(* The steps that leave the anchors, the instance and the pass alone. *)
Aside ==
  /\ claim'.boundAt = claim.boundAt /\ now' >= now
  /\ UNCHANGED <<ccache, inst, icache, pass>>

LEMMA AsideSteps ==
  ASSUME TypeOK,
         \/ UNCHANGED vars
         \/ (\E rest \in BOOLEAN : AskExtend(rest)) \/ PatchExtend
         \/ (\E w \in Wants : EditWant(w)) \/ (\E t \in Templates : EditTemplate(t))
         \/ (\E e \in Engines : EngineMoves(e)) \/ Tick
  PROVE  Aside
<1>1. claim \in Claim /\ now \in Nat
  BY NumbersAssumption DEF TypeOK, Time
<1>3. CASE PatchExtend
  <2>1. claim'.boundAt = claim.boundAt
    BY <1>1, <1>3, WantFields DEF PatchExtend, TypeOK, Request
  <2>. QED
    BY <1>1, <1>3, <2>1 DEF PatchExtend, Aside, caches
<1>4. ASSUME NEW w \in Wants, EditWant(w) PROVE Aside
  <2>1. claim'.boundAt = claim.boundAt
    <3>1. w \in Int /\ claim' = [claim EXCEPT !.want = w, !.gen = @ + 1]
      BY <1>4, SettingsAssumption DEF EditWant
    <3>. QED
      BY <1>1, <3>1, WantFields
  <2>2. now' = now /\ UNCHANGED <<ccache, inst, icache, pass>>
    BY <1>4 DEF EditWant, caches
  <2>. QED
    BY <1>1, <2>1, <2>2 DEF Aside
<1>. QED
  BY <1>1, <1>3, <1>4
  DEF Aside, vars, caches, objects, settings, AskExtend, EditTemplate, EngineMoves, Tick

LEMMA CeilingInit == TypeOK /\ Init => CeilingInv
BY NewClaimType
DEF Init, CeilingInv, AnchorsBeforeBinding, Anchored, Serving, LifetimeWithinCeiling,
    NewClaim, NoInst, NoPass, None

LEMMA CeilingStep == TypeOK /\ CeilingInv /\ [Next]_vars => CeilingInv'
<1>. SUFFICES ASSUME TypeOK, CeilingInv, [Next]_vars PROVE CeilingInv'
  OBVIOUS
<1>1. InPlay' = InPlay
  BY SamePlay
<1>2. /\ TypeOK /\ now \in Nat /\ pass \in Pass /\ claim \in Claim /\ ccache \in Claim
      /\ inst \in Instance /\ icache \in Instance /\ tmpl \in Templates /\ last \in Nat
  BY NumbersAssumption DEF TypeOK, Time
<1>3. /\ claim.boundAt \in Int /\ ccache.boundAt \in Int /\ pass.st.boundAt \in Int
      /\ inst.at \in Int /\ icache.at \in Int /\ inst.won \in Int
      /\ claim.boundAt >= -1 /\ ccache.boundAt >= -1 /\ pass.st.boundAt >= -1
      /\ inst.at >= -1 /\ icache.at >= -1 /\ inst.won >= -1
  BY <1>2 DEF Claim, Instance, Pass, Stamps, None
<1>4. /\ AnchorsBeforeBinding /\ Anchored /\ Serving /\ LifetimeWithinCeiling
  BY DEF CeilingInv
<1>5. NoPass.st.boundAt = -1 /\ NoPass.pc = "idle" /\ NoInst.at = -1 /\ NoInst.id = 0
  BY DEF NoPass, NewClaim, NoInst, None
<1>6. CASE Aside
  <2>1. AnchorsBeforeBinding' /\ Anchored'
    <3>1. now' \in Int
      BY <1>2, NumbersAssumption, TypeStep DEF TypeOK, Time
    <3>. QED
      BY <1>3, <1>4, <1>6, <3>1, <1>2 DEF Aside, AnchorsBeforeBinding, Anchored
  <2>. QED
    BY <1>1, <1>4, <1>6, <2>1, StillCapped, StillServing DEF CeilingInv, Aside
<1>7. CASE SyncClaim \/ SyncInst \/ Crash
  <2>1. /\ now' = now /\ claim' = claim /\ inst' = inst /\ pass' \in {pass, NoPass}
        /\ ccache' \in {ccache, claim} /\ icache' \in {icache, inst}
    BY <1>7 DEF SyncClaim, SyncInst, Crash, objects
  <2>2. AnchorsBeforeBinding' /\ Anchored'
    BY <1>2, <1>3, <1>4, <1>5, <2>1 DEF AnchorsBeforeBinding, Anchored
  <2>. QED
    BY <1>1, <1>4, <1>5, <2>1, <2>2, StillCapped, StillServing DEF CeilingInv
<1>8. CASE ObserveTerminal \/ Refuse \/ Lapse \/ Park
  <2>1. now' = now /\ claim' = claim /\ inst' = inst /\ ccache' = ccache /\ icache' = icache
    BY <1>8 DEF ObserveTerminal, Refuse, Lapse, Park, objects, caches
  <2>2. \/ pass' = pass
        \/ pass'.pc \in {"release", "patch"} /\ pass'.st.boundAt = ccache.boundAt
    BY <1>2, <1>8, ObserveFields, RefuseFields, LapseFields, HoldingFields DEF Moves
  <2>3. AnchorsBeforeBinding' /\ Anchored'
    BY <1>3, <1>4, <2>1, <2>2 DEF AnchorsBeforeBinding, Anchored
  <2>. QED
    BY <1>1, <1>4, <2>1, <2>2, <2>3, StillCapped, StillServing DEF CeilingInv
<1>9. CASE Reconcile
  <2>1. /\ Decide(Resolved, boundInstance) /\ boundInstance.id # 0
        /\ UNCHANGED <<now, claim, inst, caches>>
    BY <1>9 DEF Reconcile, objects
  <2>2. boundInstance \in {icache, inst} /\ boundInstance.at # None
    BY <1>4, <2>1 DEF boundInstance, Anchored
  <2>3. Resolved \in Claim /\ Resolved.boundAt = ccache.boundAt /\ Capped(Resolved.ttl)
    BY <1>2, ResolvedFields, GrantIsCapped DEF Claim
  <2>4. Anchor(Resolved, boundInstance) # None
    BY <2>2 DEF Anchor
  <2>5. /\ Resolved.boundAt <= now /\ boundInstance.at <= now
        /\ inst.id # 0 => Resolved.boundAt <= inst.won /\ boundInstance.at <= inst.won
    BY <1>3, <1>4, <2>2, <2>3 DEF AnchorsBeforeBinding
  <2>. QED
    BY <1>1, <1>2, <2>1, <2>2, <2>3, <2>4, <2>5, DecideCeiling
<1>10. CASE Serve
  <2>. DEFINE i == [NoInst EXCEPT !.id = pass.id]
  <2>1. i \in Instance /\ i.id = pass.id /\ i.at = -1
    BY <1>2, NoPassType DEF Instance, Pass, NoInst, None
  <2>2. /\ pass.st \in Claim /\ pass.id # 0 /\ pass.st.boundAt # None /\ Capped(pass.st.ttl)
    BY <1>2, <1>4, <1>10 DEF Serve, Serving, Pass
  <2>3. Decide(pass.st, i) /\ UNCHANGED <<now, claim, inst, caches>>
    BY <1>10 DEF Serve, objects
  <2>. HIDE DEF i
  <2>4. Anchor(pass.st, i) # None
    BY <2>2 DEF Anchor
  <2>5. /\ pass.st.boundAt <= now /\ i.at <= now
        /\ inst.id # 0 => pass.st.boundAt <= inst.won /\ i.at <= inst.won
    BY <1>2, <1>3, <1>4, <2>1 DEF AnchorsBeforeBinding
  <2>. QED
    BY <1>1, <2>1, <2>2, <2>3, <2>4, <2>5, DecideCeiling
<1>11. CASE Bind
  <2>1. /\ inst'.id = last + 1 /\ inst'.at = now /\ inst'.won = now /\ last + 1 # 0
        /\ pass'.pc = "serve" /\ pass'.id = last + 1 /\ pass'.st.boundAt = now
        /\ pass'.st.ttl = resolveClaimTTL(ccache.want)
    BY <1>2, <1>11, BindFields, ResolvedFields DEF Moves, Keeps
  <2>2. now' = now /\ claim' = claim /\ ccache' = ccache /\ icache' = icache
    BY <1>11 DEF Bind, caches
  <2>3. AnchorsBeforeBinding' /\ Anchored'
    BY <1>2, <1>3, <1>4, <2>1, <2>2 DEF AnchorsBeforeBinding, Anchored, None
  <2>4. Capped(resolveClaimTTL(ccache.want))
    BY <1>2, GrantIsCapped DEF Claim
  <2>5. Serving'
    BY <1>1, <1>2, <2>1, <2>4 DEF Serving, Capped, None
  <2>6. LifetimeWithinCeiling'
    <3>1. \/ ~inst'.own
          \/ inst'.exp = expiryFrom(now, resolveClaimTTL(ccache.want))
      BY <1>2, <1>11, BindFields
    <3>2. resolveClaimTTL(ccache.want) \in Int
      BY <1>2, GrantType DEF Claim
    <3>3. ASSUME \A t \in InPlay : Bounded(t), inst'.own
          PROVE  inst'.exp # None /\ \E t \in InPlay : inst'.exp <= inst'.won + Ceiling(t)
      BY <1>2, <2>1, <2>4, <3>1, <3>2, <3>3, DeadlineIsCapped
    <3>. QED
      BY <1>1, <3>3 DEF LifetimeWithinCeiling
  <2>. QED
    BY <2>3, <2>5, <2>6 DEF CeilingInv
<1>12. CASE syncInstance
  <2>1. now' = now /\ claim' = claim /\ ccache' = ccache /\ icache' = icache
    BY <1>12 DEF syncInstance, caches
  <2>2. /\ pass'.pc \notin {"serve", "sync"} /\ pass'.st.boundAt \in {-1, pass.st.boundAt}
    BY <1>2, <1>5, <1>12 DEF syncInstance, Pass
  <2>3. \/ inst' = inst
        \/ inst' = Desired(inst) /\ inst.id = pass.id
    BY <1>12 DEF syncInstance
  <2>4. CASE inst' = inst
    <3>1. AnchorsBeforeBinding' /\ Anchored'
      BY <1>2, <1>3, <1>4, <2>1, <2>2, <2>4 DEF AnchorsBeforeBinding, Anchored
    <3>. QED
      BY <1>1, <1>4, <2>2, <2>4, <3>1, StillCapped, StillServing DEF CeilingInv
  <2>5. CASE inst' = Desired(inst) /\ inst.id = pass.id
    <3>1. /\ pass.id # 0 /\ pass.st.boundAt # None /\ Capped(pass.st.ttl)
          /\ pass.st.expiresAt = expiryFrom(pass.st.boundAt, pass.st.ttl)
      BY <1>4, <1>12 DEF Serving, syncInstance
    <3>2. inst.at # None /\ inst.at = inst.won /\ pass.st.boundAt <= inst.won
      BY <1>4, <2>5, <3>1 DEF Anchored, AnchorsBeforeBinding
    <3>3. /\ inst'.id = inst.id /\ inst'.at = inst.at /\ inst'.won = inst.won
          /\ inst'.exp = pass.st.expiresAt
      BY <1>2, <2>5, <3>2, DesiredFields
    <3>4. AnchorsBeforeBinding' /\ Anchored'
      BY <1>2, <1>3, <1>4, <2>1, <2>2, <2>5, <3>1, <3>2, <3>3
      DEF AnchorsBeforeBinding, Anchored
    <3>5. pass.st.boundAt \in Nat /\ pass.st.ttl \in Int
      BY <1>2, <3>1 DEF Pass, Claim, Stamps
    <3>6. ASSUME \A t \in InPlay : Bounded(t)
          PROVE  inst'.exp # None /\ \E t \in InPlay : inst'.exp <= inst'.won + Ceiling(t)
      BY <1>2, <1>3, <3>1, <3>2, <3>3, <3>5, <3>6, DeadlineIsCapped
    <3>7. LifetimeWithinCeiling'
      BY <1>1, <3>6 DEF LifetimeWithinCeiling
    <3>. QED
      BY <1>1, <1>4, <2>2, <3>4, <3>7, StillServing DEF CeilingInv
  <2>. QED
    BY <2>3, <2>4, <2>5
<1>13. CASE Release \/ LoseInstance \/ InstancePass
  <2>1. now' = now /\ claim' = claim /\ ccache' = ccache /\ icache' = icache
    BY <1>13 DEF Release, LoseInstance, InstancePass, caches
  <2>2. \/ pass' = pass
        \/ pass'.pc = "patch" /\ pass'.st = pass.st
    BY <1>2, <1>13 DEF Release, LoseInstance, InstancePass, Pass
  <2>3. \/ inst' = NoInst
        \/ /\ inst'.id = inst.id /\ inst'.own = inst.own /\ inst'.at = inst.at
           /\ inst'.exp = inst.exp /\ inst'.won = inst.won
           /\ inst' = inst \/ inst.id # 0
    BY <1>2, <1>13, Merged DEF Release, LoseInstance, InstancePass, applyTTL, ReportStatus
  <2>4. AnchorsBeforeBinding' /\ Anchored'
    BY <1>2, <1>3, <1>4, <1>5, <2>1, <2>2, <2>3 DEF AnchorsBeforeBinding, Anchored
  <2>. QED
    BY <1>1, <1>4, <2>2, <2>3, <2>4, StillCapped, StillServing DEF CeilingInv
<1>14. CASE patchStatus \/ CallFails
  <2>1. /\ now' = now /\ inst' = inst /\ ccache' = ccache /\ icache' = icache /\ pass' = NoPass
        /\ claim' = claim \/ claim' = Patched(pass)
    BY <1>14 DEF patchStatus, CallFails, caches, objects
  <2>2. claim'.boundAt \in {claim.boundAt, pass.st.boundAt}
    BY <1>2, <2>1, PatchedFields
  <2>3. AnchorsBeforeBinding' /\ Anchored'
    BY <1>2, <1>3, <1>4, <1>5, <2>1, <2>2 DEF AnchorsBeforeBinding, Anchored
  <2>. QED
    BY <1>1, <1>4, <1>5, <2>1, <2>3, StillCapped, StillServing DEF CeilingInv
<1>. QED
  BY <1>6, <1>7, <1>8, <1>9, <1>10, <1>11, <1>12, <1>13, <1>14, AsideSteps
  DEF Next, ClaimPass, Environment

LEMMA CeilingInvariant == Spec => [](TypeOK /\ CeilingInv)
<1>1. Init => TypeOK /\ CeilingInv
  BY TypeInit, CeilingInit
<1>2. TypeOK /\ CeilingInv /\ [Next]_vars => (TypeOK /\ CeilingInv)'
  BY TypeStep, CeilingStep
<1>. QED
  BY <1>1, <1>2, PTL DEF Spec

(* Nobody's environment outlives the ceiling of its template, for any         *)
(* settings that make one, any number of extensions, edits, crashes and       *)
(* failing calls, and on copies however stale.                                *)
THEOREM CeilingHolds == Spec => []LifetimeWithinCeiling
<1>1. TypeOK /\ CeilingInv => LifetimeWithinCeiling
  BY DEF CeilingInv
<1>. QED
  BY <1>1, CeilingInvariant, PTL

-----------------------------------------------------------------------------
(* Only a lasting failure is given up. *)

(* As long as the source is ready, Ready is False exactly while the instance  *)
(* is Failed, and the time of the transition is that of the failure.          *)
FailureOnRecord ==
  /\ engine # "unsourced"
  /\ inst.failed => inst.ready = "False"
  /\ inst.ready = "False" => inst.failed /\ bad >= now - inst.since

Sourced == Prompt /\ "source" \notin env

RetryInv == RetryIsNotRejected /\ (Sourced => FailureOnRecord)

(* A pass of an operator that keeps up begins on what is there. *)
LEMMA PromptPass ==
  ASSUME Prompt, Began
  PROVE  ccache = claim /\ icache = inst /\ boundInstance = inst /\ pass.pc = "idle"
BY DEF Began, Lagging, boundInstance

LEMMA PromptInstancePass ==
  ASSUME TypeOK, Prompt, InstancePass
  PROVE  /\ icache = inst /\ ccache = claim
         /\ \/ inst' = inst /\ lapsed' = lapsed
            \/ inst' = Observed(inst) /\ inst.id # 0 /\ lapsed' = lapsed
            \/ inst' = NoInst /\ inst.id # 0 /\ Past(Deadline(inst)) /\ lapsed'
<1>1. icache = inst /\ ccache = claim
  BY DEF InstancePass, Lagging
<1>2. inst \in Instance /\ now \in Nat
  BY NumbersAssumption DEF TypeOK, Time
<1>. QED
  BY <1>1, <1>2, Merged DEF InstancePass, applyTTL, ReportStatus

LEMMA RetryInit == Init => RetryInv
BY DEF Init, RetryInv, RetryIsNotRejected, FailureOnRecord, NoInst, NoPass

LEMMA RetryStep == TypeOK /\ RetryInv /\ [Next]_vars => RetryInv'
<1>. SUFFICES ASSUME TypeOK, RetryInv, [Next]_vars, Sourced
              PROVE  RetryIsNotRejected' /\ FailureOnRecord'
  BY SamePlay DEF RetryInv, RetryIsNotRejected, Sourced, Prompt
<1>1. FailureOnRecord /\ RetryIsNotRejected
  BY DEF RetryInv
<1>2. /\ TypeOK /\ now \in Nat /\ bad \in Nat /\ pass \in Pass /\ ccache \in Claim
      /\ inst \in Instance /\ inst.since \in Int /\ tmpl \in Templates
  BY NumbersAssumption DEF TypeOK, Time, Instance, Stamps, None
<1>3. Prompt /\ Prompt' /\ "source" \notin env
  BY SamePlay DEF Prompt, Sourced
<1>4. NoPass.pc = "idle" /\ ~NoInst.failed /\ NoInst.ready # "False"
  BY DEF NoPass, NoInst
<1>5. CASE /\ UNCHANGED <<now, bad, inst>> /\ engine' # "unsourced"
           /\ pass' = pass \/ pass'.pc # "release" \/ pass'.note # "failed"
  BY <1>1, <1>3, <1>5 DEF RetryIsNotRejected, FailureOnRecord
<1>6. CASE \/ UNCHANGED vars \/ SyncClaim \/ SyncInst \/ PatchExtend
           \/ (\E rest \in BOOLEAN : AskExtend(rest))
           \/ (\E w \in Wants : EditWant(w)) \/ (\E t \in Templates : EditTemplate(t))
           \/ (\E e \in Engines : EngineMoves(e)) \/ Crash \/ CallFails \/ patchStatus
  <2>1. UNCHANGED <<now, bad, inst>> /\ pass' \in {pass, NoPass} /\ engine' # "unsourced"
    BY <1>1, <1>3, <1>6 DEF FailureOnRecord, vars, objects, history, SyncClaim, SyncInst, PatchExtend, AskExtend, EditWant,
       EditTemplate, EngineMoves, Crash, CallFails, patchStatus
  <2>. QED
    BY <1>4, <1>5, <2>1
<1>7. CASE ObserveTerminal \/ Refuse \/ Lapse \/ Park
  <2>1. UNCHANGED <<now, bad, inst>> /\ engine' # "unsourced"
    BY <1>1, <1>7 DEF FailureOnRecord, ObserveTerminal, Refuse, Lapse, Park, objects, history
  <2>2. pass' = pass \/ pass'.note # "failed"
    BY <1>2, <1>7, ObserveFields, RefuseFields, LapseFields, HoldingFields DEF Moves
  <2>. QED
    BY <1>5, <2>1, <2>2
<1>8. CASE Reconcile
  <2>1. boundInstance = inst /\ Decide(Resolved, inst) /\ UNCHANGED <<now, bad, inst, engine>>
    BY <1>3, <1>8, PromptPass DEF Reconcile, objects, history
  <2>2. pass'.pc = "release" /\ pass'.note = "failed" => failedFor(inst) > Grace
    BY <1>2, <2>1, ResolvedFields, DecideFields DEF Moves
  <2>3. failedFor(inst) > Grace => bad > Grace
    BY <1>1, <1>2, NumbersAssumption DEF failedFor, FailureOnRecord
  <2>. QED
    BY <1>1, <2>1, <2>2, <2>3 DEF RetryIsNotRejected, FailureOnRecord
<1>9. CASE Serve
  <2>. DEFINE i == [NoInst EXCEPT !.id = pass.id]
  <2>1. i \in Instance /\ ~i.failed /\ pass.st \in Claim
    BY <1>2, NoPassType DEF Instance, Pass, NoInst
  <2>2. Decide(pass.st, i) /\ UNCHANGED <<now, bad, inst>> /\ engine' # "unsourced"
    BY <1>1, <1>9 DEF FailureOnRecord, Serve, objects, history
  <2>. HIDE DEF i
  <2>3. failedFor(i) = 0
    BY <2>1 DEF failedFor
  <2>4. pass'.note # "failed"
    BY <1>2, <2>1, <2>2, <2>3, DecideFields, NumbersAssumption DEF Moves
  <2>. QED
    BY <1>5, <2>2, <2>4
<1>10. CASE Bind
  BY <1>2, <1>10, BindFields DEF RetryIsNotRejected, FailureOnRecord, Moves
<1>11. CASE syncInstance
  <2>1. /\ UNCHANGED <<now, bad, engine>> /\ pass'.pc # "release"
    BY <1>2, <1>4, <1>11 DEF syncInstance, history, Pass
  <2>2. /\ inst'.failed = inst.failed /\ inst'.ready = inst.ready /\ inst'.since = inst.since
    BY <1>2, <1>11, DesiredFields DEF syncInstance
  <2>. QED
    BY <1>1, <2>1, <2>2 DEF RetryIsNotRejected, FailureOnRecord
<1>12. CASE Release
  BY <1>1, <1>2, <1>4, <1>12 DEF Release, RetryIsNotRejected, FailureOnRecord, Pass
<1>13. CASE LoseInstance
  BY <1>1, <1>2, <1>4, <1>13, <1>3
  DEF LoseInstance, RetryIsNotRejected, FailureOnRecord, history
<1>14. CASE InstancePass
  <2>1. UNCHANGED <<now, bad, pass, engine>>
    BY <1>14 DEF InstancePass
  <2>2. inst' \in {inst, NoInst, Observed(inst)}
    BY <1>2, <1>3, <1>14, PromptInstancePass
  <2>3. /\ Observed(inst).failed => Observed(inst).ready = "False"
        /\ Observed(inst).ready = "False" => Observed(inst).failed
        /\ Observed(inst).ready = "False" =>
             Observed(inst).since = now \/ (inst.ready = "False" /\ Observed(inst).since = inst.since)
    BY <1>1, <1>2 DEF Observed, Ready, Instance, FailureOnRecord, TypeOK, Engines
  <2>4. FailureOnRecord'
    BY <1>1, <1>2, <1>4, <2>1, <2>2, <2>3 DEF FailureOnRecord
  <2>. QED
    BY <1>1, <1>3, <2>1, <2>4 DEF RetryIsNotRejected
<1>15. CASE Tick
  <2>1. pass' = pass /\ pass.pc = "idle"
    BY <1>3, <1>15 DEF Tick, Busy
  <2>2. FailureOnRecord'
    BY <1>1, <1>2, <1>15 DEF Tick, objects, FailureOnRecord
  <2>. QED
    BY <2>1, <2>2 DEF RetryIsNotRejected
<1>. QED
  BY <1>6, <1>7, <1>8, <1>9, <1>10, <1>11, <1>12, <1>13, <1>14, <1>15
  DEF Next, ClaimPass, Environment

(* With an operator that keeps up, an environment is given up as failed only  *)
(* after it has been Failed for longer than instanceFailureGrace without a    *)
(* break, whatever the grace and however Flux's retries and the passes of the *)
(* two controllers interleave, as long as its source stays ready (without     *)
(* that it is not so: FirstSightingIsSpared).                                 *)
THEOREM OnlyLastingFailuresRejected == Spec => []RetryIsNotRejected
<1>1. Init => TypeOK /\ RetryInv
  BY TypeInit, RetryInit
<1>2. TypeOK /\ RetryInv /\ [Next]_vars => (TypeOK /\ RetryInv)'
  BY TypeStep, RetryStep
<1>3. TypeOK /\ RetryInv => RetryIsNotRejected
  BY DEF RetryInv
<1>. QED
  BY <1>1, <1>2, <1>3, PTL DEF Spec
=============================================================================

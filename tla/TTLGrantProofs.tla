--------------------------- MODULE TTLGrantProofs ---------------------------
(***************************************************************************)
(* Proofs about ClaimTTL with an operator that keeps up: an environment is *)
(* not torn down before the time promised, and a claim whose environment   *)
(* lapsed gets no other.                                                   *)
(***************************************************************************)
EXTENDS TTLDeadlineProofs

-----------------------------------------------------------------------------
(* At the deadline. *)

(* The deadline of the instance does not come before that of its claim. *)
DueTogether ==
  inst.own /\ Past(inst.exp) => claim.phase = "Bound" /\ Past(claim.expiresAt)

(* A pass on a claim past its deadline ends it; one on an Expired claim       *)
(* leaves it so.                                                              *)
OverdueEnds ==
  /\ pass.pc # "idle" /\ Past(claim.expiresAt) =>
       pass.pc \in {"release", "patch"} /\ pass.st.phase \in {"Expired", "Rejected"}
  /\ pass.pc # "idle" /\ claim.phase = "Expired" =>
       pass.pc = "patch" /\ pass.st.phase = "Expired"

(* No time passes before the binding is in the status. *)
StampedAtOnce == inst.id # 0 /\ claim.boundAt = None => inst.at = now

(* Without failures of the engine nothing is reported as failed. *)
NoFailure == "fail" \notin env => engine \in {"progressing", "ready"} /\ ~inst.failed

OverdueInv == DueTogether /\ OverdueEnds /\ StampedAtOnce /\ NoFailure

LEMMA OverdueInit == Init => OverdueInv
BY DEF Init, OverdueInv, DueTogether, OverdueEnds, StampedAtOnce, NoFailure, NoInst, NoPass

(* No deadline is past when the clock begins. *)
LEMMA NotYetPast ==
  ASSUME now \in Nat, NEW ttl \in Int
  PROVE  ~Past(expiryFrom(now, ttl))
BY DEF Past, expiryFrom, None

LEMMA OverdueStep ==
  TypeOK /\ CeilingInv /\ Prompt /\ DeadlineInv /\ OverdueInv /\ [Next]_vars => OverdueInv'
<1>. SUFFICES ASSUME TypeOK, CeilingInv, Prompt, DeadlineInv, OverdueInv, [Next]_vars
              PROVE  OverdueInv'
  OBVIOUS
<1>1. /\ TypeOK /\ now \in Nat /\ pass \in Pass /\ claim \in Claim /\ ccache \in Claim
      /\ inst \in Instance /\ icache \in Instance /\ tmpl \in Templates
      /\ claim.expiresAt \in Int /\ inst.exp \in Int
  BY NumbersAssumption DEF TypeOK, Time, Claim, Instance, Stamps, None
<1>2. DueTogether /\ OverdueEnds /\ StampedAtOnce /\ NoFailure
  BY DEF OverdueInv
<1>3. /\ PassOnTheClaim /\ TerminalHoldsNothing /\ PassSays /\ DeadlineCopied
      /\ DueInTime /\ Agreed /\ Standing
  BY DEF DeadlineInv
<1>4. /\ NoPass.pc = "idle" /\ NoInst.id = 0 /\ ~NoInst.own /\ ~NoInst.failed
  BY DEF NoPass, NoInst
<1>5. env' = env
  BY SamePlay
<1>6. CASE Outside
  <2>1. UNCHANGED <<now, inst, pass>> /\ SameStatus
    BY <1>6, OutsideFields
  <2>2. engine' = engine \/ "fail" \in env
    BY <1>6 DEF Outside, AskExtend, PatchExtend, EditWant, EditTemplate, EngineMoves, vars
  <2>. QED
    BY <1>2, <1>5, <2>1, <2>2
    DEF SameStatus, OverdueInv, DueTogether, OverdueEnds, StampedAtOnce, NoFailure, Past
<1>7. CASE SyncClaim \/ SyncInst \/ Crash \/ CallFails
  <2>1. UNCHANGED <<now, inst, claim, engine>> /\ pass' \in {pass, NoPass}
    BY <1>7 DEF SyncClaim, SyncInst, Crash, CallFails, objects
  <2>. QED
    BY <1>2, <1>4, <1>5, <2>1
    DEF OverdueInv, DueTogether, OverdueEnds, StampedAtOnce, NoFailure, Past
<1>8. CASE ObserveTerminal \/ Refuse \/ Lapse \/ Reconcile \/ Park
  <2>1. /\ pass.pc = "idle" /\ ccache = claim /\ UNCHANGED <<now, claim, inst>>
        /\ IF Terminal THEN ObserveTerminal ELSE ~ObserveTerminal
    BY <1>8, BeginsFields
  <2>2. engine' = engine
    BY <1>8 DEF ObserveTerminal, Refuse, Lapse, Reconcile, Park
  <2>3. DueTogether' /\ StampedAtOnce' /\ NoFailure'
    BY <1>2, <1>5, <2>1, <2>2 DEF DueTogether, StampedAtOnce, NoFailure, Past
  <2>4. CASE ObserveTerminal
    BY <1>1, <1>2, <2>1, <2>3, <2>4, ObserveFields DEF OverdueInv, OverdueEnds, Moves, Past
  <2>5. CASE Refuse \/ Lapse
    <3>1. pass'.pc = "release" /\ pass'.st.phase \in {"Expired", "Rejected"}
      BY <1>1, <2>5, RefuseFields, LapseFields DEF Moves
    <3>2. claim.phase # "Expired"
      BY <2>1, <2>5 DEF Terminal, Refuse, Lapse
    <3>. QED
      BY <2>1, <2>3, <3>1, <3>2 DEF OverdueInv, OverdueEnds
  <2>6. CASE Reconcile \/ Park
    <3>1. ~Past(claim.expiresAt) /\ claim.phase # "Expired"
      BY <2>1, <2>6 DEF Terminal, Reconcile, Park, isExpired
    <3>. QED
      BY <2>1, <2>3, <3>1 DEF OverdueInv, OverdueEnds, Past
  <2>. QED
    BY <1>8, <2>4, <2>5, <2>6
<1>9. CASE Bind
  <2>1. /\ ccache = claim /\ UNCHANGED <<now, claim>>
    BY <1>9, BeginsFields
  <2>2. ~Past(claim.expiresAt) /\ claim.phase # "Expired"
    BY <2>1, <1>9 DEF Bind, Terminal, isExpired
  <2>3. resolveClaimTTL(ccache.want) \in Int
    BY <1>1, GrantType DEF Claim
  <2>4. /\ inst'.at = now /\ ~inst'.failed /\ engine' \in {"ready", "progressing"}
        /\ ~inst'.own \/ ~Past(inst'.exp)
    BY <1>1, <1>9, <2>3, BindFields, NotYetPast
  <2>. QED
    BY <2>1, <2>2, <2>4
    DEF OverdueInv, DueTogether, OverdueEnds, StampedAtOnce, NoFailure, Past
<1>10. CASE Serve
  <2>1. pass.pc = "serve" /\ UNCHANGED <<now, claim, inst, engine>>
    BY <1>10 DEF Serve, objects
  <2>2. ~Past(claim.expiresAt) /\ claim.phase # "Expired"
    BY <1>2, <2>1 DEF OverdueEnds
  <2>. QED
    BY <1>2, <1>5, <2>1, <2>2
    DEF OverdueInv, DueTogether, OverdueEnds, StampedAtOnce, NoFailure, Past
<1>11. CASE syncInstance
  <2>1. pass.pc = "sync" /\ UNCHANGED <<now, claim, engine>>
    BY <1>11 DEF syncInstance
  <2>2. ~Past(claim.expiresAt) /\ claim.phase # "Expired"
    BY <1>2, <2>1 DEF OverdueEnds
  <2>3. ~Past(pass.st.expiresAt)
    BY <1>3, <2>1 DEF PassSays
  <2>4. \/ inst' = inst
        \/ /\ inst'.id = inst.id /\ inst'.failed = inst.failed /\ inst'.exp = pass.st.expiresAt
           /\ inst.id # 0 => inst'.at = inst.at
    BY <1>1, <1>11, DesiredFields DEF syncInstance, CeilingInv, Anchored
  <2>. QED
    BY <1>2, <1>5, <2>1, <2>2, <2>3, <2>4
    DEF OverdueInv, DueTogether, OverdueEnds, StampedAtOnce, NoFailure, Past
<1>12. CASE Release
  <2>1. /\ pass.pc = "release" /\ UNCHANGED <<now, claim, engine>>
        /\ pass' = [pass EXCEPT !.pc = "patch"] /\ inst' \in {inst, NoInst}
    BY <1>12 DEF Release
  <2>2. pass'.pc = "patch" /\ pass'.st = pass.st
    BY <1>1, <2>1, ToPatch
  <2>. QED
    BY <1>2, <1>4, <1>5, <2>1, <2>2
    DEF OverdueInv, DueTogether, OverdueEnds, StampedAtOnce, NoFailure, Past
<1>13. CASE patchStatus
  <2>1. /\ pass.pc = "patch" /\ UNCHANGED <<now, inst, engine>> /\ pass' = NoPass
        /\ claim' = Patched(pass)
    BY <1>13 DEF patchStatus
  <2>2. claim'.phase = pass.st.phase /\ claim'.boundAt = pass.st.boundAt
    BY <1>3, <2>1, PatchedStatus
  <2>3. inst.id # 0 => /\ pass.st.boundAt # None /\ ~Past(inst.exp)
    BY <1>3, <2>1 DEF PassSays
  <2>4. inst.own => inst.id # 0
    BY <1>3, <1>4 DEF DeadlineCopied
  <2>. QED
    BY <1>2, <1>4, <1>5, <2>1, <2>2, <2>3, <2>4
    DEF OverdueInv, DueTogether, OverdueEnds, StampedAtOnce, NoFailure, Past
<1>14. CASE InstancePass \/ LoseInstance
  <2>1. UNCHANGED <<now, claim, pass, engine>>
    BY <1>14 DEF InstancePass, LoseInstance
  <2>2. ~("fail" \in env) => ~Observed(inst).failed
    BY <1>1, <1>2 DEF NoFailure, Observed, Instance
  <2>3. \/ inst' \in {inst, NoInst}
        \/ /\ inst'.id = inst.id /\ inst'.own = inst.own /\ inst'.exp = inst.exp
           /\ inst'.at = inst.at /\ inst' = Observed(inst)
    BY <1>1, <1>14, PromptInstancePass, ObservedFields DEF LoseInstance
  <2>. QED
    BY <1>2, <1>4, <1>5, <2>1, <2>2, <2>3
    DEF OverdueInv, DueTogether, OverdueEnds, StampedAtOnce, NoFailure, Past
<1>15. CASE Tick
  <2>1. /\ pass.pc = "idle" /\ ccache = claim /\ icache = inst /\ ~cq
        /\ UNCHANGED <<claim, inst, pass, engine>> /\ now' = now + 1
    BY <1>15 DEF Tick, Busy, Lagging, objects
  <2>2. inst.id # 0 =>
          claim.phase = "Bound" /\ claim.expiresAt = inst.exp /\ claim.boundAt # None
    BY <1>3, <2>1 DEF Agreed, Quiet, Standing
  <2>3. inst.own => inst.id # 0
    BY <1>3, <1>4 DEF DeadlineCopied
  <2>. QED
    BY <1>2, <1>5, <2>1, <2>2, <2>3
    DEF OverdueInv, DueTogether, OverdueEnds, StampedAtOnce, NoFailure, Past
<1>. QED
  BY <1>6, <1>7, <1>8, <1>9, <1>10, <1>11, <1>12, <1>13, <1>14, <1>15
  DEF Next, ClaimPass, Environment, Outside

-----------------------------------------------------------------------------
(* A lifetime only grows: the settings are sensible, nobody edits it by hand, *)
(* and every extension takes the same step.                                   *)

Growing == OneStep /\ Sensible(tmpl) /\ env \cap {"edit", "template", "refuse"} = {}

StepSize == IF "extend" \in env THEN First(tmpl.extend, ApiStep) ELSE ApiStep

Granted == resolveClaimTTL(claim.want)

Cap(m, x) == IF m > 0 /\ x > m THEN m ELSE x

(* b is what a lifetime a may have become by the next pass. *)
Follows(m, d, a, b) ==
  IF a = Unlimited THEN b = Unlimited ELSE a > 0 /\ a <= b /\ b <= Cap(m, a + d)

(* A status that has not been computed, or one the spec follows. *)
Resolves(st) ==
  IF st.ttl = 0 THEN st.max = 0
  ELSE st.max = maxLifetime /\ Follows(maxLifetime, StepSize, st.ttl, Granted)

(* The status follows the spec, with the pass under way in between and a      *)
(* request that has read the status ahead of them, by no more than a step.    *)
StatusFollows ==
  /\ Resolves(claim)
  /\ pass.pc # "idle" =>
       /\ Resolves(pass.st)
       /\ claim.ttl # 0 =>
            pass.st.ttl # 0 /\ Follows(maxLifetime, StepSize, claim.ttl, pass.st.ttl)
  /\ req.on =>
       /\ claim.ttl > 0 /\ req.read = claim.want
       /\ Granted <= req.wanted
       /\ req.wanted <= Cap(maxLifetime, claim.ttl + StepSize)

(* A pass that serves grants what its copy asks for, as long as there has     *)
(* been no event since; so does a claim that is Bound, between two passes.    *)
ServedIsGranted ==
  /\ pass.pc \in {"serve", "sync"} \/ (pass.pc = "patch" /\ pass.st.phase = "Bound") =>
       pass.st.ttl # 0 /\ (~cq => pass.st.ttl = resolveClaimTTL(ccache.want))
  /\ Quiet /\ claim.phase = "Bound" => claim.ttl = Granted

GrowInv == StatusFollows /\ ServedIsGranted

LEMMA GrowInit == Init => GrowInv
BY DEF Init, GrowInv, StatusFollows, Resolves, ServedIsGranted, Quiet, NewClaim, NoPass, NoReq

LEMMA StepType ==
  ASSUME TypeOK, Growing
  PROVE  /\ StepSize \in Nat \ {0} /\ Granted \in Lifetimes \ {0}
         /\ maxLifetime \in Lifetimes \ {0}
         /\ maxLifetime > 0 => Granted > 0 /\ Granted <= maxLifetime
<1>1. tmpl \in Templates /\ claim.want \in Int
  BY DEF TypeOK, Claim
<1>. QED
  BY <1>1, SettingsType, SensibleGrant, NumbersAssumption DEF Growing, StepSize, Granted

(* What is granted of a request that keeps within the ceiling. *)
LEMMA GrantedAsAsked ==
  ASSUME TypeOK, Growing, NEW w \in Nat \ {0}, maxLifetime > 0 => w <= maxLifetime
  PROVE  resolveClaimTTL(w) = w
<1>1. maxLifetime \in Int /\ (maxLifetime = Unlimited \/ maxLifetime > 0)
  BY MaxType DEF TypeOK, Growing
<1>. QED
  BY <1>1 DEF resolveClaimTTL, First, Unlimited

(* While the lifetime grows, the settings stand. *)
LEMMA SameSettings ==
  ASSUME [Next]_vars, Growing
  PROVE  /\ tmpl' = tmpl /\ env' = env /\ Growing' /\ StepSize' = StepSize
         /\ maxLifetime' = maxLifetime
         /\ Granted' = resolveClaimTTL(claim'.want)
         /\ resolveClaimTTL(ccache.want)' = resolveClaimTTL(ccache'.want)
<1>1. tmpl' = tmpl /\ env' = env
  BY SamePlay DEF Growing
<1>2. Growing' /\ StepSize' = StepSize
  BY <1>1 DEF Growing, OneStep, StepSize
<1>3. resolveInstanceTTL' = resolveInstanceTTL /\ maxLifetime' = maxLifetime
  BY <1>1 DEF maxLifetime, resolveInstanceTTL, Resolve
<1>. QED
  BY <1>1, <1>2, <1>3 DEF Granted, resolveClaimTTL

LEMMA FollowsItself ==
  ASSUME NEW m \in Lifetimes \ {0}, NEW d \in Nat \ {0}, NEW a \in Lifetimes \ {0},
         m > 0 => a <= m
  PROVE  Follows(m, d, a, a)
BY DEF Follows, Cap, Lifetimes, Unlimited

LEMMA AskRaises ==
  ASSUME TypeOK, StatusFollows, Growing, NEW rest \in BOOLEAN, AskExtend(rest)
  PROVE  /\ req'.on /\ req'.read = claim.want /\ claim.ttl > 0
         /\ req'.wanted = Cap(maxLifetime, claim.ttl + StepSize)
<1>1. req'.on /\ req'.read = claim.want
  BY AskFields
<1>2. (IF rest THEN First(tmpl.extend, ApiStep) ELSE ApiStep) = StepSize
  BY DEF Growing, OneStep, AskExtend, StepSize
<1>3. req'.wanted = Raised(rest, StepSize)
  BY <1>2 DEF AskExtend
<1>4. claim.ttl \in Int /\ maxLifetime \in Lifetimes \ {0} /\ StepSize \in Nat
  BY StepType DEF TypeOK, Claim
<1>5. claim.ttl # 0
  BY DEF AskExtend, Limited, StatusFollows, Resolves, Unlimited
<1>6. claim.max = maxLifetime /\ claim.ttl > 0
  BY <1>5 DEF StatusFollows, Resolves, Follows, AskExtend
<1>. QED
  BY <1>1, <1>3, <1>4, <1>6 DEF Raised, Limited, Cap, Lifetimes, Unlimited

LEMMA GrowStep ==
  TypeOK /\ CeilingInv /\ Prompt /\ DeadlineInv /\ Growing /\ GrowInv /\ [Next]_vars => GrowInv'
<1>. SUFFICES ASSUME TypeOK, CeilingInv, Prompt, DeadlineInv, Growing, GrowInv, [Next]_vars
              PROVE  GrowInv'
  OBVIOUS
<1>. DEFINE m == maxLifetime
            d == StepSize
            g == Granted
<1>1. /\ TypeOK /\ now \in Nat /\ pass \in Pass /\ claim \in Claim /\ ccache \in Claim
      /\ tmpl \in Templates /\ req \in Request
      /\ claim.ttl \in Int /\ pass.st.ttl \in Int /\ req.wanted \in Int
  BY NumbersAssumption DEF TypeOK, Time, Claim, Pass, Request
<1>2. /\ m \in Lifetimes \ {0} /\ d \in Nat \ {0} /\ g \in Lifetimes \ {0}
      /\ m > 0 => g > 0 /\ g <= m
  BY StepType
<1>3. /\ m' = m /\ d' = d /\ g' = resolveClaimTTL(claim'.want) /\ env' = env /\ tmpl' = tmpl
      /\ resolveClaimTTL(ccache.want)' = resolveClaimTTL(ccache'.want)
  BY SameSettings
<1>4. StatusFollows /\ ServedIsGranted
  BY DEF GrowInv
<1>5. PassOnTheClaim /\ PassSays
  BY DEF DeadlineInv
<1>6. NoPass.pc = "idle" /\ ~NoReq.on
  BY DEF NoPass, NoReq
<1>7. g = resolveClaimTTL(claim.want)
  BY DEF Granted
<1>. HIDE DEF m, d, g
<1>8. /\ claim.ttl # 0 => claim.max = m /\ Follows(m, d, claim.ttl, g)
      /\ claim.ttl = 0 => claim.max = 0
      /\ pass.pc # "idle" =>
           /\ pass.st.ttl # 0 => pass.st.max = m /\ Follows(m, d, pass.st.ttl, g)
           /\ pass.st.ttl = 0 => pass.st.max = 0
           /\ claim.ttl # 0 => pass.st.ttl # 0 /\ Follows(m, d, claim.ttl, pass.st.ttl)
      /\ req.on =>
           /\ claim.ttl > 0 /\ req.read = claim.want
           /\ g <= req.wanted /\ req.wanted <= Cap(m, claim.ttl + d)
  BY <1>4 DEF StatusFollows, Resolves, m, d, g
<1>9. ASSUME /\ claim'.ttl # 0 => claim'.max = m /\ Follows(m, d, claim'.ttl, g')
             /\ claim'.ttl = 0 => claim'.max = 0
             /\ pass'.pc # "idle" =>
                  /\ pass'.st.ttl # 0 => pass'.st.max = m /\ Follows(m, d, pass'.st.ttl, g')
                  /\ pass'.st.ttl = 0 => pass'.st.max = 0
                  /\ claim'.ttl # 0 => pass'.st.ttl # 0 /\ Follows(m, d, claim'.ttl, pass'.st.ttl)
             /\ req'.on =>
                  /\ claim'.ttl > 0 /\ req'.read = claim'.want
                  /\ g' <= req'.wanted /\ req'.wanted <= Cap(m, claim'.ttl + d)
      PROVE  StatusFollows'
  BY <1>3, <1>9 DEF StatusFollows, Resolves, m, d, g
<1>10. CASE Outside
  <2>1. /\ UNCHANGED <<now, ccache, pass, cq>> /\ SameStatus
        /\ claim' = claim \/ claim'.gen = claim.gen + 1
    BY <1>10, OutsideFields
  <2>2. ccache = claim' => claim' = claim
    BY <1>1, <1>5, <2>1 DEF PassOnTheClaim, Claim
  <2>3. ServedIsGranted'
    BY <1>3, <1>4, <1>7, <2>1, <2>2 DEF ServedIsGranted, Quiet, SameStatus, g
  <2>4. CASE claim' = claim /\ req' \in {req, NoReq}
    BY <1>3, <1>6, <1>7, <1>8, <1>9, <2>1, <2>3, <2>4 DEF GrowInv
  <2>5. ASSUME NEW rest \in BOOLEAN, AskExtend(rest) PROVE GrowInv'
    <3>1. claim' = claim /\ g' = g
      BY <1>3, <1>7, <2>5 DEF AskExtend, objects
    <3>2. /\ req'.on /\ req'.read = claim.want /\ claim.ttl > 0
          /\ req'.wanted = Cap(m, claim.ttl + d)
      BY <1>4, <2>5, AskRaises DEF m, d
    <3>3. g <= Cap(m, claim.ttl + d) /\ Cap(m, claim.ttl + d) <= Cap(m, claim.ttl + d)
      BY <1>1, <1>2, <1>8, <3>2 DEF Follows, Cap, Lifetimes, Unlimited
    <3>. QED
      BY <1>8, <1>9, <2>1, <2>3, <3>1, <3>2, <3>3 DEF GrowInv
  <2>6. CASE PatchExtend
    <3>1. req.on /\ req' = NoReq
      BY <2>6 DEF PatchExtend
    <3>2. claim'.want = req.wanted
      BY <1>1, <1>8, <2>6, <3>1, WantFields DEF PatchExtend
    <3>3. /\ claim.ttl > 0 /\ g <= req.wanted /\ req.wanted <= Cap(m, claim.ttl + d)
          /\ claim.ttl <= g
      BY <1>1, <1>8, <3>1 DEF Follows, Unlimited
    <3>4. req.wanted \in Nat \ {0} /\ (m > 0 => req.wanted <= m)
      BY <1>1, <1>2, <3>3 DEF Cap, Lifetimes, Unlimited
    <3>5. g' = req.wanted
      BY <1>3, <3>2, <3>4, GrantedAsAsked DEF m
    <3>6. claim'.ttl = claim.ttl /\ claim'.max = claim.max
      BY <2>1 DEF SameStatus
    <3>7. Follows(m, d, claim.ttl, req.wanted)
      BY <1>1, <1>2, <3>3 DEF Follows, Lifetimes, Unlimited
    <3>8. pass.pc # "idle" /\ pass.st.ttl # 0 => Follows(m, d, pass.st.ttl, req.wanted)
      <4>. SUFFICES ASSUME pass.pc # "idle", pass.st.ttl # 0
                    PROVE  Follows(m, d, pass.st.ttl, req.wanted)
        OBVIOUS
      <4>1. /\ Follows(m, d, pass.st.ttl, g) /\ Follows(m, d, claim.ttl, pass.st.ttl)
        BY <1>8, <3>3
      <4>2. /\ pass.st.ttl > 0 /\ claim.ttl <= pass.st.ttl /\ pass.st.ttl <= g
            /\ pass.st.ttl # Unlimited
        BY <1>1, <1>2, <3>3, <4>1 DEF Follows, Lifetimes, Unlimited
      <4>3. req.wanted <= Cap(m, pass.st.ttl + d)
        BY <1>1, <1>2, <3>3, <3>4, <4>2 DEF Cap, Lifetimes, Unlimited
      <4>. QED
        BY <1>1, <1>2, <3>3, <4>2, <4>3 DEF Follows, Lifetimes, Unlimited
    <3>9. StatusFollows'
      BY <1>6, <1>8, <1>9, <2>1, <3>1, <3>3, <3>5, <3>6, <3>7, <3>8
    <3>. QED
      BY <2>3, <3>9 DEF GrowInv
  <2>. QED
    BY <1>10, <2>4, <2>5, <2>6
    DEF Outside, Growing, EditWant, EditTemplate, EngineMoves, objects, vars
<1>11. CASE SyncClaim \/ SyncInst \/ Crash \/ CallFails \/ InstancePass \/ LoseInstance \/ Tick
  <2>1. /\ UNCHANGED <<claim, req>> /\ pass' \in {pass, NoPass}
        /\ UNCHANGED <<ccache, pass, cq>> \/ cq' = TRUE
    BY <1>11 DEF SyncClaim, SyncInst, Crash, CallFails, InstancePass, LoseInstance, Tick,
       objects, caches, queues
  <2>2. g' = g
    BY <1>3, <1>7, <2>1
  <2>3. ServedIsGranted'
    BY <1>3, <1>4, <1>6, <2>1, <2>2 DEF ServedIsGranted, Quiet, g
  <2>. QED
    BY <1>6, <1>8, <1>9, <2>1, <2>2, <2>3 DEF GrowInv
<1>12. CASE ObserveTerminal \/ Refuse \/ Lapse \/ Reconcile \/ Park \/ Bind
  <2>1. /\ pass.pc = "idle" /\ ccache = claim /\ icache = inst /\ boundInstance = inst
        /\ UNCHANGED <<claim, ccache>> /\ cq' = FALSE
    BY <1>12, BeginsFields
  <2>2. req' = req /\ g' = g
    BY <1>3, <1>7, <1>12, <2>1 DEF ObserveTerminal, Refuse, Lapse, Reconcile, Park, Bind
  <2>3. /\ Resolved \in Claim /\ Resolved.ttl = g /\ Resolved.max = m
        /\ Resolved.ttl = resolveClaimTTL(ccache'.want)
    BY <1>1, <1>7, <2>1, ResolvedFields DEF m
  <2>4. Follows(m, d, g, g)
    BY <1>2, FollowsItself
  <2>5. ASSUME Keeps(Resolved), pass'.pc # "idle" PROVE GrowInv'
    <3>1. pass'.st.ttl = g /\ pass'.st.max = m
      BY <2>3, <2>5 DEF Keeps
    <3>2. StatusFollows'
      BY <1>2, <1>8, <1>9, <2>1, <2>2, <2>4, <3>1
    <3>3. ServedIsGranted'
      BY <1>2, <1>3, <2>3, <2>5, <3>1 DEF ServedIsGranted, Quiet
    <3>. QED
      BY <3>2, <3>3 DEF GrowInv
  <2>6. CASE ObserveTerminal
    <3>1. CASE pass' = pass
      <4>1. claim.phase # "Bound"
        BY <2>1, <2>6 DEF ObserveTerminal, Terminal
      <4>. QED
        BY <1>8, <1>9, <2>1, <2>2, <3>1, <4>1 DEF GrowInv, ServedIsGranted
    <3>2. CASE pass'.pc = "patch" /\ pass'.st = claim /\ claim.phase = "Expired"
      <4>1. claim.ttl # 0 => Follows(m, d, claim.ttl, claim.ttl)
        BY <1>1, <1>2, <1>8 DEF Follows, Cap, Lifetimes, Unlimited
      <4>. QED
        BY <1>8, <1>9, <2>1, <2>2, <3>2, <4>1 DEF GrowInv, ServedIsGranted, Quiet
    <3>. QED
      BY <1>1, <2>1, <2>6, <3>1, <3>2, ObserveFields DEF Moves
  <2>7. CASE Refuse
    BY <2>7 DEF Refuse, Growing
  <2>8. CASE Lapse
    BY <1>1, <2>5, <2>8, LapseFields DEF Moves
  <2>9. CASE Park
    BY <1>1, <2>5, <2>9, HoldingFields DEF Moves
  <2>10. CASE Bind
    BY <1>1, <2>5, <2>10, BindFields DEF Moves
  <2>11. CASE Reconcile
    <3>1. Decide(Resolved, inst) /\ inst \in Instance
      BY <1>1, <2>1, <2>11 DEF Reconcile, TypeOK
    <3>. QED
      BY <1>1, <2>3, <2>5, <3>1, DecideFields DEF Moves
  <2>. QED
    BY <1>12, <2>6, <2>7, <2>8, <2>9, <2>10, <2>11
<1>13. CASE Serve \/ syncInstance \/ Release
  <2>1. /\ UNCHANGED <<claim, ccache, req>> /\ cq' \in {cq, TRUE}
        /\ pass.pc \in {"serve", "sync", "release"}
    BY <1>13 DEF Serve, syncInstance, Release, objects, caches, queues
  <2>2. g' = g
    BY <1>3, <1>7, <2>1
  <2>3. CASE Serve
    <3>. DEFINE i == [NoInst EXCEPT !.id = pass.id]
    <3>1. i \in Instance /\ pass.st \in Claim /\ pass.pc = "serve" /\ Decide(pass.st, i)
      BY <1>1, <2>3, NoPassType DEF Instance, Pass, Serve
    <3>. HIDE DEF i
    <3>2. /\ pass'.st.ttl = pass.st.ttl /\ pass'.st.max = pass.st.max
          /\ pass'.pc \in {"sync", "release"} /\ cq' = cq
      BY <1>1, <2>3, <3>1, DecideFields DEF Keeps, Moves, Serve, queues
    <3>3. StatusFollows'
      BY <1>8, <1>9, <2>1, <2>2, <3>1, <3>2
    <3>4. ServedIsGranted'
      BY <1>3, <1>4, <2>1, <2>2, <3>1, <3>2 DEF ServedIsGranted, Quiet
    <3>. QED
      BY <3>3, <3>4 DEF GrowInv
  <2>4. CASE pass' = [pass EXCEPT !.pc = "patch"]
    <3>1. pass'.pc = "patch" /\ pass'.st = pass.st
      BY <1>1, <2>4, ToPatch
    <3>2. StatusFollows'
      BY <1>8, <1>9, <2>1, <2>2, <3>1
    <3>3. pass.st.phase = "Bound" => pass.pc \in {"serve", "sync"}
      BY <1>5, <2>1 DEF PassSays
    <3>4. cq' = cq
      BY <1>13, <2>4, <3>1, <1>6 DEF Serve, syncInstance, Release, queues
    <3>5. ServedIsGranted'
      BY <1>3, <1>4, <2>1, <3>1, <3>3, <3>4 DEF ServedIsGranted, Quiet
    <3>. QED
      BY <3>2, <3>5 DEF GrowInv
  <2>5. CASE pass' = NoPass /\ cq' = TRUE
    BY <1>6, <1>8, <1>9, <2>1, <2>2, <2>5 DEF GrowInv, ServedIsGranted, Quiet
  <2>. QED
    BY <1>13, <2>3, <2>4, <2>5 DEF syncInstance, Release
<1>14. CASE patchStatus
  <2>1. /\ pass.pc = "patch" /\ pass' = NoPass /\ claim' = Patched(pass)
        /\ UNCHANGED <<ccache, req, cq>>
    BY <1>14 DEF patchStatus, caches
  <2>2. /\ claim'.ttl = pass.st.ttl /\ claim'.max = pass.st.max /\ claim'.want = claim.want
        /\ claim'.phase = pass.st.phase
    BY <1>5, <2>1, PatchedStatus
  <2>3. g' = g
    BY <1>3, <1>7, <2>2
  <2>4. req.on => /\ pass.st.ttl > 0 /\ req.wanted <= Cap(m, pass.st.ttl + d)
    <3>. SUFFICES ASSUME req.on
                  PROVE  pass.st.ttl > 0 /\ req.wanted <= Cap(m, pass.st.ttl + d)
      OBVIOUS
    <3>1. claim.ttl > 0 /\ Follows(m, d, claim.ttl, pass.st.ttl)
      BY <1>8, <2>1
    <3>2. pass.st.ttl > 0 /\ claim.ttl <= pass.st.ttl
      BY <1>1, <3>1 DEF Follows, Lifetimes, Unlimited
    <3>. QED
      BY <1>1, <1>2, <1>8, <3>2 DEF Cap, Lifetimes, Unlimited
  <2>5. StatusFollows'
    BY <1>6, <1>8, <1>9, <2>1, <2>2, <2>3, <2>4
  <2>6. ServedIsGranted'
    BY <1>3, <1>4, <1>6, <2>1, <2>2 DEF ServedIsGranted, Quiet, g
  <2>. QED
    BY <2>5, <2>6 DEF GrowInv
<1>. QED
  BY <1>10, <1>11, <1>12, <1>13, <1>14 DEF Next, ClaimPass, Environment, Outside

-----------------------------------------------------------------------------
(* The anchor in the status is that of the instance. *)

(* Only with a release that is not for the deadline, and whose patch is lost, *)
(* or with an instance deleted by hand does the status outlive its instance.  *)
NoEviction == env \cap {"full", "fail"} = {}
Calm == Growing /\ (NoEviction \/ (faults = 0 /\ "lose" \notin env))
Undisturbed == Growing /\ "lose" \notin env /\ (faults = 0 \/ NoEviction)

Over == claim.phase = "Expired" \/ Past(claim.expiresAt)
Ending == pass.pc = "patch" /\ pass.st.phase = "Expired"
Served == pass.pc \in {"serve", "sync"} \/ (pass.pc = "patch" /\ pass.st.phase = "Bound")

(* The deadline in the status is the anchor plus the lifetime, and a pass     *)
(* takes the anchor away or finds the claim past that deadline.               *)
StatusComputed ==
  /\ claim.boundAt # None /\ claim.phase # "Expired" =>
       claim.ttl # 0 /\ claim.expiresAt = expiryFrom(claim.boundAt, claim.ttl)
  /\ pass.pc = "patch" /\ pass.st.phase \in {"Pending", "Rejected"} => pass.st.boundAt = None
  /\ pass.pc = "release" /\ pass.st.phase # "Expired" => pass.st.boundAt = None
  /\ pass.pc \in {"release", "patch"} /\ pass.st.phase = "Expired" => Over

(* The claim and the pass have the anchor of the instance; without one, the   *)
(* claim has none, or is done, or about to be.                                *)
OneAnchor ==
  /\ inst.id # 0 /\ claim.boundAt # None => claim.boundAt = inst.won
  /\ Served => inst.id # 0 /\ pass.st.boundAt = inst.won
  /\ inst.id = 0 /\ claim.boundAt # None =>
       Over \/ Ending \/ (pass.pc = "patch" /\ pass.st.boundAt = None)
  /\ NoEviction /\ pass.pc \in {"release", "patch"} /\ pass.st.boundAt = None =>
       claim.boundAt = None

AnchorInv == (Calm => StatusComputed) /\ (Undisturbed => OneAnchor)

LEMMA AnchorInit == Init => AnchorInv
BY DEF Init, AnchorInv, StatusComputed, OneAnchor, Served, Ending, NewClaim, NoInst, NoPass

LEMMA FaultsGrow ==
  ASSUME TypeOK, [Next]_vars
  PROVE  /\ faults' \in {faults, faults + 1} /\ faults \in Nat
         /\ faults' # faults => Crash \/ CallFails
<1>1. faults \in Nat
  BY NumbersAssumption DEF TypeOK
<1>. QED
  BY <1>1 DEF Next, ClaimPass, Environment, vars, SyncClaim, SyncInst, ObserveTerminal,
     Refuse, Lapse, Reconcile, Park, Bind, Serve, syncInstance, Release, patchStatus,
     InstancePass, AskExtend, PatchExtend, EditWant, EditTemplate, EngineMoves, LoseInstance,
     Crash, CallFails, Tick

LEMMA CalmBefore ==
  ASSUME TypeOK, [Next]_vars
  PROVE  /\ Growing' => Growing
         /\ Calm' => Calm
         /\ Undisturbed' => Undisturbed
         /\ NoEviction' <=> NoEviction
         /\ Undisturbed => Calm
         /\ Calm /\ "full" \in env => Undisturbed
         /\ Undisturbed' /\ (Crash \/ CallFails) => NoEviction
<1>1. env' = env /\ (tmpl' = tmpl \/ "template" \in env)
  BY SamePlay
<1>2. Growing' => Growing
  BY <1>1 DEF Growing, OneStep
<1>3. faults' = 0 => faults = 0
  BY FaultsGrow
<1>4. Crash \/ CallFails => faults' # 0
  <2>1. faults \in Nat
    BY FaultsGrow
  <2>. QED
    BY <2>1 DEF Crash, CallFails
<1>5. NoEviction' <=> NoEviction
  BY <1>1 DEF NoEviction
<1>6. "full" \in env => ~NoEviction
  BY DEF NoEviction
<1>. QED
  BY <1>1, <1>2, <1>3, <1>4, <1>5, <1>6 DEF Calm, Undisturbed

(* A claim that has not come to its end and holds nothing has no anchor. *)
LEMMA FreshClaim ==
  ASSUME OneAnchor, pass.pc = "idle", inst.id = 0, claim.phase # "Expired",
         ~Past(claim.expiresAt)
  PROVE  claim.boundAt = None
BY DEF OneAnchor, Over, Ending

(* A pass that finds the claim running does not find its instance expired. *)
LEMMA StillRunning ==
  ASSUME TypeOK, Prompt, OverdueInv, Growing, GrowInv, StatusComputed, inst.id # 0,
         ccache = claim,
         claim.phase # "Expired", ~Past(claim.expiresAt)
  PROVE  ~Past(expiryFrom(Anchor(Resolved, inst), Resolved.ttl))
<1>1. /\ now \in Nat /\ claim \in Claim /\ inst \in Instance /\ tmpl \in Templates
      /\ ccache \in Claim
  BY NumbersAssumption DEF TypeOK, Time
<1>2. Resolved.boundAt = claim.boundAt /\ Resolved.ttl = Granted
  BY <1>1, ResolvedFields DEF Granted
<1>3. Granted \in Lifetimes /\ Granted \in Int
  BY StepType DEF Lifetimes, Unlimited
<1>4. CASE claim.boundAt = None
  <2>1. Anchor(Resolved, inst) = now
    BY <1>2, <1>4 DEF Anchor, OverdueInv, StampedAtOnce
  <2>. QED
    BY <1>1, <1>2, <1>3, <2>1, NotYetPast
<1>5. CASE claim.boundAt # None
  <2>1. Anchor(Resolved, inst) = claim.boundAt
    BY <1>2, <1>5 DEF Anchor
  <2>2. claim.ttl # 0 /\ claim.expiresAt = expiryFrom(claim.boundAt, claim.ttl)
    BY <1>5 DEF StatusComputed
  <2>3. IF claim.ttl = Unlimited THEN Granted = Unlimited
                                 ELSE claim.ttl > 0 /\ claim.ttl <= Granted
    BY <2>2 DEF GrowInv, StatusFollows, Resolves, Follows
  <2>4. claim.boundAt \in Nat /\ claim.ttl \in Int
    BY <1>1, <1>5 DEF Claim, Stamps
  <2>. QED
    BY <1>1, <1>2, <1>3, <2>1, <2>2, <2>3, <2>4
    DEF Past, expiryFrom, Lifetimes, Unlimited, None
<1>. QED
  BY <1>4, <1>5

LEMMA AnchorStep ==
  /\ TypeOK /\ CeilingInv /\ Prompt /\ DeadlineInv /\ OverdueInv /\ Growing /\ GrowInv
  /\ AnchorInv /\ [Next]_vars
  => AnchorInv'
<1>. SUFFICES ASSUME TypeOK, CeilingInv, Prompt, DeadlineInv, OverdueInv, Growing, GrowInv,
                     AnchorInv, [Next]_vars
              PROVE  (Calm' => StatusComputed') /\ (Undisturbed' => OneAnchor')
  BY DEF AnchorInv
<1>1. /\ TypeOK /\ now \in Nat /\ pass \in Pass /\ claim \in Claim /\ ccache \in Claim
      /\ inst \in Instance /\ tmpl \in Templates
      /\ claim.expiresAt \in Int /\ inst.won \in Int
  BY NumbersAssumption DEF TypeOK, Time, Claim, Instance, Stamps, None
<1>2. /\ Calm' => StatusComputed
      /\ Undisturbed' => Undisturbed /\ OneAnchor /\ StatusComputed
      /\ NoEviction' <=> NoEviction
  BY CalmBefore DEF AnchorInv
<1>3. /\ PassOnTheClaim /\ TerminalHoldsNothing /\ PassSays /\ DeadlineCopied
      /\ DueTogether /\ OverdueEnds /\ StampedAtOnce /\ NoFailure
      /\ AnchorsBeforeBinding /\ Anchored
  BY DEF DeadlineInv, OverdueInv, CeilingInv
<1>4. /\ NoPass.pc = "idle" /\ NoInst.id = 0
  BY DEF NoPass, NoInst
<1>5. CASE /\ UNCHANGED <<now, inst>> /\ SameStatus /\ pass' = pass
  BY <1>2, <1>5 DEF SameStatus, StatusComputed, OneAnchor, Over, Ending, Served, Past
<1>6. CASE Outside \/ SyncClaim \/ SyncInst
  BY <1>5, <1>6, OutsideFields DEF SyncClaim, SyncInst, objects, SameStatus
<1>7. CASE Crash \/ CallFails
  <2>1. UNCHANGED <<now, inst, claim>> /\ pass' = NoPass
    BY <1>7 DEF Crash, CallFails, objects
  <2>2. Calm' => StatusComputed'
    BY <1>2, <1>4, <2>1 DEF StatusComputed
  <2>3. ASSUME Undisturbed' PROVE OneAnchor'
    <3>1. NoEviction /\ OneAnchor /\ StatusComputed
      BY <1>2, <1>7, <2>3, CalmBefore
    <3>2. inst.id = 0 /\ claim.boundAt # None => Over
      BY <3>1 DEF OneAnchor, StatusComputed, Ending
    <3>. QED
      BY <1>4, <2>1, <3>1, <3>2 DEF OneAnchor, Over, Served, Past
  <2>. QED
    BY <2>2, <2>3
<1>8. CASE ObserveTerminal \/ Lapse
  <2>1. pass.pc = "idle" /\ ccache = claim /\ UNCHANGED <<now, claim, inst>>
    BY <1>8, BeginsFields
  <2>2. \/ pass' = pass
        \/ /\ pass'.pc \in {"release", "patch"} /\ pass'.st.phase = "Expired"
           /\ pass'.st.boundAt = claim.boundAt /\ Over
    BY <1>1, <1>8, <2>1, ObserveFields, LapseFields
    DEF Moves, Over, Lapse, isExpired, Past
  <2>. QED
    BY <1>2, <2>1, <2>2 DEF StatusComputed, OneAnchor, Over, Served, Ending, Past
<1>9. CASE Refuse
  BY <1>9 DEF Refuse, Growing
<1>10. CASE Park \/ Bind
  <2>1. /\ pass.pc = "idle" /\ ccache = claim /\ UNCHANGED <<now, claim>> /\ boundInstance = inst
    BY <1>10, BeginsFields
  <2>2. inst.id = 0 /\ claim.phase # "Expired" /\ ~Past(claim.expiresAt)
    BY <1>10, <2>1 DEF Park, Bind, Terminal, isExpired
  <2>3. Undisturbed' => claim.boundAt = None
    BY <1>2, <2>1, <2>2, FreshClaim
  <2>4. CASE Park
    <3>1. /\ inst' = inst /\ pass'.pc = "patch" /\ pass'.st.phase = "Pending"
          /\ pass'.st.boundAt = claim.boundAt
      BY <1>1, <2>1, <2>4, HoldingFields, BeginsFields DEF Moves
    <3>2. Calm => Undisturbed
      BY <2>4, CalmBefore DEF Park
    <3>3. Calm' => claim.boundAt = None
      BY <2>1, <2>2, <3>2, CalmBefore, FreshClaim DEF AnchorInv
    <3>. QED
      BY <1>2, <2>1, <2>2, <2>3, <3>1, <3>3 DEF StatusComputed, OneAnchor, Served
  <2>5. CASE Bind
    <3>1. /\ inst'.id = last + 1 /\ last + 1 # 0 /\ inst'.won = now
          /\ pass'.pc = "serve" /\ pass'.st.boundAt = now
      BY <1>1, <2>5, BindFields DEF Moves
    <3>. QED
      BY <1>2, <2>1, <2>3, <3>1 DEF StatusComputed, OneAnchor, Served
  <2>. QED
    BY <1>10, <2>4, <2>5
<1>11. CASE Reconcile
  <2>1. /\ pass.pc = "idle" /\ ccache = claim /\ UNCHANGED <<now, claim, inst>>
        /\ boundInstance = inst
    BY <1>11, BeginsFields
  <2>2. /\ Decide(Resolved, inst) /\ inst.id # 0 /\ claim.phase # "Expired"
        /\ ~Past(claim.expiresAt)
    BY <1>11, <2>1 DEF Reconcile, Terminal, isExpired
  <2>3. Resolved \in Claim /\ Resolved.boundAt = claim.boundAt
    BY <1>1, <2>1, ResolvedFields
  <2>4. \/ /\ pass'.pc = "sync" /\ pass'.st.boundAt = Anchor(Resolved, inst)
        \/ /\ pass'.pc = "release" /\ pass'.st.phase = "Expired"
           /\ Past(expiryFrom(Anchor(Resolved, inst), Resolved.ttl))
        \/ /\ pass'.pc = "release" /\ pass'.st.phase # "Expired" /\ pass'.st.boundAt = None
           /\ failedFor(inst) > Grace \/ "refuse" \in env \/ "full" \in env
    BY <1>1, <2>2, <2>3, DecideFields DEF Moves, Deadlined
  <2>5. Calm' => ~Past(expiryFrom(Anchor(Resolved, inst), Resolved.ttl))
    BY <1>2, <2>1, <2>2, StillRunning
  <2>6. Calm' => StatusComputed'
    BY <1>2, <2>1, <2>4, <2>5 DEF StatusComputed
  <2>7. ASSUME Undisturbed' PROVE OneAnchor'
    <3>1. Calm' /\ OneAnchor
      BY <1>2, <2>7 DEF Undisturbed, Calm
    <3>2. Anchor(Resolved, inst) = inst.won
      BY <1>3, <2>2, <2>3, <3>1 DEF Anchor, OneAnchor, AnchorsBeforeBinding
    <3>3. NoEviction => ~(failedFor(inst) > Grace \/ "refuse" \in env \/ "full" \in env)
      BY <1>3, NumbersAssumption DEF NoEviction, NoFailure, failedFor, Growing
    <3>. QED
      BY <1>2, <2>1, <2>2, <2>4, <2>5, <3>1, <3>2, <3>3 DEF OneAnchor, Served
  <2>. QED
    BY <2>6, <2>7
<1>12. CASE Serve
  <2>. DEFINE i == [NoInst EXCEPT !.id = pass.id]
  <2>1. i \in Instance /\ ~i.failed /\ pass.st \in Claim /\ pass.st.ttl \in Int
    BY <1>1, NoPassType DEF Instance, Pass, NoInst, Claim
  <2>2. /\ pass.pc = "serve" /\ Decide(pass.st, i) /\ UNCHANGED <<now, claim, inst>>
    BY <1>12 DEF Serve, objects
  <2>. HIDE DEF i
  <2>3. Anchor(pass.st, i) = now /\ pass.st.boundAt = now
    BY <1>1, <1>3, <2>2 DEF PassSays, Anchor, None
  <2>4. ~Past(expiryFrom(now, pass.st.ttl)) /\ ~(failedFor(i) > Grace)
    BY <1>1, <2>1, NotYetPast, NumbersAssumption DEF failedFor
  <2>5. \/ /\ pass'.pc = "sync" /\ pass'.st.boundAt = now
        \/ /\ pass'.pc = "release" /\ pass'.st.phase # "Expired" /\ pass'.st.boundAt = None
           /\ "refuse" \in env \/ "full" \in env
    BY <1>1, <2>1, <2>2, <2>3, <2>4, DecideFields DEF Moves, Deadlined
  <2>6. NoEviction => ~("refuse" \in env \/ "full" \in env)
    BY DEF NoEviction, Growing
  <2>. QED
    BY <1>2, <2>2, <2>3, <2>5, <2>6 DEF StatusComputed, OneAnchor, Served
<1>13. CASE syncInstance
  <2>1. pass.pc = "sync" /\ UNCHANGED <<now, claim>>
    BY <1>13 DEF syncInstance
  <2>2. pass.st.phase = "Bound" /\ pass.st.boundAt # None
    BY <1>3, <2>1 DEF PassSays
  <2>3. inst'.id = inst.id /\ inst'.won = inst.won
    BY <1>1, <1>13, DesiredFields DEF syncInstance
  <2>4. \/ pass' = NoPass
        \/ pass'.pc = "patch" /\ pass'.st = pass.st
    BY <1>1, <1>13, ToPatch DEF syncInstance
  <2>. QED
    BY <1>2, <1>4, <2>1, <2>2, <2>3, <2>4 DEF StatusComputed, OneAnchor, Served, Over, Past
<1>14. CASE Release
  <2>1. /\ pass.pc = "release" /\ UNCHANGED <<now, claim>>
        /\ pass' = [pass EXCEPT !.pc = "patch"]
    BY <1>14 DEF Release
  <2>2. pass'.pc = "patch" /\ pass'.st = pass.st
    BY <1>1, <2>1, ToPatch
  <2>3. inst'.id = 0
    BY <1>3, <1>4, <1>14, <2>1 DEF Release, PassOnTheClaim
  <2>4. pass.st.phase # "Bound"
    BY <1>3, <2>1 DEF PassSays
  <2>. QED
    BY <1>2, <2>1, <2>2, <2>3, <2>4 DEF StatusComputed, OneAnchor, Served, Over, Ending, Past
<1>15. CASE patchStatus
  <2>1. /\ pass.pc = "patch" /\ UNCHANGED <<now, inst>> /\ pass' = NoPass
        /\ claim' = Patched(pass)
    BY <1>15 DEF patchStatus
  <2>2. /\ claim'.phase = pass.st.phase /\ claim'.boundAt = pass.st.boundAt
        /\ claim'.expiresAt = pass.st.expiresAt /\ claim'.ttl = pass.st.ttl
    BY <1>3, <2>1, PatchedStatus
  <2>3. pass.st.phase \in {"Pending", "Bound", "Rejected", "Expired"}
    BY <1>1 DEF Pass, Claim, Phases
  <2>4. pass.st.phase = "Bound" =>
          pass.st.ttl # 0 /\ pass.st.expiresAt = expiryFrom(pass.st.boundAt, pass.st.ttl)
    BY <1>3, <2>1 DEF PassSays, GrowInv, ServedIsGranted
  <2>5. pass.st.phase # "Bound" => inst.id = 0
    BY <1>3, <2>1 DEF PassSays
  <2>6. Calm' => StatusComputed'
    BY <1>2, <1>4, <2>1, <2>2, <2>3, <2>4 DEF StatusComputed
  <2>7. Undisturbed' => OneAnchor'
    BY <1>2, <1>4, <2>1, <2>2, <2>3, <2>5 DEF StatusComputed, OneAnchor, Served, Over
  <2>. QED
    BY <2>6, <2>7
<1>16. CASE InstancePass \/ LoseInstance
  <2>1. UNCHANGED <<now, claim, pass>>
    BY <1>16 DEF InstancePass, LoseInstance
  <2>2. \/ inst'.id = inst.id /\ inst'.won = inst.won
        \/ inst' = NoInst /\ inst.id # 0 /\ (Past(Deadline(inst)) \/ "lose" \in env)
    BY <1>1, <1>16, PromptInstancePass, ObservedFields DEF LoseInstance
  <2>3. Calm' => StatusComputed'
    BY <1>2, <2>1 DEF StatusComputed, Over, Past
  <2>4. CASE inst'.id = inst.id /\ inst'.won = inst.won
    BY <1>2, <2>1, <2>3, <2>4 DEF OneAnchor, Over, Ending, Served, Past
  <2>5. CASE inst' = NoInst /\ Past(Deadline(inst))
    <3>1. inst.exp # None /\ Past(inst.exp)
      BY <2>5 DEF Deadline, Past
    <3>2. Past(claim.expiresAt)
      BY <1>3, <3>1 DEF DeadlineCopied, DueTogether
    <3>3. ~Served
      BY <1>3, <3>2 DEF OverdueEnds, Served
    <3>. QED
      BY <1>2, <1>4, <2>1, <2>3, <2>5, <3>2, <3>3 DEF OneAnchor, Over, Ending, Served, Past
  <2>. QED
    BY <1>2, <2>2, <2>3, <2>4, <2>5 DEF Undisturbed
<1>17. CASE Tick
  <2>1. pass.pc = "idle" /\ UNCHANGED <<claim, inst, pass>> /\ now' = now + 1
    BY <1>17 DEF Tick, Busy, objects
  <2>. QED
    BY <1>1, <1>2, <2>1 DEF StatusComputed, OneAnchor, Over, Ending, Served, Past
<1>. QED
  BY <1>6, <1>7, <1>8, <1>9, <1>10, <1>11, <1>12, <1>13, <1>14, <1>15, <1>16, <1>17
  DEF Next, ClaimPass, Environment, Outside

-----------------------------------------------------------------------------
(* After the deadline. *)

(* A lapse is on record: in the status, or in the patch that is about to be   *)
(* sent.  It survives a pass that dies as long as the status said so before.  *)
NoneShortened ==
  \/ faults = 0
  \/ OneStep /\ Sensible(tmpl) /\ env \cap {"edit", "template", "refuse", "full", "fail"} = {}

LapseRecorded == NoneShortened /\ lapsed => Over \/ Ending

LEMMA LapseInit == Init => LapseRecorded
BY DEF Init, LapseRecorded

(* Once it is not so that nothing shortens a lifetime, it never is again. *)
LEMMA ShortenedBefore ==
  ASSUME TypeOK, [Next]_vars
  PROVE  /\ NoneShortened' => NoneShortened
         /\ NoneShortened' /\ (Crash \/ CallFails) => Calm
<1>1. env' = env /\ (tmpl' = tmpl \/ "template" \in env)
  BY SamePlay
<1>2. /\ faults' = 0 => faults = 0
      /\ Crash \/ CallFails => faults' # 0
  <2>1. faults \in Nat /\ faults' \in {faults, faults + 1}
    BY FaultsGrow
  <2>. QED
    BY <2>1 DEF Crash, CallFails
<1>. QED
  BY <1>1, <1>2 DEF NoneShortened, OneStep, Calm, Growing, NoEviction

LEMMA LapseStep ==
  /\ TypeOK /\ Prompt /\ DeadlineInv /\ OverdueInv /\ (Growing => AnchorInv)
  /\ LapseRecorded /\ [Next]_vars
  => LapseRecorded'
<1>. SUFFICES ASSUME TypeOK, Prompt, DeadlineInv, OverdueInv, Growing => AnchorInv,
                     LapseRecorded, [Next]_vars
              PROVE  LapseRecorded'
  OBVIOUS
<1>. SUFFICES ASSUME NoneShortened', lapsed'
              PROVE  Over' \/ Ending'
  BY DEF LapseRecorded
<1>1. /\ TypeOK /\ now \in Nat /\ pass \in Pass /\ inst \in Instance
      /\ claim.expiresAt \in Int
  BY NumbersAssumption DEF TypeOK, Time, Claim, Stamps, None
<1>2. lapsed => Over \/ Ending
  BY ShortenedBefore DEF LapseRecorded
<1>3. /\ PassOnTheClaim /\ DeadlineCopied /\ DueTogether /\ OverdueEnds
  BY DEF DeadlineInv, OverdueInv
<1>4. CASE Outside
  BY <1>2, <1>4, OutsideFields DEF SameStatus, Over, Ending, Past
<1>5. CASE SyncClaim \/ SyncInst \/ LoseInstance
  BY <1>2, <1>5 DEF SyncClaim, SyncInst, LoseInstance, objects, history, Over, Ending, Past
<1>6. CASE Crash \/ CallFails
  <2>1. UNCHANGED <<now, claim, lapsed>>
    BY <1>6 DEF Crash, CallFails, objects, history
  <2>2. Ending => Over
    BY <1>6, ShortenedBefore DEF Calm, AnchorInv, StatusComputed, Ending
  <2>. QED
    BY <1>2, <2>1, <2>2 DEF Over, Past
<1>7. CASE ObserveTerminal \/ Refuse \/ Lapse \/ Reconcile \/ Park
  BY <1>2, <1>7, BeginsFields DEF Over, Ending, Past
<1>8. CASE Bind
  BY <1>8 DEF Bind
<1>9. CASE Serve \/ syncInstance
  BY <1>2, <1>9 DEF Serve, syncInstance, objects, history, Over, Ending, Past
<1>10. CASE Release
  <2>1. /\ pass.pc = "release" /\ UNCHANGED <<now, claim>>
        /\ pass' = [pass EXCEPT !.pc = "patch"]
        /\ lapsed \/ pass.st.phase = "Expired"
    BY <1>10 DEF Release
  <2>2. pass'.pc = "patch" /\ pass'.st = pass.st
    BY <1>1, <2>1, ToPatch
  <2>. QED
    BY <1>2, <2>1, <2>2 DEF Over, Ending, Past
<1>11. CASE patchStatus
  <2>1. /\ pass.pc = "patch" /\ claim' = Patched(pass)
        /\ lapsed /\ pass.st.phase # "Rejected"
    BY <1>11 DEF patchStatus
  <2>2. claim'.phase = pass.st.phase
    BY <1>3, <2>1, PatchedStatus
  <2>. QED
    BY <1>2, <1>3, <2>1, <2>2 DEF OverdueEnds, Over, Ending
<1>12. CASE InstancePass
  <2>1. UNCHANGED <<now, claim, pass>>
    BY <1>12 DEF InstancePass
  <2>2. lapsed \/ Past(Deadline(inst))
    BY <1>12, PromptInstancePass
  <2>3. Past(Deadline(inst)) => Past(claim.expiresAt)
    BY <1>3 DEF Deadline, Past, DeadlineCopied, DueTogether
  <2>. QED
    BY <1>2, <2>1, <2>2, <2>3 DEF Over, Ending, Past
<1>13. CASE Tick
  BY <1>1, <1>2, <1>13 DEF Tick, objects, Over, Ending, Past
<1>. QED
  BY <1>4, <1>5, <1>6, <1>7, <1>8, <1>9, <1>10, <1>11, <1>12, <1>13
  DEF Next, ClaimPass, Environment, Outside

-----------------------------------------------------------------------------
(* Before the deadline. *)

(* What the spec grants reaches as far as was promised, and a claim that is   *)
(* past its deadline is past what was promised.                               *)
Covered ==
  /\ Granted # Unlimited => promise <= inst.won + Granted
  /\ Past(claim.expiresAt) => promise <= now

PromiseCovered == Undisturbed /\ inst.id # 0 => Covered

LEMMA PromiseInit == Init => PromiseCovered
BY DEF Init, PromiseCovered, NoInst

(* An extension is granted as it was asked for, and the promise with it. *)
LEMMA ExtensionCovered ==
  ASSUME TypeOK, DeadlineInv, Growing, GrowInv, OneAnchor, inst.id # 0, Covered, [Next]_vars,
         PatchExtend
  PROVE  Covered'
<1>1. /\ claim \in Claim /\ now \in Nat /\ inst.won \in Int /\ claim.expiresAt \in Int
      /\ req.wanted \in Int /\ promise \in Int /\ claim.ttl \in Int
  BY NumbersAssumption DEF TypeOK, Time, Claim, Instance, Request, Stamps, None
<1>2. /\ UNCHANGED <<now, inst>> /\ SameStatus /\ promise' = Answer
  BY OutsideFields DEF Outside, PatchExtend
<1>3. /\ claim.ttl > 0 /\ req.read = claim.want /\ Granted <= req.wanted
      /\ req.wanted <= Cap(maxLifetime, claim.ttl + StepSize)
      /\ Follows(maxLifetime, StepSize, claim.ttl, Granted)
  BY <1>1 DEF PatchExtend, GrowInv, StatusFollows, Resolves
<1>4. claim'.want = req.wanted
  <2>1. \/ claim' = claim /\ claim.want = req.wanted
        \/ claim' = [claim EXCEPT !.want = req.wanted, !.gen = @ + 1]
    BY <1>3 DEF PatchExtend
  <2>2. CASE claim' = [claim EXCEPT !.want = req.wanted, !.gen = @ + 1]
    BY <1>1, <2>2, WantFields
  <2>. QED
    BY <2>1, <2>2
<1>5. maxLifetime \in Int /\ StepSize \in Int /\ Granted \in Int
  BY StepType DEF Lifetimes, Unlimited
<1>6. Granted > 0
  BY <1>1, <1>3, <1>5 DEF Follows, Unlimited
<1>7. Granted' = req.wanted
  <2>1. req.wanted \in Nat \ {0} /\ (maxLifetime > 0 => req.wanted <= maxLifetime)
    BY <1>1, <1>3, <1>5, <1>6 DEF Cap
  <2>. QED
    BY <1>4, <2>1, GrantedAsAsked, SameSettings
<1>8. CASE req.rest /\ claim.phase = "Bound" /\ claim.expiresAt > now
  <2>1. promise' = inst.won + req.wanted
    BY <1>2, <1>8 DEF Answer, DeadlineInv, Standing, OneAnchor
  <2>2. ~Past(claim.expiresAt)'
    BY <1>1, <1>2, <1>8 DEF SameStatus, Past
  <2>. QED
    BY <1>1, <1>2, <1>7, <2>1, <2>2 DEF Covered
<1>9. CASE ~(req.rest /\ claim.phase = "Bound" /\ claim.expiresAt > now)
  <2>1. promise' = promise
    BY <1>2, <1>9 DEF Answer
  <2>. QED
    BY <1>1, <1>2, <1>3, <1>5, <1>6, <1>7, <2>1 DEF Covered, SameStatus, Past, Unlimited
<1>. QED
  BY <1>8, <1>9

LEMMA PromiseStep ==
  /\ TypeOK /\ CeilingInv /\ Prompt /\ DeadlineInv /\ (Growing => GrowInv /\ AnchorInv)
  /\ PromiseCovered /\ [Next]_vars
  => PromiseCovered'
<1>. SUFFICES ASSUME TypeOK, CeilingInv, Prompt, DeadlineInv, Growing => GrowInv /\ AnchorInv,
                     PromiseCovered, [Next]_vars
              PROVE  PromiseCovered'
  OBVIOUS
<1>. SUFFICES ASSUME Undisturbed', inst'.id # 0
              PROVE  Covered'
  BY DEF PromiseCovered
<1>1. /\ Undisturbed /\ Growing /\ GrowInv /\ OneAnchor /\ StatusComputed /\ "lose" \notin env
      /\ "edit" \notin env /\ "template" \notin env /\ "refuse" \notin env
  BY CalmBefore DEF Undisturbed, Growing, AnchorInv
<1>2. /\ TypeOK /\ now \in Nat /\ pass \in Pass /\ claim \in Claim /\ inst \in Instance
      /\ icache \in Instance /\ claim.expiresAt \in Int /\ inst.won \in Int /\ promise \in Int
  BY NumbersAssumption DEF TypeOK, Time, Claim, Instance, Stamps, None
<1>3. /\ PassOnTheClaim /\ PassSays /\ Agreed /\ Standing /\ DeadlineCopied
  BY DEF DeadlineInv
<1>4. NoInst.id = 0
  BY DEF NoInst
<1>5. Granted' = resolveClaimTTL(claim'.want) /\ Granted = resolveClaimTTL(claim.want)
  BY <1>1, SameSettings DEF Granted
<1>6. inst.id # 0 => Covered
  BY <1>1 DEF PromiseCovered
<1>7. ASSUME /\ UNCHANGED <<now, promise>> /\ inst'.id = inst.id /\ inst'.won = inst.won
             /\ claim'.want = claim.want /\ claim'.expiresAt = claim.expiresAt
      PROVE  Covered'
  BY <1>5, <1>6, <1>7 DEF Covered, Past
<1>8. CASE SyncClaim \/ SyncInst \/ Crash \/ CallFails \/ Serve \/ UNCHANGED vars
           \/ (\E rest \in BOOLEAN : AskExtend(rest)) \/ (\E e \in Engines : EngineMoves(e))
  BY <1>7, <1>8 DEF SyncClaim, SyncInst, Crash, CallFails, Serve, AskExtend, EngineMoves,
     vars, objects, history
<1>9. CASE \/ (\E w \in Wants : EditWant(w)) \/ (\E t \in Templates : EditTemplate(t))
           \/ Refuse \/ LoseInstance
  BY <1>1, <1>9 DEF EditWant, EditTemplate, Refuse, LoseInstance
<1>10. CASE PatchExtend
  <2>1. inst.id # 0
    BY <1>10 DEF PatchExtend
  <2>. QED
    BY <1>1, <1>6, <1>10, <2>1, ExtensionCovered
<1>11. CASE ObserveTerminal \/ Lapse \/ Reconcile \/ Park
  BY <1>7, <1>11, BeginsFields
<1>12. CASE Bind
  <2>1. UNCHANGED <<now, claim>> /\ ccache = claim
    BY <1>12, BeginsFields
  <2>2. /\ inst'.won = now
        /\ promise' = IF Granted <= 0 THEN MaxNow + 1 ELSE now + Granted
    BY <1>2, <1>5, <1>12, <2>1, BindFields
  <2>3. ~Past(claim.expiresAt)
    BY <1>12, <2>1 DEF Bind, isExpired
  <2>4. Granted \in Int /\ (Granted <= 0 => Granted = Unlimited)
    BY <1>1, <1>2, StepType DEF Lifetimes, Unlimited
  <2>. QED
    BY <1>2, <1>5, <2>1, <2>2, <2>3, <2>4 DEF Covered, Past
<1>13. CASE syncInstance
  <2>1. UNCHANGED <<now, claim, promise>>
    BY <1>13 DEF syncInstance, history
  <2>2. inst'.id = inst.id /\ inst'.won = inst.won
    BY <1>2, <1>13, DesiredFields DEF syncInstance
  <2>. QED
    BY <1>7, <2>1, <2>2
<1>14. CASE Release
  BY <1>3, <1>4, <1>14 DEF Release, PassOnTheClaim
<1>15. CASE patchStatus
  <2>1. /\ pass.pc = "patch" /\ UNCHANGED <<now, inst, promise>> /\ claim' = Patched(pass)
    BY <1>15 DEF patchStatus
  <2>2. claim'.want = claim.want /\ claim'.expiresAt = pass.st.expiresAt
    BY <1>3, <2>1, PatchedStatus
  <2>3. ~Past(pass.st.expiresAt)
    BY <1>3, <2>1 DEF PassSays
  <2>. QED
    BY <1>5, <1>6, <2>1, <2>2, <2>3 DEF Covered, Past
<1>16. CASE InstancePass
  <2>1. UNCHANGED <<now, claim, promise>>
    BY <1>16 DEF InstancePass
  <2>2. inst'.id = inst.id /\ inst'.won = inst.won
    BY <1>2, <1>4, <1>16, PromptInstancePass, ObservedFields
  <2>. QED
    BY <1>7, <2>1, <2>2
<1>17. CASE Tick
  <2>1. /\ pass.pc = "idle" /\ ~cq /\ ccache = claim /\ icache = inst
        /\ UNCHANGED <<claim, inst, promise>> /\ now' = now + 1
    BY <1>17 DEF Tick, Busy, Lagging, objects
  <2>2. claim.phase = "Bound" /\ claim.ttl = Granted
    BY <1>1, <1>3, <2>1 DEF Agreed, Quiet, GrowInv, ServedIsGranted
  <2>3. claim.boundAt = inst.won /\ claim.expiresAt = expiryFrom(inst.won, Granted)
    BY <1>1, <1>3, <2>1, <2>2 DEF Standing, OneAnchor, StatusComputed
  <2>4. claim.expiresAt # None => Granted # Unlimited /\ claim.expiresAt = inst.won + Granted
    BY <2>3 DEF expiryFrom, Unlimited
  <2>. QED
    BY <1>2, <1>5, <1>6, <2>1, <2>4 DEF Covered, Past
<1>. QED
  BY <1>8, <1>9, <1>10, <1>11, <1>12, <1>13, <1>14, <1>15, <1>16, <1>17
  DEF Next, ClaimPass, Environment

-----------------------------------------------------------------------------
(* The two together. *)

GrantInv ==
  /\ DeadlineInv /\ OverdueInv /\ (Growing => GrowInv /\ AnchorInv)
  /\ LapseRecorded /\ PromiseCovered

LEMMA GrantInvariant == Spec => [](TypeOK /\ CeilingInv /\ (Prompt => GrantInv))
<1>. DEFINE Inv == TypeOK /\ CeilingInv /\ (Prompt => GrantInv)
<1>1. Init => Inv
  BY TypeInit, CeilingInit, DeadlineInit, OverdueInit, GrowInit, AnchorInit, LapseInit,
     PromiseInit DEF GrantInv
<1>2. Inv /\ [Next]_vars => Inv'
  <2>. SUFFICES ASSUME TypeOK, CeilingInv, Prompt => GrantInv, [Next]_vars
                PROVE  Inv'
    OBVIOUS
  <2>1. TypeOK' /\ CeilingInv' /\ (Prompt' <=> Prompt) /\ (Growing' => Growing)
    BY TypeStep, CeilingStep, SamePlay, CalmBefore DEF Prompt
  <2>2. ASSUME Prompt PROVE GrantInv'
    <3>1. DeadlineInv' /\ OverdueInv' /\ LapseRecorded' /\ PromiseCovered'
      BY <2>2, DeadlineStep, OverdueStep, LapseStep, PromiseStep DEF GrantInv
    <3>2. Growing => GrowInv' /\ AnchorInv'
      BY <2>2, GrowStep, AnchorStep DEF GrantInv
    <3>. QED
      BY <2>1, <3>1, <3>2 DEF GrantInv
  <2>. QED
    BY <2>1, <2>2
<1>. QED
  BY <1>1, <1>2, PTL DEF Spec

(* With an operator that keeps up, a claim whose environment was torn down at *)
(* its deadline is given no other, for any settings and any order of          *)
(* extensions, passes and failures the property allows: the deadline is in    *)
(* the status before the instance goes, or the pass that tore it down patches *)
(* Expired before another can begin.                                          *)
THEOREM LapsedGetsNoOther == Spec => NoSecondLife
<1>. DEFINE A == (/\ Prompt /\ lapsed
                  /\ \/ faults = 0
                     \/ /\ OneStep /\ Sensible(tmpl)
                        /\ env \cap {"edit", "template", "refuse", "full", "fail"} = {})
                   => last' = last
<1>1. TypeOK /\ CeilingInv /\ (Prompt => GrantInv) /\ [Next]_vars => [A]_vars
  <2>. SUFFICES ASSUME TypeOK, GrantInv, Prompt, lapsed, NoneShortened, [Next]_vars
                PROVE  last' = last
    BY DEF NoneShortened
  <2>1. Over \/ Ending
    BY DEF GrantInv, LapseRecorded
  <2>2. CASE Bind
    BY <2>1, <2>2, BeginsFields DEF Bind, Terminal, isExpired, Over, Ending
  <2>3. CASE ~Bind
    BY <2>3 DEF Next, ClaimPass, Environment, vars, SyncClaim, SyncInst, ObserveTerminal,
       Refuse, Lapse, Reconcile, Park, Serve, syncInstance, Release, patchStatus,
       InstancePass, AskExtend, PatchExtend, EditWant, EditTemplate, EngineMoves, LoseInstance,
       Crash, CallFails, Tick, objects
  <2>. QED
    BY <2>2, <2>3
<1>. QED
  BY <1>1, GrantInvariant, PTL DEF Spec, NoSecondLife

(* With an operator that keeps up, an environment is not torn down at its     *)
(* deadline before what was promised at the binding or to the last extension  *)
(* answered, for any settings and any order the property allows: the status   *)
(* follows the spec by no more than one step, from the anchor of the          *)
(* instance, and both controllers act on the deadline in the status.          *)
THEOREM PromiseIsKept == Spec => GrantIsKept
<1>. DEFINE A == (/\ Prompt /\ lapsed' /\ ~lapsed /\ OneStep /\ Sensible(tmpl)
                  /\ env \cap {"edit", "template", "lose", "refuse"} = {}
                  /\ faults = 0 \/ env \cap {"full", "fail"} = {})
                   => now >= promise
<1>1. TypeOK /\ CeilingInv /\ (Prompt => GrantInv) /\ [Next]_vars => [A]_vars
  <2>. SUFFICES ASSUME TypeOK, GrantInv, Prompt, lapsed', ~lapsed, Undisturbed, [Next]_vars
                PROVE  now >= promise
    BY DEF Undisturbed, Growing, NoEviction
  <2>1. now \in Int /\ promise \in Int
    BY NumbersAssumption DEF TypeOK, Time
  <2>2. inst.id # 0 /\ Past(claim.expiresAt)
    <3>1. /\ DeadlineCopied /\ DueTogether /\ OverdueEnds /\ StatusComputed
      BY CalmBefore DEF GrantInv, DeadlineInv, OverdueInv, AnchorInv, Undisturbed
    <3>2. CASE InstancePass
      BY <3>1, <3>2, PromptInstancePass DEF Deadline, Past, DeadlineCopied, DueTogether
    <3>3. CASE Release
      BY <3>1, <3>3 DEF Release, StatusComputed, Over, OverdueEnds
    <3>4. CASE ~InstancePass /\ ~Release
      BY <3>4 DEF Next, ClaimPass, Environment, vars, SyncClaim, SyncInst, ObserveTerminal,
         Refuse, Lapse, Reconcile, Park, Bind, Serve, syncInstance, patchStatus,
         AskExtend, PatchExtend, EditWant, EditTemplate, EngineMoves, LoseInstance,
         Crash, CallFails, Tick, history
    <3>. QED
      BY <3>2, <3>3, <3>4
  <2>. QED
    BY <2>1, <2>2 DEF GrantInv, PromiseCovered, Covered
<1>. QED
  BY <1>1, GrantInvariant, PTL DEF Spec, GrantIsKept
=============================================================================

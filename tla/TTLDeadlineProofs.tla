------------------------- MODULE TTLDeadlineProofs -------------------------
(***************************************************************************)
(* Proofs about ClaimTTL with an operator that keeps up: what a claim      *)
(* holds is torn down at its deadline.                                     *)
(***************************************************************************)
EXTENDS TTLProofs

-----------------------------------------------------------------------------
(* What holds of a pass and between the passes of the claim controller. *)

(* A pass works on the status the claim has: nobody else writes it.  What it *)
(* knows of the instance is the one there is, unless that is gone.           *)
PassOnTheClaim ==
  /\ ccache.gen <= claim.gen /\ claim.obs <= claim.gen
  /\ pass.pc # "idle" =>
       /\ pass.st.gen <= claim.gen
       /\ inst.id \in {0, pass.id}
       /\ pass.orig.obs = claim.obs /\ pass.orig.phase = claim.phase
       /\ pass.orig.boundAt = claim.boundAt /\ pass.orig.expiresAt = claim.expiresAt
       /\ pass.orig.ttl = claim.ttl /\ pass.orig.max = claim.max

(* A claim that is at its end holds nothing. *)
TerminalHoldsNothing ==
  claim.phase = "Expired" \/ (claim.phase = "Rejected" /\ claim.obs = claim.gen)
    => inst.id = 0

(* A pass says Bound with a deadline that is still ahead and that the         *)
(* instance carries, and anything else only of a claim that holds nothing.    *)
PassSays ==
  /\ pass.pc \in {"serve", "sync"} => pass.id # 0
  /\ pass.pc = "serve" => pass.st.boundAt = now
  /\ pass.pc = "sync" => pass.st.phase = "Bound"
  /\ pass.pc = "release" => pass.st.phase # "Bound"
  /\ pass.pc = "patch" /\ pass.st.phase # "Bound" => inst.id = 0
  /\ pass.pc \in {"sync", "patch"} /\ pass.st.phase = "Bound" =>
       /\ pass.st.boundAt # None
       /\ pass.st.expiresAt = expiryFrom(pass.st.boundAt, pass.st.ttl)
       /\ ~Past(pass.st.expiresAt)
  /\ pass.pc = "patch" /\ pass.st.phase = "Bound" /\ inst.id # 0 =>
       inst.own /\ inst.exp = pass.st.expiresAt

(* The copy that syncInstance compares with says what the instance says. *)
DeadlineCopied ==
  /\ pass.pc \in {"serve", "sync"} /\ icache.id # 0 /\ inst.id # 0 =>
       icache.exp = inst.exp /\ icache.own = inst.own
  /\ ~inst.own => inst.exp = None
  /\ inst.id = 0 => inst = NoInst

(* Between two passes: the claim that is Bound is due in time, and says what  *)
(* the instance says.                                                         *)
Quiet == pass.pc = "idle" /\ ~cq /\ ccache = claim

DueInTime ==
  Quiet /\ claim.phase = "Bound" /\ claim.expiresAt # None =>
    ct # None /\ ct <= claim.expiresAt

Agreed ==
  Quiet /\ icache = inst /\ inst.id # 0 =>
    claim.phase = "Bound" /\ inst.own /\ claim.expiresAt = inst.exp

Standing ==
  /\ inst.own /\ inst.exp # None => now <= inst.exp
  /\ claim.phase = "Bound" =>
       claim.boundAt # None /\ (claim.expiresAt # None => now <= claim.expiresAt)

DeadlineInv ==
  /\ PassOnTheClaim /\ TerminalHoldsNothing /\ PassSays /\ DeadlineCopied
  /\ DueInTime /\ Agreed /\ Standing

-----------------------------------------------------------------------------
(* The steps, by what they do when the operator keeps up. *)

(* Someone asks, edits the spec or the template, or the engine moves. *)
Outside ==
  \/ (\E rest \in BOOLEAN : AskExtend(rest)) \/ PatchExtend
  \/ (\E w \in Wants : EditWant(w)) \/ (\E t \in Templates : EditTemplate(t))
  \/ (\E e \in Engines : EngineMoves(e)) \/ UNCHANGED vars

SameStatus ==
  /\ claim'.obs = claim.obs /\ claim'.phase = claim.phase /\ claim'.boundAt = claim.boundAt
  /\ claim'.expiresAt = claim.expiresAt /\ claim'.ttl = claim.ttl /\ claim'.max = claim.max

LEMMA OutsideFields ==
  ASSUME TypeOK, Outside
  PROVE  /\ UNCHANGED <<now, ccache, inst, icache, last, pass, cq, ct, faults, lapsed>>
         /\ SameStatus
         /\ claim' = claim \/ claim'.gen = claim.gen + 1
<1>1. claim \in Claim /\ req \in Request
  BY DEF TypeOK
<1>2. CASE PatchExtend
  <2>1. UNCHANGED <<now, ccache, inst, icache, last, pass, cq, ct, faults, lapsed>>
    BY <1>2 DEF PatchExtend, caches, queues
  <2>2. \/ claim' = claim
        \/ claim' = [claim EXCEPT !.want = req.wanted, !.gen = @ + 1]
    BY <1>2 DEF PatchExtend
  <2>3. req.wanted \in Int
    BY <1>1 DEF Request
  <2>. QED
    BY <1>1, <2>1, <2>2, <2>3, WantFields DEF SameStatus
<1>3. ASSUME NEW w \in Wants, EditWant(w)
      PROVE  /\ UNCHANGED <<now, ccache, inst, icache, last, pass, cq, ct, faults, lapsed>>
             /\ SameStatus /\ claim'.gen = claim.gen + 1
  <2>1. UNCHANGED <<now, ccache, inst, icache, last, pass, cq, ct, faults, lapsed>>
    BY <1>3 DEF EditWant, caches, queues, history
  <2>2. claim' = [claim EXCEPT !.want = w, !.gen = @ + 1] /\ w \in Int
    BY <1>3, SettingsAssumption DEF EditWant
  <2>. QED
    BY <1>1, <2>1, <2>2, WantFields DEF SameStatus
<1>. QED
  BY <1>2, <1>3 DEF Outside, SameStatus, AskExtend, EditTemplate, EngineMoves, vars, objects,
     caches, queues, history

(* A pass begins. *)
LEMMA BeginsFields ==
  ASSUME TypeOK, Prompt,
         ObserveTerminal \/ Refuse \/ Lapse \/ Reconcile \/ Park \/ Bind
  PROVE  /\ pass.pc = "idle" /\ ccache = claim /\ icache = inst /\ boundInstance = inst
         /\ UNCHANGED <<now, claim, ccache, icache, faults>> /\ cq' = FALSE
         /\ IF Terminal THEN ObserveTerminal ELSE ~ObserveTerminal
         /\ ObserveTerminal \/ Refuse \/ Lapse \/ Reconcile \/ Park
              => UNCHANGED <<inst, last, lapsed, promise>>
BY PromptPass
DEF ObserveTerminal, Refuse, Lapse, Reconcile, Park, Bind, Began, objects, caches, history

(* What patchStatus makes of a claim whose status the pass has read. *)
LEMMA PatchedStatus ==
  ASSUME TypeOK, PassOnTheClaim, pass.pc = "patch"
  PROVE  /\ Patched(pass) \in Claim
         /\ Patched(pass).want = claim.want /\ Patched(pass).gen = claim.gen
         /\ Patched(pass).obs = pass.st.gen /\ Patched(pass).phase = pass.st.phase
         /\ Patched(pass).boundAt = pass.st.boundAt
         /\ Patched(pass).expiresAt = pass.st.expiresAt
         /\ Patched(pass).ttl = pass.st.ttl /\ Patched(pass).max = pass.st.max
<1>1. claim \in Claim /\ pass \in Pass
  BY DEF TypeOK
<1>2. /\ pass.orig.obs = claim.obs /\ pass.orig.phase = claim.phase
      /\ pass.orig.boundAt = claim.boundAt /\ pass.orig.expiresAt = claim.expiresAt
      /\ pass.orig.ttl = claim.ttl /\ pass.orig.max = claim.max
  BY DEF PassOnTheClaim
<1>. QED
  BY <1>1, <1>2, PatchedFields

(* The pass goes on to its patch. *)
LEMMA ToPatch ==
  ASSUME pass \in Pass, pass' = [pass EXCEPT !.pc = "patch"]
  PROVE  /\ pass'.pc = "patch" /\ pass'.st = pass.st /\ pass'.id = pass.id
         /\ pass'.orig = pass.orig
BY DEF Pass

(* The requeue that a patch asks for comes no later than the deadline. *)
LEMMA RequeueInTime ==
  ASSUME now \in Nat, ct \in Stamps, NEW p \in Pass, p.st.phase = "Bound",
         p.st.expiresAt # None, ~Past(p.st.expiresAt)
  PROVE  /\ AddAfter(ct, RequeueAt(p)) # None
         /\ AddAfter(ct, RequeueAt(p)) <= p.st.expiresAt
<1>1. p.st.expiresAt \in Nat /\ p.st.expiresAt > now
  BY DEF Pass, Claim, Stamps, Past, None
<1>2. RequeueAt(p) \in {now + 1, p.st.expiresAt}
  BY DEF RequeueAt
<1>. QED
  BY <1>1, <1>2 DEF AddAfter, Stamps, None

-----------------------------------------------------------------------------
(* Torn down at the deadline. *)

LEMMA DeadlineInit == Init => DeadlineInv
BY DEF Init, DeadlineInv, PassOnTheClaim, TerminalHoldsNothing, PassSays, DeadlineCopied,
       DueInTime, Agreed, Standing, Quiet, NewClaim, NoInst, NoPass, None

(* While a pass is under way nothing is settled. *)
LEMMA NotQuiet ==
  ASSUME pass'.pc # "idle" \/ cq' = TRUE
  PROVE  DueInTime' /\ Agreed'
BY DEF DueInTime, Agreed, Quiet

LEMMA DeadlineStep ==
  TypeOK /\ CeilingInv /\ Prompt /\ DeadlineInv /\ [Next]_vars => DeadlineInv'
<1>. SUFFICES ASSUME TypeOK, CeilingInv, Prompt, DeadlineInv, [Next]_vars PROVE DeadlineInv'
  OBVIOUS
<1>1. /\ TypeOK /\ now \in Nat /\ pass \in Pass /\ claim \in Claim /\ ccache \in Claim
      /\ inst \in Instance /\ icache \in Instance /\ tmpl \in Templates /\ last \in Nat
      /\ ct \in Stamps
  BY NumbersAssumption DEF TypeOK, Time
<1>2. /\ claim.gen \in Nat /\ claim.obs \in Nat /\ ccache.gen \in Nat
      /\ claim.expiresAt \in Int /\ inst.exp \in Int /\ pass.st.expiresAt \in Int
      /\ pass.st.gen \in Nat
  BY <1>1 DEF Claim, Instance, Pass, Stamps, None
<1>3. /\ PassOnTheClaim /\ TerminalHoldsNothing /\ PassSays /\ DeadlineCopied
      /\ DueInTime /\ Agreed /\ Standing
  BY DEF DeadlineInv
<1>4. /\ NoPass.pc = "idle" /\ NoInst.id = 0 /\ ~NoInst.own /\ NoInst.exp = None
  BY DEF NoPass, NoInst
<1>5. CASE Outside
  <2>1. /\ UNCHANGED <<now, ccache, inst, icache, pass, cq, ct>> /\ SameStatus
        /\ claim' = claim \/ claim'.gen = claim.gen + 1
    BY <1>5, OutsideFields
  <2>2. PassOnTheClaim' /\ TerminalHoldsNothing'
    BY <1>2, <1>3, <2>1 DEF SameStatus, PassOnTheClaim, TerminalHoldsNothing
  <2>3. PassSays' /\ DeadlineCopied' /\ Standing'
    BY <1>3, <2>1 DEF SameStatus, PassSays, DeadlineCopied, Standing, Past
  <2>4. ccache = claim' => claim' = claim
    BY <1>2, <1>3, <2>1 DEF PassOnTheClaim
  <2>5. DueInTime' /\ Agreed'
    BY <1>3, <2>1, <2>4 DEF DueInTime, Agreed, Quiet
  <2>. QED
    BY <2>2, <2>3, <2>5 DEF DeadlineInv
<1>6. CASE SyncClaim \/ SyncInst
  <2>1. /\ UNCHANGED <<now, claim, inst, pass>> /\ cq' = TRUE
        /\ ccache' \in {ccache, claim} /\ icache' \in {icache, inst}
    BY <1>6 DEF SyncClaim, SyncInst, objects
  <2>2. PassOnTheClaim' /\ TerminalHoldsNothing' /\ PassSays' /\ DeadlineCopied' /\ Standing'
    BY <1>2, <1>3, <2>1
    DEF PassOnTheClaim, TerminalHoldsNothing, PassSays, DeadlineCopied, Standing, Past
  <2>. QED
    BY <2>1, <2>2, NotQuiet DEF DeadlineInv
<1>7. CASE Crash \/ CallFails
  <2>1. /\ UNCHANGED <<now, claim, inst>> /\ cq' = TRUE /\ pass' = NoPass
        /\ ccache' \in {ccache, claim}
    BY <1>7 DEF Crash, CallFails, objects, caches
  <2>2. PassOnTheClaim' /\ TerminalHoldsNothing' /\ PassSays' /\ DeadlineCopied' /\ Standing'
    BY <1>2, <1>3, <1>4, <2>1
    DEF PassOnTheClaim, TerminalHoldsNothing, PassSays, DeadlineCopied, Standing, Past
  <2>. QED
    BY <2>1, <2>2, NotQuiet DEF DeadlineInv
<1>8. CASE ObserveTerminal \/ Refuse \/ Lapse \/ Reconcile \/ Park \/ Bind
  <2>1. /\ pass.pc = "idle" /\ ccache = claim /\ icache = inst /\ boundInstance = inst
        /\ UNCHANGED <<now, claim, ccache, icache>>
        /\ IF Terminal THEN ObserveTerminal ELSE ~ObserveTerminal
        /\ ObserveTerminal \/ Refuse \/ Lapse \/ Reconcile \/ Park => UNCHANGED inst
    BY <1>8, BeginsFields
  <2>2. /\ Resolved.gen = claim.gen /\ Resolved.boundAt = claim.boundAt /\ Resolved \in Claim
    BY <1>1, <2>1, ResolvedFields
  <2>3. TerminalHoldsNothing' /\ (ObserveTerminal => inst.id = 0)
    BY <1>3, <1>8, <2>1 DEF TerminalHoldsNothing, Terminal
  <2>4. ASSUME pass'.orig = claim, pass'.st.gen = claim.gen, inst'.id \in {0, pass'.id}
        PROVE  PassOnTheClaim'
    BY <1>2, <1>3, <2>1, <2>4 DEF PassOnTheClaim
  <2>5. CASE ObserveTerminal /\ pass' = pass
    <3>1. inst.id = 0 /\ claim.phase # "Bound"
      BY <2>1, <2>3, <2>5 DEF ObserveTerminal, Terminal
    <3>2. inst' = inst
      BY <2>5 DEF ObserveTerminal, objects
    <3>3. PassOnTheClaim' /\ PassSays' /\ DeadlineCopied' /\ Standing'
      BY <1>3, <2>1, <2>5, <3>2 DEF PassOnTheClaim, PassSays, DeadlineCopied, Standing, Past
    <3>4. DueInTime' /\ Agreed'
      BY <2>1, <3>1, <3>2 DEF DueInTime, Agreed
    <3>. QED
      BY <2>3, <3>3, <3>4 DEF DeadlineInv
  <2>6. CASE /\ inst' = inst /\ pass'.pc = "patch" /\ pass'.st.phase # "Bound" /\ inst.id = 0
             /\ pass'.orig = claim /\ pass'.st.gen = claim.gen
    <3>1. PassOnTheClaim' /\ PassSays' /\ DeadlineCopied' /\ Standing'
      BY <1>3, <2>1, <2>4, <2>6 DEF PassSays, DeadlineCopied, Standing
    <3>. QED
      BY <2>3, <2>6, <3>1, NotQuiet DEF DeadlineInv
  <2>7. CASE /\ inst' = inst /\ pass'.pc = "release" /\ pass'.st.phase # "Bound" /\ inst.id \in {0, pass'.id}
             /\ pass'.orig = claim /\ pass'.st.gen = claim.gen
    <3>1. PassOnTheClaim' /\ PassSays' /\ DeadlineCopied' /\ Standing'
      BY <1>3, <2>1, <2>4, <2>7 DEF PassSays, DeadlineCopied, Standing
    <3>. QED
      BY <2>3, <2>7, <3>1, NotQuiet DEF DeadlineInv
  <2>8. CASE ObserveTerminal
    BY <1>1, <2>1, <2>3, <2>5, <2>6, <2>8, ObserveFields DEF Moves
  <2>9. CASE Refuse
    BY <1>1, <2>1, <2>2, <2>7, <2>9, RefuseFields DEF Moves, Keeps
  <2>10. CASE Lapse
    BY <1>1, <2>1, <2>2, <2>7, <2>10, LapseFields DEF Moves, Keeps
  <2>11. CASE Park
    <3>1. inst.id = 0
      BY <2>1, <2>11 DEF Park
    <3>. QED
      BY <1>1, <2>1, <2>2, <2>6, <2>11, <3>1, HoldingFields DEF Moves, Keeps
  <2>12. CASE Reconcile
    <3>1. Decide(Resolved, inst) /\ inst.id # 0
      BY <2>1, <2>12 DEF Reconcile
    <3>2. CASE pass'.pc = "release"
      BY <1>1, <2>1, <2>2, <2>7, <2>12, <3>1, <3>2, DecideFields DEF Moves, Keeps
    <3>3. CASE pass'.pc = "sync"
      <4>1. /\ pass'.st.phase = "Bound" /\ pass'.id = inst.id /\ pass'.orig = claim
            /\ pass'.st.gen = claim.gen /\ ~Past(pass'.st.expiresAt)
            /\ pass'.st.boundAt = Anchor(Resolved, inst)
            /\ pass'.st.expiresAt = expiryFrom(pass'.st.boundAt, pass'.st.ttl)
        BY <1>1, <2>1, <2>2, <3>1, <3>3, DecideFields DEF Moves, Keeps, Deadlined
      <4>2. pass'.st.boundAt # None
        BY <3>1, <4>1 DEF Anchor, CeilingInv, Anchored
      <4>3. inst' = inst
        BY <2>1, <2>12
      <4>4. PassOnTheClaim' /\ PassSays' /\ DeadlineCopied' /\ Standing'
        BY <1>3, <2>1, <2>4, <3>1, <3>3, <4>1, <4>2, <4>3
        DEF PassSays, DeadlineCopied, Standing, Past
      <4>. QED
        BY <2>3, <3>3, <4>4, NotQuiet DEF DeadlineInv
    <3>. QED
      BY <1>1, <2>2, <3>1, <3>2, <3>3, DecideFields DEF Moves
  <2>13. CASE Bind
    <3>1. /\ inst'.id = last + 1 /\ last + 1 # 0 /\ pass'.pc = "serve" /\ pass'.id = last + 1
          /\ pass'.orig = claim /\ pass'.st.gen = claim.gen /\ pass'.st.boundAt = now
          /\ \/ inst'.own /\ inst'.exp = expiryFrom(now, resolveClaimTTL(ccache.want))
             \/ ~inst'.own /\ inst'.exp = None
      BY <1>1, <2>1, <2>2, <2>13, BindFields DEF Moves, Keeps
    <3>2. resolveClaimTTL(ccache.want) \in Int /\ now \in Nat
      BY <1>1, GrantType DEF Claim
    <3>3. icache'.id = 0
      BY <2>1, <2>13 DEF Bind
    <3>4. PassOnTheClaim' /\ PassSays' /\ DeadlineCopied'
      BY <2>1, <2>4, <3>1, <3>3 DEF PassSays, DeadlineCopied
    <3>5. Standing'
      BY <1>3, <2>1, <3>1, <3>2 DEF Standing, expiryFrom, None
    <3>. QED
      BY <2>3, <3>1, <3>4, <3>5, NotQuiet DEF DeadlineInv
  <2>. QED
    BY <1>8, <2>8, <2>9, <2>10, <2>11, <2>12, <2>13
<1>9. CASE Serve
  <2>. DEFINE i == [NoInst EXCEPT !.id = pass.id]
  <2>1. i \in Instance /\ i.id = pass.id /\ pass.st \in Claim
    BY <1>1, NoPassType DEF Instance, Pass
  <2>2. /\ pass.pc = "serve" /\ Decide(pass.st, i)
        /\ UNCHANGED <<now, claim, ccache, inst, icache>>
    BY <1>9 DEF Serve, objects, caches
  <2>. HIDE DEF i
  <2>3. pass.st.boundAt = now /\ pass.id # 0 /\ now # None
    BY <1>1, <1>3, <2>2 DEF PassSays, None
  <2>4. /\ pass'.id = pass.id /\ pass'.orig = pass.orig /\ pass'.st.gen = pass.st.gen
        /\ \/ pass'.pc = "release" /\ pass'.st.phase # "Bound"
           \/ /\ pass'.pc = "sync" /\ pass'.st.phase = "Bound" /\ ~Past(pass'.st.expiresAt)
              /\ pass'.st.boundAt = now
              /\ pass'.st.expiresAt = expiryFrom(pass'.st.boundAt, pass'.st.ttl)
    BY <1>1, <2>1, <2>2, <2>3, DecideFields DEF Moves, Keeps, Deadlined, Anchor
  <2>5. PassOnTheClaim' /\ TerminalHoldsNothing' /\ PassSays' /\ DeadlineCopied' /\ Standing'
    BY <1>3, <2>2, <2>3, <2>4
    DEF PassOnTheClaim, TerminalHoldsNothing, PassSays, DeadlineCopied, Standing, Past
  <2>. QED
    BY <2>4, <2>5, NotQuiet DEF DeadlineInv
<1>10. CASE syncInstance
  <2>1. pass.pc = "sync" /\ UNCHANGED <<now, claim, ccache, icache>>
    BY <1>10 DEF syncInstance, caches
  <2>2. CASE inst' = inst /\ pass' = NoPass /\ cq' = TRUE
    <3>1. PassOnTheClaim' /\ TerminalHoldsNothing' /\ PassSays' /\ DeadlineCopied' /\ Standing'
      BY <1>3, <1>4, <2>1, <2>2
      DEF PassOnTheClaim, TerminalHoldsNothing, PassSays, DeadlineCopied, Standing, Past
    <3>. QED
      BY <2>2, <3>1, NotQuiet DEF DeadlineInv
  <2>3. ASSUME pass' = [pass EXCEPT !.pc = "patch"], inst'.id = inst.id,
               inst'.id # 0 => inst'.own /\ inst'.exp = pass.st.expiresAt,
               inst' = inst \/ inst.id # 0
        PROVE  DeadlineInv'
    <3>1. /\ pass'.pc = "patch" /\ pass'.st = pass.st /\ pass'.id = pass.id
          /\ pass'.orig = pass.orig
      BY <1>1, <2>3, ToPatch
    <3>2. pass.st.phase = "Bound" /\ ~Past(pass.st.expiresAt)
      BY <1>3, <2>1 DEF PassSays
    <3>3. PassOnTheClaim' /\ TerminalHoldsNothing' /\ PassSays'
      BY <1>3, <2>1, <2>3, <3>1, <3>2
      DEF PassOnTheClaim, TerminalHoldsNothing, PassSays, Past
    <3>4. DeadlineCopied' /\ Standing'
      BY <1>1, <1>2, <1>3, <2>1, <2>3, <3>1, <3>2 DEF DeadlineCopied, Standing, Past
    <3>. QED
      BY <3>1, <3>3, <3>4, NotQuiet DEF DeadlineInv
  <2>4. CASE inst' = inst /\ Desired(icache) = icache /\ icache.id = pass.id
             /\ pass' = [pass EXCEPT !.pc = "patch"]
    <3>1. icache.own /\ icache.exp = pass.st.expiresAt /\ icache.id # 0
      BY <1>1, <1>3, <2>1, <2>4, DesiredFields DEF PassSays
    <3>2. inst.id # 0 => inst.own /\ inst.exp = pass.st.expiresAt
      BY <1>1, <1>3, <2>1, <3>1 DEF DeadlineCopied, Instance
    <3>. QED
      BY <2>3, <2>4, <3>2
  <2>5. CASE /\ inst' = Desired(inst) /\ icache = inst /\ icache.id = pass.id
             /\ pass' = [pass EXCEPT !.pc = "patch"]
    <3>1. inst'.id = inst.id /\ inst'.own /\ inst'.exp = pass.st.expiresAt
      BY <1>1, <2>5, DesiredFields
    <3>2. inst.id # 0
      BY <1>3, <2>1, <2>5 DEF PassSays
    <3>. QED
      BY <2>3, <2>5, <3>1, <3>2
  <2>. QED
    BY <1>10, <2>2, <2>4, <2>5 DEF syncInstance
<1>11. CASE Release
  <2>1. /\ pass.pc = "release" /\ UNCHANGED <<now, claim, ccache, icache>>
        /\ pass' = [pass EXCEPT !.pc = "patch"]
    BY <1>11 DEF Release, caches
  <2>2. /\ pass'.pc = "patch" /\ pass'.st = pass.st /\ pass'.id = pass.id
        /\ pass'.orig = pass.orig
    BY <1>1, <2>1, ToPatch
  <2>3. inst' = NoInst
    BY <1>3, <1>11, <2>1 DEF Release, PassOnTheClaim, DeadlineCopied
  <2>4. PassOnTheClaim' /\ TerminalHoldsNothing' /\ PassSays' /\ DeadlineCopied' /\ Standing'
    BY <1>3, <1>4, <2>1, <2>2, <2>3
    DEF PassOnTheClaim, TerminalHoldsNothing, PassSays, DeadlineCopied, Standing, Past
  <2>. QED
    BY <2>2, <2>4, NotQuiet DEF DeadlineInv
<1>12. CASE patchStatus
  <2>1. /\ pass.pc = "patch" /\ UNCHANGED <<now, inst, ccache, icache>> /\ pass' = NoPass
        /\ claim' = Patched(pass) /\ ct' = AddAfter(ct, RequeueAt(pass))
    BY <1>12 DEF patchStatus, caches
  <2>2. /\ claim'.gen = claim.gen /\ claim'.obs = pass.st.gen /\ claim'.phase = pass.st.phase
        /\ claim'.boundAt = pass.st.boundAt /\ claim'.expiresAt = pass.st.expiresAt
    BY <1>3, <2>1, PatchedStatus
  <2>3. PassOnTheClaim' /\ TerminalHoldsNothing' /\ PassSays' /\ DeadlineCopied'
    BY <1>3, <1>4, <2>1, <2>2
    DEF PassOnTheClaim, TerminalHoldsNothing, PassSays, DeadlineCopied
  <2>4. Standing'
    BY <1>1, <1>2, <1>3, <2>1, <2>2 DEF Standing, PassSays, Past
  <2>5. DueInTime'
    BY <1>1, <1>3, <2>1, <2>2, RequeueInTime DEF DueInTime, PassSays
  <2>6. Agreed'
    BY <1>3, <2>1, <2>2 DEF Agreed, PassSays
  <2>. QED
    BY <2>3, <2>4, <2>5, <2>6 DEF DeadlineInv
<1>13. CASE InstancePass \/ LoseInstance
  <2>1. UNCHANGED <<now, claim, ccache, icache, pass, cq, ct>>
    BY <1>13 DEF InstancePass, LoseInstance, caches, queues
  <2>2. \/ inst' = inst
        \/ inst' = NoInst /\ inst.id # 0
        \/ /\ inst'.id = inst.id /\ inst'.own = inst.own /\ inst'.exp = inst.exp
           /\ icache = inst /\ inst.id # 0
    BY <1>1, <1>13, PromptInstancePass, ObservedFields DEF LoseInstance
  <2>3. PassOnTheClaim' /\ TerminalHoldsNothing' /\ PassSays' /\ DeadlineCopied' /\ Standing'
    BY <1>3, <1>4, <2>1, <2>2
    DEF PassOnTheClaim, TerminalHoldsNothing, PassSays, DeadlineCopied, Standing, Past
  <2>4. DueInTime' /\ Agreed'
    BY <1>3, <1>4, <2>1, <2>2 DEF DueInTime, Agreed, Quiet
  <2>. QED
    BY <2>3, <2>4 DEF DeadlineInv
<1>14. CASE Tick
  <2>1. /\ pass.pc = "idle" /\ ccache = claim /\ icache = inst /\ ~cq /\ ~Past(ct)
        /\ UNCHANGED <<claim, ccache, inst, icache, pass, cq, ct>> /\ now' = now + 1
    BY <1>14 DEF Tick, Busy, Lagging, objects, caches, queues
  <2>2. PassOnTheClaim' /\ TerminalHoldsNothing' /\ PassSays' /\ DeadlineCopied'
        /\ DueInTime' /\ Agreed'
    BY <1>3, <2>1 DEF PassOnTheClaim, TerminalHoldsNothing, PassSays, DeadlineCopied,
       DueInTime, Agreed, Quiet
  <2>3. Quiet /\ (claim.phase = "Bound" /\ claim.expiresAt # None => now + 1 <= claim.expiresAt)
    BY <1>1, <1>2, <1>3, <2>1 DEF Quiet, DueInTime, Past, Stamps, None
  <2>4. Standing'
    BY <1>3, <1>4, <2>1, <2>3 DEF Standing, Agreed, DeadlineCopied
  <2>. QED
    BY <2>2, <2>4 DEF DeadlineInv
<1>. QED
  BY <1>5, <1>6, <1>7, <1>8, <1>9, <1>10, <1>11, <1>12, <1>13, <1>14
  DEF Next, ClaimPass, Environment, Outside

LEMMA DeadlineInvariant == Spec => [](TypeOK /\ CeilingInv /\ (Prompt => DeadlineInv))
<1>. DEFINE Inv == TypeOK /\ CeilingInv /\ (Prompt => DeadlineInv)
<1>1. Init => Inv
  BY TypeInit, CeilingInit, DeadlineInit
<1>2. Inv /\ [Next]_vars => Inv'
  BY TypeStep, CeilingStep, DeadlineStep, SamePlay DEF Prompt
<1>. QED
  BY <1>1, <1>2, PTL DEF Spec

(* With an operator that keeps up, no instance and no Bound claim is there    *)
(* past its deadline: for any settings and extensions, any failure of the     *)
(* engine, and crashes and failing calls at any point of a pass, one of the   *)
(* two controllers is woken in time.                                          *)
THEOREM DeadlineIsMet == Spec => []TornDownAtDeadline
<1>1. (Prompt => DeadlineInv) => TornDownAtDeadline
  BY DEF DeadlineInv, Standing, TornDownAtDeadline
<1>. QED
  BY <1>1, DeadlineInvariant, PTL
=============================================================================

# dploy in TLA+

dploy hands out on-demand environments (a Helm release in a namespace of its own)
to users of a Kubernetes cluster. A `DployTemplate` describes an environment and
may keep a warm pool of it; a `DployInstanceClaim` asks for one; a
`DployInstance` is one. Three controllers of one operator process move these
objects, and a REST API and a CTFd plugin create, extend and delete claims.

This directory holds TLA+ models of the operator and of the requests to it, TLC configurations for small
instances of them, and proofs checked by TLAPS. `PROJECT.json` maps every
definition to the lines it models.

## 1. Inventory

| Part | Source | State it keeps | Operations |
|---|---|---|---|
| Claim controller | `internal/controller/dployinstanceclaim_controller.go` | nothing of its own: claim status, the claim-UID label, owner and controller reference of instances | look up the bound instance, check quota and capacity, take a warm member, create on demand, evict itself after a race, sync ownership, report, park, reject, expire |
| Template controller | `internal/controller/dploytemplate_controller.go` | template status; the warm members | fill the pool, purge its surplus, verify the chart |
| Instance controller | `internal/controller/dployinstance_controller.go`, `naming.go` | instance status (UUID, namespace, phase), finalizer | finalizer, UUID, namespace, chart source, HelmRelease, projection, expiry, teardown |
| Flux engine | `internal/controller/flux.go` | namespaces, sources, HelmReleases | create-or-update each, translate conditions |
| Lifetimes | `resolveClaimTTL`, `maxLifetime`, `expiryFrom`, `boundAtOf`, `failedFor` of the claim controller; `applyTTL` of the instance controller; `ExtendClaim` in `internal/kube/client.go`, `extend` of the plugin | `boundAt` (status and annotation), `expiresAt` (status of the claim, spec of the instance), `spec.ttlSeconds` | compute, cap, anchor, copy, extend, enforce twice |
| Kube client, REST handlers | `internal/kube`, `internal/handlers` | none | `EnsureClaim`, `ExtendClaim`, `DeleteClaim` |
| Operator configuration | `internal/operatorconfig`, `operatorconfig_controller.go` | a merged configuration | merge defaults |
| CTFd plugin | `integrations/ctfd_dploy` | a bounded queue of releases | claim on request, release on a solve |
| Authentication, templating, web UI, process wiring, charts | `internal/auth`, `internal/templating`, `web`, `cmd`, `charts`, `config`, `dev` | none the controllers share | |

The parts talk through the API server only. Every controller reads from informer
caches that lag behind by an unknown amount, and decides on what it has read. Three
kinds of write carry the correctness of the system, and they differ:

* **conditional** writes (`Update`, `Delete` with a precondition) are refused
  when the copy they are based on is no longer the latest: winning a warm member,
  syncing ownership, purging a surplus member, adding and removing the finalizer;
* **unconditional** writes go through: every status patch, which is a merge
  patch that carries only the fields that differ *from the copy that was read*,
  and every eviction or expiry, a plain `Delete`;
* **creates** are refused when the object exists.

What is hard about it: many claims reconcile in parallel; every decision may be
taken on an old copy; the operator may die between any two writes; a binding takes
three writes (label, ownership, status); quota and `maxSize` are checked before a
binding and re-checked after it, because no lock spans several claims; teardown
races with provisioning. What makes each part correct:

* *claims*: a claim holds at most one instance, an instance never changes hands,
  the status names only what was won, what was won is eventually reported, a race
  for the quota has a winner and no lasting excess, a waiting claim is served;
* *pool*: refilled behind a binding; a purge never destroys a claimed member;
* *instances*: nothing is created that nobody would delete, an environment never
  moves to another namespace, every teardown ends, a healthy one is reported up;
* *lifetimes*: none passes the ceiling, whatever is asked for and whoever loses a
  write; what was granted is not cut short by an older copy; at the deadline the
  environment goes, and no other takes its place; a failed one is released, one that
  recovers is not;
* *requests*: asking twice never costs an environment that is up, an answer names
  a claim, the release behind a solve happens or is given up, and never blocks.

## 2. Modules

```
Cluster  <--- ClaimController <--+
   ^                             +-- Binding <-- MCBinding          (TLC)
   +-------- PoolController <----+   |  ^------- BindingProofs      (TLAPS)
                                     |              ^-- AllocationProofs (TLAPS)
                   implements        v                     ^-- QuotaProofs (TLAPS)
                                 Allocation

ClaimTTL <-- MCClaimTTL                                          (TLC)
   ^------- TTLProofs <-- TTLDeadlineProofs <-- TTLGrantProofs   (TLAPS)

InstanceLifecycle  (TLC runs it directly)
   ^------- LifecycleProofs                                      (TLAPS)

ClaimRequests  (TLC runs it directly)
   ^------- RequestsProofs                                       (TLAPS)
```

**Cluster** is the API server with one template, the claims and the instances, the
informer caches, and everybody who writes besides the two controllers of the
model: users, administrators, the instance controller (by its effect), the garbage
collector, time. Resource versions are not counted. A conditional write asks "is my
copy the latest?", so each reader has the set of instances whose copy still is
(`fresh` for the cache, `lock` for the candidates a claim has listed, `tlock` for
the purge victim that was re-read), and every write to an instance takes it out of
all of them. An instance is `gone` from its deletionTimestamp on: every reader in
these controllers skips a dying instance.

**ClaimController** is `DployInstanceClaimReconciler.Reconcile`, one reconcile per
claim at a time and any number of claims in parallel, cut at every call to the API
server. `pc[c]` is the next call, `orig[c]` the claim as the reconcile read it (the
base of its merge patch), `held[c]` the instance at hand, `cand[c]` the candidates
left. One action per call; reads of a cache belong to the step that uses them.

| Code | Actions |
|---|---|
| head of `Reconcile`, `boundInstance` | `Observe`, `Start`, `Confirm` |
| quota pre-check, `bind`, `acquirePooled` | `CheckQuota`, `ListPool`, `Acquire`, `AcquireConflict`, `PoolExhausted`, `CheckCapacity` |
| `createOnDemand` | `createOnDemand` |
| `evictIfOverQuota`, `evictIfOverMaxSize` | `Requota`, `Evict`, `Recap`, `GiveBack` |
| `syncInstance`, `project` | `syncInstance`, `SyncFails`, `PatchBound` |
| `pending`, `reject`, `expire` | `PatchPending`, `Release`, `Drop`, `PatchRejected`, `Expire`, `PatchExpired` |
| error returns | `ApiError` |

**PoolController** is the pool half of `DployTemplateReconciler.Reconcile`: a cached
list, then a burst of creates (`createPoolInstance`) or a purge that re-reads each
victim uncached (`RereadVictim`) and deletes it under a precondition
(`PurgeVictim`).

**Binding** puts both on one cluster, adds the crash of the operator, and states the
properties. A behaviour belongs to one of the `Scenarios`, a set of disturbances that
occur together; `env` is the one it belongs to. They are
`delete`, `edit` (claims), `template` (an administrator's edits), `reap`,
`fail` (the instance controller's doings), `expire` (a deadline passes), `window`
(quotaSettleWindow closes), `crash`, `error`, and `poollag` (below).

**InstanceLifecycle** is `DployInstanceReconciler` on one instance, cut in the same
way, with helm-controller, the collector and the claim controller as environment.
Instance, namespaces and HelmRelease have lagging copies; `cfresh`, `hfresh` and
`ocur` say whether the instance's cached copy, the release's cached copy and the
copy of the running pass are the latest. A namespace name is the pair of what
`workloadNamespace` puts into it: the owner or `pool`, and the UUID. Its `Env`:
`delete`, `claim`, `template`, `helm` (a release fails), `render` (a template does
not render), `race` (somebody else wrote the shared source or the namespace's
labels), `ttl`, `error`, `crash`, and `uuidlag`.

**ClaimRequests** is one claim name and everybody who files or deletes claims under
it: the REST API (`CreateEnvironment`, `DeleteEnvironment` on `EnsureClaim`,
`GetOwnerClaim`, `DeleteClaim`) or the CTFd plugin (`run`, `stop` on
`_ensure_claim`, `delete_claim_wait`, `create_claim`); `front` says which of the two
is deployed. The name follows from owner and template, so what tells a claim from the
next one of that name is its uid. `pc[r]` is the next call of request `r`, `seen[r]`
the uid of the terminal claim it means to replace. A request refused before its first
call (no such template, a missing parameter) changes nothing and is part of
`CallFails`, as is a call that fails after the server has carried it out. Beside the
requests runs the plugin's release thread: `queue` is `_RELEASES`, filled by
`_queue_release`, emptied by `_drain`; an item is the uid of the claim at the time of
the solve, although the code releases by name; `kept` are the claims whose release was
dropped, given up, lost with the process or not wanted. The operator is one action,
`Reconciled`, by which a claim takes any phase and stays `Expired` once it is. That is
what the comment on the terminal phases says; in `Binding` it holds as long as the
cache of the claim does not lag past the claim's deadline. Its `Env`: `error`, `keep`
(a challenge that does not stop on a solve), `restart`, `admin`.

**Allocation** says in forty lines what handing out environments comes to when nobody
is late: an environment is provided or made to order, won by a claim that holds none,
secured (the claim becomes its owner), taken down; a claim is told of it only once it is
secured, and for good is its holder. There are no caches, locks, reconciles or faults
in it. `Binding` implements it (`ImplementsAllocation`): the label is the holder, label
and ownership are the stage, `status.instanceRef` is what the claim is told.

**ClaimTTL** is one claim, the instances it holds one after another, and a clock. The
claim controller's pass is cut at its writes (`Bind`, `syncInstance`, `Release`,
`patchStatus`), the instance controller's is one step (`applyTTL` or `ReportStatus`).
Both have a lagging copy of what they read, a flag for "an event is queued" (`cq`,
`iq`) and the due time of the delayed entry in their work queue (`ct`, `it`), which is
how `RequeueAfter` works: the earlier due time wins, and a delay that is not positive
adds nothing. That somebody is awake at the deadline is therefore something the model
can get wrong. Quota, capacity and template checks are answers (`Refuse`, `Park`); who
gets which instance is `Binding`'s question. The template's TTL, the
OperatorConfig and the fallbacks are records of `seconds`, `extend` and `max` in which 0
is "unset" and -1 "no limit". They may be any integers, as may `spec.ttlSeconds`: the only
minimum the CRDs set is that of a template's `extendSeconds`. An extension reads (`AskExtend`) and later patches (`PatchExtend`), either
through the API (`rest`) or the plugin, which asks less; one is under way at a time.
`promise` records the deadline an environment was given at the binding or the last
extension was answered, `lapsed` that it was torn down at its deadline, `bad` for how long
it has been Failed: histories that only properties read.

| Code | Definitions |
|---|---|
| `operatorconfig.Resolve`, `resolveInstanceTTL`, `maxLifetime`, `resolveClaimTTL` | the same names |
| head of `Reconcile` | `Began`, `ObserveTerminal`, `Refuse`, `Lapse` |
| from the anchor on | `Bind`, `Serve`, `Reconcile`, all through `Decide` |
| `syncInstance`, deletes, `patchStatus`, `RequeueAfter` | `syncInstance`, `Release`, `patchStatus`, `RequeueAt` |
| instance controller | `InstancePass`: `applyTTL`, `ReportStatus` |
| `ExtendTTL`, `ExtendClaim`, `extend` | `AskExtend`, `PatchExtend` |

A behaviour belongs to one of the `Scenarios`, a set of disturbances that occur
together: `fail` (the engine moves between progressing, ready, failed and a step that
breaks), `source` (and, with `fail`, a source that is not ready), `extend` (through the API), `plugin` (through CTFd), `edit` (of `spec.ttlSeconds`), `template` (of
its TTL), `refuse`, `full`, `lose` (the instance is deleted), `error`, `crash`, `slow`.
Without `slow` the operator keeps up (`Prompt`): no time passes while it has work, and a
pass begins on current copies, so one tick is long against a reconcile. With it, copies
and passes may be late by any number of ticks. What cannot hold for a late operator
says so (`Prompt =>`); `LifetimeWithinCeiling` is for all.

Two disturbances lift an assumption the code makes about the speed of its caches:

* without `poollag` (`Binding`), the template controller lists only when its own creates have
  arrived (`CreatesVisible`), which the comment on the fill loop relies on; with
  it, the loop may overfill;
* without `uuidlag` (`InstanceLifecycle`), a pass that draws a UUID does not run while an earlier draw is
  on its way (`UUIDVisible`); the code waits `continueRequeue` for that. With it,
  a second UUID may replace the first, and `NamespacePinned` fails. The assumption
  is a hypothesis of the theorem `NamespaceStays`.

Some definitions are followed in name by a suffix (`Acquire_Unconditional`). They
are wrong versions of the definition after them, and part of no specification: each
shows that a property notices that mistake.

## 3. Runs

| Run | Instance | Checks |
|---|---|---|
| `bind_churn` | 1 claim, 2 instances, maxSize 1, template on or off, 4 scenarios: edit, expiry, reaping and deletion; a closing window; the template switched off and on with `poollag`; instances that fail and recover | never two; the status names only what was won; every write is a step of `Allocation`; the purge spares what was won |
| `bind_quota` | 2 claims of one owner over a limit of 1, 2 instances, 1 warm, fairness | types; a claim never holds two instances; `Allocation` is implemented; a label never moves; an excess is evicted while its window is open; evictions leave the owner at the limit |
| `bind_crash` | 2 waiting claims, 1 warm slot, one crash or error, fairness | a win is reported or lost again; both claims are served |
| `life_safety` | 1 instance, 2 UUIDs, 2 faults, everything but `uuidlag`, fairness | types; creation only under the finalizer; the namespace is pinned, and gone before the finalizer; teardown ends; once the source is verified and the disturbances are over, a live instance settles as up |
| `requests` | 2 requests at a time, 2 uids, a queue of 2, 2 attempts, everything in `Env`, fairness | types and the queue's bound; the API deletes only expired claims on its way to a new one; no release is stuck |
| `ttl` | 1 claim, 2 instances, 5 ticks, 4 templates, 14 scenarios, one fault | types, every deadline a time; ceiling; teardown at the deadline; grants kept; no second life; a retry is not a failure |
| `bind_leak` | 1 claim deleted, one crash | violated: see findings |
| `bind_rejected` | 2 claims, one deleted | violated: see findings |
| `life_namespace` | 1 instance deleted, a lost race | violated: see findings |
| `ttl_failed` | 1 claim, 1 instance that may fail, 6 ticks | violated: see findings |
| `ttl_sighting` | 1 claim, 1 instance that may wait for its source and fail, 6 ticks | violated: see findings |
| `request_twice` | 2 requests, nothing else | violated: see findings |

**Bounds.** Claims and instance names are created once, so two names let one claim
lose an instance and get another, or two claims hold one each and race for either;
every property is about one instance and at most two claims. `BindRetries` is 2, so
a claim can lose a candidate and try the next. One crash or error is enough to cut
every reconcile at every call once; `life_safety` has two, so that recovery is cut
too. `MaxGen` 2 lets a rejected claim be edited back to life. In `requests` the second uid
is the claim that takes the place of the first, and the third request of a user adds
nothing to the race of two; a queue of two can be full with an item in work, and two
attempts have a first and a last.

In `ttl` a lifetime is 3 or 4 ticks, or unlimited, its ceiling one extension more, the settle window 1,
the grace 2: so within the horizon of 5 an environment can settle, fail for longer than
the grace, be extended and lapse, and be followed by another; the ceiling of the longest
template and the horizon meet. The four templates say everything, nothing (the
OperatorConfig answers for `seconds`, the fallbacks for the rest), -1, and a lifetime of -5; the claim asks
for 0 or -5. `MaxGen` 3 allows two edits or extensions, one for a late operator
(`EditsLeft`). The scenarios replace one run with everything: each brings together
disturbances that act on the same field. Without the exclusions about faults,
`GrantIsKept` fails in `{full, error}` and `NoSecondLife` in `{edit, crash}`, by the
behaviours of the code that section 4 describes; the other exclusions (`refuse`,
`OneStep`) came from the proofs, whose candidate invariants TLC refuted on wider scenarios
and settings than those of the run. The horizon stops the clock, hence no deadlock check.

The invariants proved in section 5 do not depend on
these bounds at all.

**Deadlock** is checked in `requests`. Everywhere else the model may rightly stop: the
claims are terminal or gone, the instance is gone, or the instance names are used up.

**Fairness** (`FairSpec`). Weak fairness of: each informer; a reconcile that has
begun; a reconcile that asks to come back (in `Binding` a claim that is not
`Bound` to an owned instance past its window: errors and `pending` requeue, a young
binding is requeued every `quotaSettleRequeue`, and a lost instance is an event); the template
controller, which watches its instances; members coming up; the garbage collector;
in `InstanceLifecycle` helm-controller and the chart probe. Users, administrators,
failures, faults and the clock owe nothing. Every exit of `Reconcile` in the
instance controller either requeues or has written something that is an event, so
weak fairness of `Reconcile` as a whole is what the work queue gives. In
`ClaimRequests` the release thread (`while True`, no exception ends it, every call
has a time limit) and the garbage collector; requests owe nothing.

## 4. Findings

Each is a statement of the repository that TLC refutes; `PROJECT.json` quotes the
lines.

* `bind_leak`: a warm member is won by its label, and gets its owner reference in a
  later write. If the operator dies in between and the claim is deleted, nothing
  ever deletes the member: the collector has no reference to follow, the purge
  spares it because it is labelled, no claim can take it.
* `bind_rejected`: the terminal phase is read from the cache. A reconcile that starts
  before the `Rejected` patch is visible may bind, and the claim, terminal from the
  next read on, keeps the environment.
* `life_namespace`: the namespace is created at the start of a pass and its name
  recorded at the end. A pass that loses a race on the chart source returns in
  between; if the instance is then deleted, teardown does not know the name.
* `ttl_failed`: a claim gives up an instance that has been failed for longer than
  `instanceFailureGrace`, in the first pass that finds it so. Past the settle window the
  pass that the failure wakes asks to come back at the deadline, and while the failure
  lasts nothing is written that would wake it earlier: the dead environment stays, and
  counts against the quota, until then.
* `ttl_sighting`: the grace is for an instance that *stays Failed*, but `failedFor` reads
  the time of the last change of the Ready condition. An instance that waits for its
  source is `Provisioning` with Ready=False. A single failed step after that makes it
  `Failed` and leaves the condition, and its time, as they are: after a wait longer than
  the grace the first failure is taken for an old one, and the environment is given up at
  first sight. `RetryIsNotRejected` therefore holds, and is proved, for a source that
  stays ready.
* `request_twice`: the plugin replaces a terminal claim by deleting its *name*. Two
  clicks that read the same terminal claim: the second deletes what the first has
  just got. The API deletes under the uid it has read, and `RestSparesLive` holds.

More was read off the code, or off counterexamples while the models grew, and has no
run of its own. When the create of `EnsureClaim` meets a claim of that name, the answer is
whatever a second lookup finds, and that may be nothing, the claim having been deleted
since (`Reget` answers `nil`); `CreateEnvironment` uses the result unseen.
A release that is followed by a lost status patch leaves `status.boundAt` behind; if the
pass of the next binding ends before its own patch, for which it is enough that its sync
does not find the new instance in the cache, the new environment inherits the old anchor
and is cut short (excluded from `GrantIsKept`). If an edit shortened the lifetime and the pass
that tears down loses its patch, the next one sees the old deadline and binds again
(excluded from `NoSecondLife`). A rejection because the template is missing or disabled
does not clear `status.boundAt` at all: once such a claim is edited and served again, the
same lost patch is enough for the new environment to inherit the anchor, without any fault
before it. The patch of an extension is unconditional: one that was computed from an older
`status.ttlSeconds` lowers `spec.ttlSeconds`. With one request at a time that takes two
sizes of step, an API that extends by the template's `extendSeconds` and a plugin that
extends by `DPLOY_EXTEND_SECONDS` (hence `OneStep`); two requests that overlap need not
even that. `pending` keeps `status.expiresAt`, so a parked claim can
turn `Expired` unserved. The plugin answers an extension of an expired claim with
success, without effect. A negative lifetime other than -1, which a template or the
OperatorConfig may have, is granted as it stands and means no deadline, like -1; but it is
not taken for unlimited where extensions are asked for, and enough of them turn it
into a deadline (hence `Sensible` in `GrantIsKept`). `requireClaim` answers 404 and returns
neither a claim nor an error (`run.go:204`, `notFound` returns that of the write), so
`DeleteEnvironment` and `ExtendTTL` go on without a claim; the panic that follows is
caught by the recover middleware (`cmd/api/main.go:83`) and the answer is a 500. Nothing
has been changed by then, so `RequireClaim` is an answer `error`. Further:
`AlreadyExists` and `Conflict` from `ensureHelmRelease` mark an instance `Failed`
(`dployinstance_controller.go:225`), although the comment on `isCreateRace` says they
never mean that; a full release queue drops the newest release, its comment
(`solve_hook.py:42`) says the oldest; a release is tried again only after a `K8sError`,
while any other error of the call ends it at once.

## 5. Proofs

For every set of claims and instance names, every template, limit, number of faults
and every set of disturbances.

**BindingProofs** proves `Spec => []BindingInv` (`InvariantHolds`) and from it
`TypeCorrect`, `NeverTwo`, `RefsNeverCross`, `LabelsStay`, `PurgeIsSafe`. That no
claim holds two instances is not inductive. The reason it holds: a reconcile on its
way to a binding has confirmed, uncached, that its claim holds nothing, and only
that reconcile can give the claim something (`UnboundHoldsNothing`). What it takes is
free, because a write that goes through is based on the latest copy, and the latest
copy was free (`LockedIsFree`, from `CopiesAreCurrent`). `syncInstance` writes a
whole object from the cache, so it must find its own claim in the label there
(`HeldIsMine`, `CachedLabelsHold`), and labels, once set, stay. `RefsAreMine`
carries this to the references in the claim, its cached copy and the base of a running
merge patch, since a patch may write any of them. The lemmas show that steps that
move no label, or one claim's label only, keep these parts; there is then one step
per action.

Assumptions: `NoClaim` is no claim, instance names are a finite set of numbers
(their order is the age), and the bounds are numbers. All are checked by TLC in each run.

**LifecycleProofs** proves `[]LifeInv` (`InvariantHolds`) and from it `TypeCorrect`,
`FinalizerFirst` and `NamespaceBeforeFinalizer`. The argument: the finalizer is
removed only by an update based on the latest copy, a copy that was dying; a pass
that creates began on a live copy with the finalizer, and only one pass runs at a
time; so while one may create, the finalizer is there (`FinalizerGuards`,
`NoReturn`, `DeletedFirst`). `NamespaceStays` needs `PinInv` and the hypothesis
`"uuidlag" \notin Env`: UUID and namespace are written once (`WrittenOnce`), and a
pass on a copy that has no namespace yet computes the very name that was written
(`SameName`), because the owner only changes once the instance is up and is up only
with a namespace (`UnnamedIsUnclaimed`).

**AllocationProofs** proves `BindingImplements`: `Spec => ImplementsAllocation`. Besides
`BindingInv` the step simulation needs `SecureInv`: copies do not run ahead of the store
in ownership and deletion (`CopiesTrail`; a sync that finds nothing to write relies on its
copy), only what was won is owned (`FreeIsUnowned`), and a reconcile about to tell its
claim has seen to the ownership, or the instance has gone since (`SecuredFirst`). Each
action then maps to one step of `Allocation` or to a stutter: `Acquire` and
`createOnDemand` to `Win`, whose guard that the claim holds none is
`UnboundHoldsNothing`; `syncInstance` to `Secure`; every delete to `TakeDown`;
`PatchBound` to `Tell`; the other patches to `Withdraw` or to nothing.

**QuotaProofs** proves `RaceHasWinners`: `Spec => EvictionLeavesQuotaFull`, under the
hypothesis `OnlyQuotaTakes`, a condition on the constants that the run `bind_quota`
satisfies: no deletions, deadlines or failures, templates that are enabled, no maximum on
a pool. Without it somebody else may take one of the environments an eviction counted
on, and the property is false: TLC has a counterexample for each part that is dropped. Crashes, errors, edits, closing windows and any number of
claims, owners and instances remain. The list on which an eviction is decided is old by the time of
the delete, so what has to last is that the evicting claim has `Limit` environments of
its owner ranked before its own (`EvictsBeyond`). Another eviction may take one of
those; but that one had `Limit` ranked before it, which all rank before ours too, and a
step evicts only one. The rest of `QuotaInv` shows that nothing else takes an environment that
counts: no reconcile is on its way to another teardown (`Undisturbed`), and a claim that
is about to release what it holds has evicted it already, or never had any
(`ReleasedAlready`). `EachInstance` sums up what a step makes of an instance,
`EachReconcile` where it may take a reconcile; ownership lasts by `SecureInv`.

**RequestsProofs** proves `[]ReqInv` and from it `TypeCorrect` and
`LiveClaimsSpared`, for any number of requests. That the claim under a request's delete
has expired is not inductive: between the read and the delete the claim may be
replaced. `ReadWasExpired` says that it has expired *if it is still the one that was
read*; it survives a create because uids are given in order (`UIDsInOrder`), so a new
claim is none that anybody has read, and the precondition on the uid does the rest.

**TTLProofs** is about `ClaimTTL` for all settings, horizons, scenarios and bounds, and
proves `TypeCorrect`, `CeilingHolds` and `OnlyLastingFailuresRejected`.
`TypeOK` says, among the types, that every deadline anybody has recorded is a time or none,
for all integers in the claim, the template and the OperatorConfig: a negative lifetime is granted as it
is, and `expiryFrom` makes no deadline of it (`GrantType`, `ExpiryType`).
The ceiling holds on copies of any age, late operators included, by `CeilingInv`: every
anchor anybody knows of lies at or before the moment the instance was really bound
(`AnchorsBeforeBinding`), there is one whenever it is needed (`Anchored`), and a pass that
serves has a lifetime that some template in play allows (`Serving`, `Capped`) and a
deadline computed from the two. For the third, `FailureOnRecord` ties the time of the last
transition of the Ready condition to the time the instance has really been Failed: as long
as the source is ready, the one is False exactly while the other holds.

**TTLDeadlineProofs** proves `DeadlineIsMet`. That nothing is there past its deadline is a
statement about being awake in time, so the invariant (`DeadlineInv`, for `Prompt`) is
about the queue: between two passes, when no event is waiting and the claim is `Bound`,
the delayed entry is due no later than the deadline (`DueInTime`), and what the instance
carries is what the status says (`Agreed`). Both rest on what a pass knows: it works on
the status the claim has, since nobody else writes it (`PassOnTheClaim`), it says `Bound`
only with a deadline that is still ahead and that the instance carries, and anything else
only of a claim that holds nothing (`PassSays`, `DeadlineCopied`, `TerminalHoldsNothing`).
Time then cannot pass a deadline: the entry would be due, and the operator not idle.
No scenario is excluded but `slow`.

**TTLGrantProofs** proves `LapsedGetsNoOther` and `PromiseIsKept` from `GrantInv`.
`OverdueInv` says that the deadline of the instance never comes before the one in the
status (`DueTogether`) and that a pass on an overdue claim ends it (`OverdueEnds`). So a lapse
is on record before or with the teardown (`LapseRecorded`), except where a pass found the
claim expired by a deadline it has just computed and died before its patch: excluding
that is what the condition of `NoSecondLife` is for. For the promise, `StatusFollows` says that
spec, pass and status differ by no more than one step of an extension and never the wrong way
round, also with a request under way that has read an old status; it needs `Sensible` settings, since a lifetime of -5 grows into a deadline; `OneAnchor` and
`StatusComputed` that the status has the anchor of the very instance and the deadline that
goes with it; `PromiseCovered` that what the spec grants from that anchor reaches as far as
was promised. `OneStep` and the scenarios `GrantIsKept` excludes are exactly what these
need; TLC has counterexamples without them.

The assumptions are those in `ClaimTTL`: the bounds are numbers, the API extends by a positive
step, the settings are integers of any sign (a template's `extendSeconds` is natural, as
its CRD demands), the fallbacks positive. A ceiling exists where lifetime and number of
extensions are positive and the step is not negative (`Bounded`); `GrantIsKept`, and
`NoSecondLife` after a fault, ask for settings without negative numbers other than -1
(`Sensible`).

**Only model-checked**: liveness (`QuotaConverges`, `WonIsReported`,
`WaiterIsServed`, `TearsDown`, `SettlesUp`, `SolvedIsReleased`), which is outside the
prover's reach. Every other property of the passing runs is a theorem.

## 6. Not modelled

* Time in `Binding` and `InstanceLifecycle`: a deadline, a window and a grace period may
  end at any moment a run allows. `ClaimTTL` has the numbers, for one claim.
* The TTL of an instance that nobody claimed (the third case of `applyTTL`): an instance
  that a claim holds has a deadline in its spec or none at all. Truncation of
  times to seconds, and the periodic resync of the informers (ten hours).
* `ensureMeta` of the claim controller (labels only), status counters and the order of
  purge victims in the template controller, `SourceBroken` and its effect on the
  pool, differences in parameters and TTL that make `syncInstance` write again.
* More than one operator process (leader election is off by default) and writes of a
  dead process that arrive after its successor has started.
* Two extensions at the same moment (`ClaimTTL` has one request at a time, its read and its
  patch apart), and the requests that only read; several web
  workers of the plugin, each with a queue of its own.
* The content of values, labels, conditions and names; authentication; the web UI;
  charts and manifests.
* `maxSize` as a hard cap: the fill loop and claims count on their own lists and may
  overshoot together. Only the claim that overshoots gives back.

## 7. Plan

1. Done: `Cluster`, `ClaimController`, `PoolController`, `Binding`, `BindingProofs`;
   `Allocation`, `AllocationProofs`, `QuotaProofs`; `InstanceLifecycle`, `LifecycleProofs`;
   `ClaimRequests`, `RequestsProofs`; `ClaimTTL` and its three modules of proofs.
2. An outage longer than quotaSettleWindow, and the overshoot of `maxSize`, each as a
   bound on what is left behind.

# Kargo: a TLA+ model of its promotion machinery

Kargo moves *Freight* (a set of artifact revisions) through *Stages* by means of
*Promotions*. Its control plane is a set of Kubernetes reconcilers. They share no
memory and take no locks: every one of them reads objects from informer caches
that lag behind the API server, computes, and patches an object's status. This
directory models the part of that machinery in which the order of things matters,
checks it with TLC on small instances and proves its safety properties with
TLAPS for every size.

Paths below are relative to the repository root.

## 1. Inventory

| Component | State it keeps | Operations | Interacts with | What is hard | What makes it correct |
|---|---|---|---|---|---|
| **Stage reconciler: promotion queue** (`pkg/controller/stages/regular_stages.go`) | Stage status: `currentPromotion`, `lastPromotion`, `freightHistory`, `health`, holds | `reconcile` = `syncPromotions`, `assessHealth`, `verifyStageFreight`, ..., a patch after each | Promotions through a cached list; Argo Rollouts through AnalysisRuns | stale caches, patches lost or applied over newer data, passes that break off | one Promotion at a time, in order; every outcome replayed; the queue never stalls |
| **Promotion reconciler** (`pkg/controller/promotions`) | Promotion status: phase, steps | `Reconcile`, `promote`, `terminatePromotion`; watches on Promotions and Stages | Stage through `StageAwaitsPromotion` and the watch on `currentPromotion` | stale admission, lost wakeups, abort and deletion of running Promotions | runs only what the Stage has elected, wakes up when elected |
| **Promotion step engine** (`pkg/promotion`) | step metadata, `currentStep`, health checks, the working directory | `ExecuteSteps`, `determineStepCompletion`, `DetermineFinalPhase` | called once per reconciliation; step runners | crashes between execution and patch, retries, timeouts, conditions | no step repeated or missed; failures stop what they must; retries end |
| **Verification** (`regular_stages.go`, `pkg/api/stage.go`) | verification history of the current Freight | start, adopt, poll, abort, re-verify, mark as verified | AnalysisRuns; gate of the promotion queue | a run created or terminated but not recorded, old runs, annotations that stay | verdicts are earned, aborts stick, every verification ends |
| **Auto-promotion and holds** (`pkg/api/auto_promotion.go`, `regular_stages.go`) | `autoPromotionHolds` | replay of intents, candidate selection, creation of Promotions | ProjectConfig, Freight, Promotions, the admission webhook | intents replayed out of order or twice, or deleted before; decisions on stale lists | holds obeyed, releases final, no work repeated that the informer shows, no origin forgotten, convergence |
| **PromotionRequests and Targets** (`pkg/controller/promotionrequests`) | request status, `currentPromotionRequest`, `lastPromotionRequest` | mark as Errored; `syncPromotionRequests` | Stage queue; a controller outside the repository | requests that end out of turn | one round at a time |
| **Freight status and availability** (`pkg/controller/freight`, `regular_stages.go`, `api/v1alpha1`) | `currentlyIn`, `verifiedIn`, `approvedFor` | update after replay and verification; availability, soak times | upstream Stages, control-flow Stages | written by several Stages after their own status, passes that break off | soak times never overstated; what is available arrives downstream |
| **Control-flow Stages** (`control_flow_stages.go`) | none of their own | mark Freight verified | Freight status, through watch events | reconciled for events only | what is available is passed on |
| **Warehouses** (`pkg/controller/warehouses`) | discovered artifacts, last Freight | discover, create Freight | registries, repositories | policy and spec change during discovery | no Freight from a stale spec |
| **Garbage collector** (`pkg/garbage`) | none | delete old Promotions and Freight | Stage replay, holds, Freight in use | the time between listing and deleting | never deletes what is still needed |
| **Coalescing cache** (`pkg/cache/coalescing`) | entries, loads in flight | Get | its callers | joins after a lookup, callers that give up | one load per key, no value older than before, nobody left waiting |
| **Heartbeats** (`pkg/heartbeat`) | a Lease per controller | renew, judge | API server's view of controllers | late renewals | a live controller is not judged dead |
| **Management controller** (`pkg/controller/management`) | Projects, namespaces, RBAC, replicas | create, replicate, finalize | Kubernetes | finalizer order | idempotent |
| Webhooks, API server, step runners, health checkers, CLI, UI, charts | none that the reconcilers do not keep | | | | not modelled: stateless, or I/O |

`PROJECT.json` lists the hazards found while reading, at their lines, with the
properties that watch them.

## 2. Plan

Modules, in the order in which they matter to the system. They are separate state
machines over the same objects: each keeps in full what its properties are about and
reduces its neighbours to what reaches it, and says so at its head.

1. `StagePromotions`, `PromotionQueue` (**done, proved**): the two reconcilers and
   their queue; the queue's abstract specification; refinement.
2. `StepEngine` (**done, proved**): what happens inside a Running Promotion.
3. `Verification` (**done, proved**): AnalysisRuns, adoption, abort and re-verification.
4. `AutoPromotion` (**done, proved**): effective holds, candidates, the creation of
   Promotions, FreightCollections of several origins, garbage collection of
   Promotions.
5. `FreightLifecycle` (**done, proved**): `currentlyIn`, `verifiedIn` and soak times across a
   regular and a control-flow Stage, garbage collection of Freight.
6. `CoalescingCache` (**done, proved**): the load-through cache.
7. The finalizers of Project and Namespace.

"Proved" means every safety property of the module that a run checks, each in the module
of its proofs (`StagePromotionsProofs` and `StageOutcomeProofs` for the first, `...Proofs`
for the others). What is left to the runs is liveness. Theorems still worth adding: what
remains of the properties when the assumptions of section 5 are dropped (which outcomes
`AutoPromotion` can lose once queued Promotions are aborted), and the abstract
specification of holds that `StagePromotions` and `AutoPromotion` share. Runs are kept to
one per question.

## 3. The modules and the code

### StagePromotions: a Stage and its queue

State. `promo` and `stage` are what the API server stores, `pCache` and `sCache`
the informer's copies. `queue` is the Promotion controller's work queue, `worker`
what it is doing with each Promotion. `analysis` is the AnalysisRun of each
Promotion's Freight. `auto` is the promotion policy.

Abstractions.

* A Promotion's name is a number. Names embed a ULID (`pkg/api/promotion.go`),
  and the code compares names wherever it means creation time.
* One Freight origin and no Targets, so that a Promotion stands for the
  FreightCollection it produces; an entry of `freightHistory` is the Promotion
  that put it there.
* `Failed` stands for Failed and Errored: the Stage treats them alike.
* What health checks report and whether a verification is configured, ends or
  errs are inputs (`Checks`, `Verdicts`).

Actions.

| Action | Code |
|---|---|
| `FullPass`, `BrokenPass`, `OrphanRun`, through `ReconcileStage` | one call of the Stage's `reconcile`: `SyncPromotions`, `AssessHealth` and `VerifyStageFreight` in order on a cached Stage and cached Promotions, then the patches |
| `ReconcileIgnore`, `ReconcileAbort`, `ReconcileWait`, `ReconcileAdmit` | the early returns and branches of the Promotion's `Reconcile`, up to the patch to Running |
| `MarkRunning`, `FinishPromote`, `LosePatch` | the two patches around `promote`, and losing them |
| `Create`, `AbortPromotion`, `Delete`, `ToggleAutoPromotion` | users and the garbage collector |
| `SyncPromotionCache`, `SyncStageCache` | informers, with the event filters and the watch that enqueue Promotions |
| `CompleteAnalysis`, `Restart` | Argo Rollouts; the controller's process |

A Stage pass is one action although it patches several times. That loses nothing:
it reads its caches once, and what it leaves behind depends only on which of the
patches got through. `PatchStatus` is a JSON merge patch, field by field. After
one patch the Stage is a *merge* of what the server had and what the pass changed.
After two, the base of the second is the server's answer to the first, and every
field of a stale working copy that differs from it is written: the Stage is
*exactly* what the pass believes (`whole`). `freightHistory` and the verification
history inside it are one JSON list, hence one field.

A cache is a single copy that jumps to the present at any moment; between two
jumps it may stay arbitrarily old. The two caches are independent of each other,
and the code gives no guarantee between kinds of objects either.

### PromotionQueue: what the queue promises

Promotions arrive in any order, start one at a time and only when all
earlier-named ones are done, and may leave without having started.
`StagePromotions` refines it under the mapping `QueueState` (New and Pending are
waiting; every terminal phase, and deletion, is done).

### StepEngine: inside one Promotion

State. `status` is the recorded status, `pass` the pass in progress with its
working copy, `dir` the working directory and which steps have run in it, `plan`
the steps. `streak` only observes: consecutive failures per step.

| Action | Code |
|---|---|
| `Begin`, `Reject`, `Panic` | `promote` up to the engine: context, `Mkdir`, starting over in a fresh directory; giving up before; a panic in the middle, from which the reconciler recovers |
| `SkipStep`, `MisconfiguredStep`, `ExecuteStep`, `FinishSteps` | one iteration, or the end, of the loop in `ExecuteSteps`, with `ShouldSkip`, `reconcileResultWithMetadata`, `determineStepCompletion`, `DetermineFinalPhase` |
| `SavePass`, `RefuseSave`, `LoseSave` | the patch at the end of a pass, `cleanupWorkDir`; the API server finds the status invalid, and a second patch makes the Promotion Errored; the patch is lost |
| `RequestAbort`, `Terminate` | `AbortPromotion`, `terminatePromotion` |
| `Crash` | the container restarts and keeps `/tmp`, or the pod is replaced or shuts down and loses it |

A runner may return any status, valid or not, with no error, an error or a
terminal error (TLC leaves out only a runner that reports Aborted: none does). An
`if` may evaluate to anything or fail to. A timeout has or has not elapsed. Step
outputs, shared state, expressions and messages are data no property looks at.

### Verification: from a FreightCollection to a verdict

State. `stage` is the part of the Stage that matters: the current collection and its
stack of verifications, the phase of its Promotion, its health and the two annotations.
`run` are the AnalysisRuns and `runCache` what the informer knows of them. `verified` is
`verifiedIn` of the Freight. `aborted` and `renewed` only observe.

| Action | Code |
|---|---|
| `Reconcile(failing, saved)` | one pass: `SyncPromotions`, `AssessHealth`, then one of `NothingToVerify`, `AbortVerification`, `GetVerificationResult`, `SkipVerification`, `AdoptRun`, `CreateRun`, `FailToCreateRun` (the ways through `verifyStageFreight`), then `MarkVerified` |
| `Promote`, `SucceedPromotion`, `FailPromotion` | Promotions, with the request to re-verify that `promote` writes for a re-promotion |
| `ReverifyStageFreight`, `AbortStageFreightVerification` | the two requests of users; the annotations are never removed, only overwritten |
| `CompleteRun`, `SyncRunCache`, `ChangeHealth` | Argo Rollouts, the informer, health checks |

A collection's ID is a hash of the names of its Freight, so that it *is* the Freight
here: promoting the same Freight again yields a new collection under the old ID. A pass
whose request fails (`failing`) or whose result is not persisted (`~saved`) leaves behind
what it did to AnalysisRuns. Terminating a run makes it report success: so the code's
comment on `abortVerification`, and Argo Rollouts. `Failed` stands for all bad verdicts.

### AutoPromotion: several origins, holds, candidates

State. `available` is the Freight of each origin the Stage may promote, `promo` every
Promotion with its intent and its collection, `pCache` the copies the Stage reconciler's
informer has of them, `stage` the Stage's status, `pass` where the pass is:
`SyncPromotions`, `ComputeHolds`, `SelectCandidates` and each iteration of
`autoPromoteFreight`'s loop are separate actions, with everybody else's steps in between.
`overtakes` of a Promotion only observes: the hold the informer showed when auto-promotion
created it.

| Action | Code |
|---|---|
| `SyncPromotions`, `ComputeHolds`, `SelectCandidates`, `AutoPromoteFreight` | the pass: replay with holds and `lastPromotion`'s collection, effective holds, candidates, the listing of Promotions before each creation |
| `SyncPromotionCache` | the informer behind the reconciler's cached client catches up |
| `Start`, `ExecuteSteps`, `FailToExecute`, `Abort` | the Promotion reconciler; the collection is built when the steps run, and not recorded if they never do |
| `Promote` | a user's Promotion, on which the webhook's `syncHoldAnnotations` writes hold or resume |
| `CollectGarbage` | `cleanStagePromotions` |
| `Discover`, `Withdraw` | Warehouses and upstream Stages |

Auto-promotion is enabled throughout (`StagePromotions` switches it off). Every list of
Promotions the Stage reconciler reads, for the replay, for the effective holds, for what is
unprocessed and for what failed before, is the informer's (`Seen`, not `Listed`), and may
be arbitrarily old. So a pass may promote the Freight that the pass before it promoted:
`AutoPromotedOnce` is about Promotions the informer shows, and section 6 says what the
code does about the others. A deletion reaches the informer at once if its copy of the
Promotion is up to date: only this reconciler looks at a finished Promotion, so that a
deletion it hears of late is no different from one that is done later. A Stage requests
Freight of at least one origin (`MinItems=1` on `requestedFreight`).

`SupersededOnce` counts the auto-promotions that overtook the standing hold of an origin
although the informer had it, and leaves out those that came after a release. It has to: aborting the release brings the
hold back, and what auto-promotion rightly did while it was released stays done.

### FreightLifecycle: Freight across two Stages

State. `freight` is every Freight's status for both Stages, `up` the regular Stage, `down`
the control-flow Stage and its work queue, `doomed` what the garbage collector has listed
and not yet deleted, `outdated` what `syncFreight` has listed and not yet patched. `occupant` only observes what runs where the Stage deploys, and
since when.

| Action | Code |
|---|---|
| `SyncPromotions`, `ListFreight`, `PatchOutdated`, `PatchCurrent`, `VerifyFreight`, `FailPass` | the sub-reconcilers of a regular Stage's pass that touch Freight, `syncFreight` patch by patch, and a pass that ends between any two of them; `Enqueued` is the watch on Freight |
| `HandleDelete`, `HandleControlFlowDelete`, `DeleteStage`, `CreateStage` | deletion of either Stage, and its return under the same name |
| `ReconcileControlFlow` | a pass of the control-flow Stage |
| `Promote`, `BeginSteps`, `EndSteps` | Promotions; `promote` fails if the Freight is gone |
| `ListGarbage`, `CollectFreight` | `cleanWarehouseFreight`, in two steps, and the webhook's `ValidateDelete` |
| `Discover`, `Tick` | the Warehouse, time |

### CoalescingCache: concurrent Gets

State. `call` is what every caller is doing, `group` singleflight's map, `load` every load,
`entry` the cache. `floor` only observes. The lookup (`Begin`), joining or starting a load
(`DoChan`), the two arms of `select` (`Interrupt`, `Receive`), the load itself (`LoadValue`,
`LoadError`) and singleflight's delivery (`Deliver`) are separate actions: the cache is not
looked up again after a miss, and a value is stored before singleflight forgets the load.
Loads are numbered in the order they start, and the number stands for the value.

## 4. Runs

| Run | Instance | Shows |
|---|---|---|
| `queue_safety` | 2 Promotions that hold or resume, history of 1, succeeded ones deleted, one policy change | `Serialized`, the inductive `SerialInv`, refinement of `PromotionQueue`, `OutcomeRecorded`, `ReleaseSupersedesHold` |
| `queue_liveness` | 2 Promotions, one restart or broken pass, fairness | `EveryPromotionFinishes`, `EverySuccessReplayed`, `SuccessReplayedWhole` |
| `steps` | 2 steps, every combination of `if` and `continueOnError`, threshold 2, one fault, fairness | `InheritedWork`, `NoRepeat`, `HealthChecksExact`, `FailureStops`, `SkippedForAReason`, `SuccessEarned`, `ErrorsBounded`, `StepInv`, `TimeoutsEndIt` |
| `verify` | 2 Freight, 3 Promotions, 2 verifications, one failed request or lost pass, fairness | `AbortSticks`, `VerifiedEarned`, `RepromotionReverified`, `EveryVerificationEnds` |
| `auto_promote` | 2 origins (one MatchUpstream) with 2 and 1 Freight, 3 Promotions, one failure, 1 Promotion retained, a lagging informer, fairness | `HoldsKnown`, `SupersededOnce`, `AutoPromotedOnce`, `OriginsKept`, `Converges` |
| `freight` | 2 Freight, 2 instants, one failed pass, one deleted Stage, 1 Freight retained, fairness | `SoakNotOverstated`, `VerifiedExists`, `PassedOn` without a soak time |
| `cache` | 3 callers, 1 key, 3 Gets, cacheable and uncacheable values, fairness | `OneLoadPerKey`, `MonotonicReads`, `Undisturbed`, `EveryGetReturns` |
| `lost_outcome`, `consecutive_errors`, `aborted_adoption`, `collected_in_use`, `soak_unnoticed` | | the findings of section 6 |

Every passing run also checks its module's type invariant, except `queue_liveness`, whose
module has it checked by `queue_safety`.

Deadlock is not checked where the system really may come to rest: when every Promotion
is finished and the caches have caught up, when the Promotion of `StepEngine` is over,
when all Promotions and verifications of the bound are used up, when every Get has
returned. In `AutoPromotion` and `FreightLifecycle`, where passes go on for ever, it is.

Bounds, and why they are enough.

* `N`: two Promotions are one that runs and one that waits, a hold and its release, and
  every disagreement between a stale Stage and a stale list about whose turn it is.
  `lost_outcome` has the third that leaves the queue out of turn. For the safety properties,
  all of them proved, `N` does not matter.
* `HistoryLimit = 1` makes every second success hit the limit. Elsewhere it is 10,
  as in the code, and never reached.
* `MaxFaults` counts restarts and passes that break off (`StagePromotions`), crashes
  and lost patches (`StepEngine`), failed requests and lost passes (`Verification`),
  Promotions that fail or are aborted though they need not (`AutoPromotion`), passes
  that end half-way (`FreightLifecycle`). Lost patches of the Promotion reconciler
  (`LosePatch`) and stale caches are unbounded.
* `K = 2` steps give every relation between an earlier and a later step; a
  threshold of 2 tells "met" from "exceeded".
* `MaxToggles = 1`: auto-promotion is switched off while a hold exists.
* `Verification`: two verifications are one that is aborted or out of date and one that
  could take over its result; three Promotions bring the first Freight, replace it and
  bring it back.
* `AutoPromotion`: three Promotions are a user's hold, the auto-promotion it overtakes
  and one that builds on both; retaining one Promotion has the collector at work with
  the second. `Manual = {1}`: users promote Freight of the first origin only.
  `Initially`: the Stage runs Freight of the first origin and none of the second, by
  Promotions long gone, so that there is something to forget and something to begin with.
* `FreightLifecycle`: two Freight alternate in the Stage; two instants tell before from
  after; retaining one Freight makes the older one garbage.
* `CoalescingCache`: three callers are a leader, one that joins it and one that comes
  between lookup and delivery. The safety properties are proved for any number.

No symmetry is used: names are ordered, and liveness is checked in nearly every run.

Assumptions the runs make, each of which TLC shows to be needed:

* Only finished Promotions are deleted (`Deletable`). If a Running one is, the Stage
  frees its slot while the worker still executes its steps, and `Serialized` fails.
* One fault in `steps`. With two, the pass that starts over in a new working directory can
  itself be lost; the next one takes the directory for the old one, resumes in the middle,
  and `InheritedWork` fails.
* `Rollbacks = FALSE` in `verify`, because of the finding `aborted_adoption`, and
  `AnnotationOutcomes = {TRUE}`: if the request to re-verify cannot be written, which is
  only logged, the old AnalysisRun is adopted and `RepromotionReverified` fails.
* `AbortQueued = FALSE` in `auto_promote`: aborting queued Promotions brings in the
  finding `lost_outcome`.
* One failed pass in `freight`. With two, and a Stage that is deleted and created again in
  between, Freight can leave and return unnoticed, its old timestamp stands, and
  `SoakNotOverstated` fails, although the comment on it in `syncFreight`
  (`regular_stages.go`, lines 1358-1360) says that inaccuracies only ever go the other way.

### Fairness

`StagePromotions`: informers deliver (WF on the Promotions', SF on the Stage's
copy, which may be made current by a pass that undoes a change). Queued Promotions
are picked up (WF). The Stage is reconciled again at least every five minutes and
some pass gets all its patches through (WF on `FullPass(TRUE)`, which is always
enabled). AnalysisRuns end (WF). The patches of the Promotion reconciler are
retried with back-off and get through sooner or later, and so do its steps (SF on
`MarkRunning` and on a final `FinishPromote`): a Promotion that stays Running for
ever is the step engine's business. No fairness is assumed of users, of policy
changes, or of faults.

`StepEngine`: a Running Promotion is requeued after every pass (WF on `Begin`), a
pass gets on (WF on its steps, where it may also panic, on its end and on its patch,
which may be refused as invalid), an abort request enqueues
the Promotion (WF on `Terminate`), and time passes: a step that is attempted again
and again is at last attempted after its timeout (SF).

`Verification`: AnalysisRuns complete and the informer catches up (WF), and the Stage is
reconciled again and again, some time without a fault (WF on `Reconcile(FALSE, TRUE)`):
the watch on AnalysisRuns enqueues it, and so does the requeue after five minutes. Its
health may be anything each time.

`AutoPromotion`: passes follow one another (WF). An admitted Promotion starts and ends
(WF): `StepEngine`. The gate opens again and again (SF), because every verification ends:
`EveryVerificationEnds`. Admission does not deny for ever (SF), and an upstream Stage
finishes moving on (WF). The informer catches up (WF).

`FreightLifecycle`: a regular Stage is reconciled again and again (WF), a control-flow Stage
only while it is in the work queue (WF on actions that require it), and Promotions end (WF).
Nothing is assumed of failed passes, of users, of time or of the garbage collector.

`CoalescingCache`: goroutines run (WF), and a Loader comes to an end because it honours the
context that `LoadTimeout` ends (WF on `LoadValue \/ LoadError`). No caller's context need
ever end.

## 5. Proofs

Checked by TLAPS for every value of the constants. Every safety property of a passing run
is a theorem; the assumptions on constants are those the runs make (section 4), stated in
each theorem and named in its module.

| Module | Theorems | Assumption |
|---|---|---|
| `StagePromotionsProofs` | `TypeOK`; `SerialInv`, `Serialized`, refinement of `PromotionQueue` | none; `Orderly` |
| `StageOutcomeProofs` | `OutcomeRecorded`, `SuccessReplayedWhole`, `ReleaseSupersedesHold` | `Orderly` |
| `StepEngineProofs` | `TypeOK`, `StepInv`, `NoRepeat`, `ErrorsBounded`, `FailureStops`, `SkippedForAReason`, `SuccessEarned`, `HealthChecksExact`; `InheritedWork` | none; one fault |
| `VerificationProofs` | `TypeOK`, `AbortSticks`; `RepromotionReverified`; `VerifiedEarned` | none; `RequestsWritten`; that and `NoRollbacks` |
| `AutoPromotionProofs` | `TypeOK`; `HoldsKnown`, `SupersededOnce`, `AutoPromotedOnce`, `OriginsKept` | none; `TurnsTaken` |
| `FreightLifecycleProofs` | `TypeOK`, `VerifiedExists`; `SoakNotOverstated` | none; `OneFault` |
| `CoalescingCacheProofs` | `TypeOK`, `OneLoadPerKey`, `MonotonicReads`, `Undisturbed` | none |

`Orderly`: names become visible in order and only terminal Promotions are deleted.
`RequestsWritten`: the request to re-verify is written whenever `promote` tries to.
`NoRollbacks`: Freight is not promoted again after other Freight. `TurnsTaken`: a
Promotion is aborted only when it is its turn. `OneFault`: one pass fails half-way. TLC shows each to be needed, with one exception: in
`StageOutcomeProofs` the deletion of unfinished Promotions is excluded because `SerialInv`
needs it, and with two Promotions TLC finds no outcome lost, and no hold brought back,
without it.

**Promotions are serialized** (`AlwaysSerialized`), and more generally the two
reconcilers implement the serial queue (`RefinesQueue`), if they are `Orderly`.
Neither half of it can be dropped: without the second the property is false
(section 4), and without the first a late Promotion with an early name runs
beside the one that is under way.

`Serialized` is not inductive: a stale Stage in the cache could name anyone. What
is inductive (`AlwaysSerialInv`) is that *every* copy of the Stage, recorded or
stale, names only a Promotion all of whose predecessors are over
(`CurrentIsOldest`). "Over" is stable, so such a copy never goes bad however long
it is kept, and the Promotion it admits is the oldest unfinished one.
`CurrentIsOldest` is preserved because the head of a stale list of Promotions is
either the oldest unfinished one or itself over with all of its predecessors
(lemma `NextIsOldest`), which needs that the cache shows a past (`CacheIsPast`),
that Promotions are known in order (`KnownInOrder`), that what runs, or runs
according to the cache, has no unfinished predecessor (`ActiveIsOldest`), and that
nobody finishes a Promotion under its worker (`WorkerOwns`). The refinement
follows: a Promotion that becomes Running has a worker, so it is active, so all
its predecessors are done.

**No outcome is lost** (`AlwaysOutcomeRecorded`, `AlwaysSuccessReplayedWhole`) **and no
released hold comes back** (`AlwaysReleaseSupersedesHold`), although a pass works on copies
of the Stage and of the Promotions that are out of date, each by an amount of its own, and
may undo what an earlier pass wrote. The inductive invariant is `OutcomeInv`, given
`SerialInv`. Its point is that a stale Stage is at most one round behind where it matters:

* `ViewInv`: as far as either list of Promotions shows, they run in order; the informer's
  outcomes and intents are final.
* `TurnInv`: a Promotion is elected when the informer shows all older ones as over, and if
  the Stage has given up the Promotion that its stale copy still names, that one is over
  in the informer's view too. So a pass on the stale copy ends the same round again.
* `LastInv`: `lastPromotion` is never behind the stale copy's; it differs only if that
  round has ended; it passes an unfinished Promotion only by way of one that left the
  queue early; and whatever ran is behind it or is the current one.
* `RecordInv`, `HoldInv`: what the properties say, of both copies, and what the stale copy
  accounts for the Stage accounts for; the two holds differ by the current Promotion at
  most.

Every step is a pass (`Passes`), a Promotion that moves (`Moves`) or an informer that
catches up (`Catches`). Of a pass it is shown first that it decides soundly (`SoundTurn`,
`SoundRecord`, `SoundHold`), whether it ends a round or not, and then that writing a sound
decision, whole or as a merge, preserves the invariants (`WrittenTurn`, `WrittenRecord`,
`WrittenHold`). That a full history stays full when older entries drop off
(`TruncateFull`, `TruncateAccounts`) is the part that needs cardinalities.

**Steps are neither repeated nor retried too often** (`AlwaysNoRepeat`,
`AlwaysErrorsBounded`), for any number of steps, any plan, any results of the
runners and any number of crashes and lost patches, from the inductive `StepInv`:
in every copy of the status the finished steps lie before the step that is up
next, and meeting the error threshold finishes a step. It has to speak of the
recorded copy and of the one in the making, because a pass that is lost resumes
from the former.

**What a Promotion's status says of its steps is right** (`AlwaysFailureStops`,
`AlwaysSkippedForAReason`, `AlwaysSuccessEarned`, `AlwaysHealthChecksExact`). The inductive
`CopyInv` says of both copies that the steps before the one that is up next have been dealt
with, that those after it are untouched, and that the one up next has at most been attempted
in vain (`UpNext`). So dealing with a step adds one entry to a prefix that will not change
any more, and each property has only that entry to speak of. `AlwaysInheritedWork`, with one
fault, rests on `WorkInv`: recorded work is missing from the directory only after a fault,
and then the pass that makes the directory anew is under way or still to come; a second
fault would lose that pass.

**Verdicts are earned and aborts stick.** `AlwaysAbortSticks` holds without conditions:
`HistoryInv` says that IDs are handed out once, that only the newest entry of a history is
open, and that while an aborted one is, the request to abort it stands (`AbortStands`), so
that the next pass finds it again, however often a pass is lost. `AlwaysRepromotionReverified`
adds `RenewInv`: a success to be replayed as a re-promotion has left its request, and a
request is never taken back, so that no AnalysisRun is adopted any more.
`AlwaysVerifiedEarned` adds `EarnedInv`: Freight about to become current has neither a
verdict nor a terminated AnalysisRun, and every verdict has an AnalysisRun other than the
one the Stage waits for, which may still be terminated.

**Holds are known, and auto-promotion neither repeats nor forgets**, however old the lists
are from which it decides. As long as Promotions take turns, those up to `lastPromotion` are
over and those behind it, except the current one, have not begun (`QueueInv`), and the
informer has a first segment of the queue, at least up to what the Stage has replayed or
elected, since the Stage knows of no other Promotions (`CacheInv`). The durable holds are what
the newest replayed intents say (`HoldInv`). Applying the intents the informer shows behind
`lastPromotion` to these then gives the newest intents it has ever had, which is
`HoldsKnown`; the garbage collector deletes replayed Promotions only. `CarryInv` (the last
collection covers what the Stage runs) gives `OriginsKept`, `RunInv` (the Stage runs the
Freight of every success it replayed, unless other Freight of the origin was promoted later)
and `PickInv` (a pass picks nothing the Stage runs) give `AutoPromotedOnce`, and `OvertakeInv`
(at most one auto-promotion overtakes a hold the informer has, and while a pass still has one
to make, none has) gives `SupersededOnce`.

**Freight that is being verified exists** (`AlwaysVerifiedExists`), with no assumption:
`VerifyInv` says that a pass beyond `syncFreight` has found what the Stage runs, and from
then on the webhook refuses to delete it, however long ago the collector has listed it.
**Soak times are not overstated** (`AlwaysSoakNotOverstated`): between the pass that replays
a success and the one that replays the next lies the pass that elects that Promotion, and
with one fault one of them gets as far as `syncFreight`, after which only what the Stage runs
claims to be in it (`SoakInv`, `Clean`).

**The cache never goes backwards** (`AlwaysMonotonicReads`), loads a key once at a time
(`AlwaysOneLoadPerKey`) and keeps its callers apart (`AlwaysUndisturbed`), for any number of
callers, keys and Gets, any TTLs and with or without an internal cache. The inductive
invariant is `IInv`. Its core is `GroupInv`: singleflight knows exactly the loads that are
under way, and the one it knows for a key is the key's newest. Hence values are stored in
the order in which their loads began, so that what is cached is the newest value ever stored
(`EntryInv`), and what callers were given was stored (`FloorInv`). A Get that misses joins the
load singleflight knows, which is at least as new as anything stored before, or starts a
newer one (`CallInv`); it is this step that would fail if singleflight forgot a load before
its value was stored. `Counted` (a load for each Get that missed) keeps the numbers of loads
within the bound; it is the only part that needs cardinalities.

The inductive invariants `SerialInv` and `StepInv` are checked by the runs as well. The
others were checked with TLC, as invariants of instances like those of section 4, before they were
proved.

Only model-checked: liveness (`EveryPromotionFinishes`, `EverySuccessReplayed`,
`TimeoutsEndIt`, `EveryVerificationEnds`, `Converges`, `PassedOn`, `EveryGetReturns`). It
depends on fairness, and so on ENABLED, which is beyond this prover.

## 6. Findings

Each one is a run in which TLC finds what a comment or a document says violated by
what the code does. `PROJECT.json` quotes the lines.

1. `lost_outcome`: a Promotion aborted while queued is replayed with the next round
   that ends, and takes `lastPromotion` past an older one that has yet to run. The
   success of that one never enters `freightHistory`. `OutcomeRecorded` says
   that no other outcome of a Promotion that still exists is lost.
2. `consecutive_errors`: the error count is never reset, so failures that are not
   consecutive are added up against a threshold documented as consecutive.
3. `aborted_adoption`: a user aborts the verification of some Freight, other Freight is
   promoted, and the first is promoted again. Its new collection has the old ID, so that
   the terminated AnalysisRun is adopted with the success it reports, and the Freight is
   marked as verified. `VerifiedEarned` holds without such a rollback.
4. `collected_in_use`: Freight that was found to be garbage is promoted, and deleted before
   the Stage names it. The collector and the webhook ask which Stages run it, and not
   whether a Promotion is about to make it current. The Stage then runs Freight that does
   not exist: `syncFreight` fails in every pass and the gate stays closed. In practice
   Freight must be two weeks old, and older than everything in use, to be collected; a user
   may delete it at any age. `VerifiedExists` holds.
5. `soak_unnoticed`: a control-flow Stage with a `requiredSoakTime` is not reconciled when
   that time elapses. `PassedOn` holds without a soak time.

Two more disagreements with comments have no run of their own; each takes a change to a
constant or to a word of a property to see.

* `autoPromoteFreight` is not to "create duplicate work" (`regular_stages.go`, line 2304),
  but looks for unprocessed Promotions through the cached client. Two passes in a row, the
  second before the informer has the Promotion of the first, create two Promotions of the
  same Freight. TLC finds it if `AutoPromotedOnce` speaks of all Promotions (`Created`) and
  not of those the informer shows (`Seen`). The Stage promotes the Freight twice, one after
  the other, and ends up as it should: the behaviours of `auto_promote` contain such
  duplicates.
* `syncFreight`'s timestamps may overstate a soak after two failed passes (section 4,
  `MaxFaults = 2`).

Beside these, and short of what a comment or a document denies:

* A pass that starts from a stale Stage and patches twice takes `lastPromotion` and
  `freightHistory` back to older values. Later passes make that good
  (`EverySuccessReplayed`), unless the Promotion has been deleted meanwhile.
* A step that reports Failed without an error, as the `http` step does, is not counted and,
  without a timeout, is attempted for ever.
* The collection of a failed Promotion is inherited by the next one, so that a Stage may be
  recorded as running Freight whose Promotion failed.
* The `reverify` annotation is never removed. Once it was set, no AnalysisRun is adopted for
  the Stage any more, and a pass that is lost after it created one leaves a duplicate.

## 7. Not modelled

* PromotionRequests and Targets: the controller that fans a request out to Targets is not in
  this repository. The one that is (`pkg/controller/promotionrequests`) marks every request
  Errored. `syncPromotionRequests` repeats the scheme of `syncPromotions`, its gate by name
  included, and with it the weakness of finding 1.
* Manual approval of Freight, and availability under the strategy All of several upstream
  Stages: `FreightLifecycle` has one upstream Stage.
* Stale copies of the Stage in `Verification`, `AutoPromotion` and `FreightLifecycle`:
  `StagePromotions` is about them.
* Discovery by Warehouses (I/O), their creation policies and generations.
* The contents of steps, expressions, Freight, health checks and analyses.
* Controller heartbeats: a Lease renewed on a timer and compared with the clock.
* The management controller: idempotent creation of Kubernetes objects.
* External webhooks, the API server, step runners, the CLI and the UI: stateless, or I/O. Of
  the admission webhooks only the two decisions the reconcilers depend on are modelled.
* Clock skew between API server replicas, which would make names appear out of
  order: with `InOrder = FALSE`, `Serialized` does not hold.

The map covers a small share of the repository's lines: most of them are generated clients and
types, API handlers, step runners and forge clients, which keep no state of their own.

# Bruk operator: specification, model checking and proofs

Bruk serves language models from confidential guests. Its program is the Airon operator
(`operator/`), a Kubernetes operator in Go with three reconcilers; around it are manifests, GitOps
configuration and install scripts. This directory models the operator in TLA+, checks it with TLC on
small instances, and proves the central results with TLAPS for instances of any size.

## 1. Inventory

### What the system does

A user writes an `InferenceService` (here: a CR). It names a `BrukModel` (which weights) and a
trusted-store claim, a block PVC that the confidential guest formats with LUKS. The one `BrukTenant`
"cluster" holds what is common to the cluster: the engine image and the initdata blob. The operator
turns the three into a Deployment and a Service and reports in the CR's status. A second workload on
a claim formats the store again and destroys it, so a guard keeps every claim to one workload.

### Components

| Component | State it keeps | Operations | Module | What makes it correct |
|---|---|---|---|---|
| InferenceService reconciler (`inferenceservice_controller.go`) | none of its own; workqueue and informer caches of controller-runtime, the copies held during one `Reconcile` | read CR, tenant, model; three lists of the claim guard; apply ConfigMap, Deployment, Service; update status; event handlers | `InferenceServiceController` | claims are exclusive, the guard never refuses everybody, status and children converge, status is about the right object |
| Renderer (`render.go`) | none | pure functions to a pod template | `Render` | pods are complete and exact, and change exactly when they must |
| Objects and everybody else (`api/v1alpha1`) | the API server's objects | users and Flux write, annotate, delete; garbage collector; Deployment controller; Pods start and terminate | `Cluster`, `Workloads` | environment; one Pod per claim |
| BrukModel reconciler | as above, plus a live read of a Secret | `Reconcile`, `setReady` | `StatusReconciler`, `BrukModelController` | status is about the current spec; Ready means that the token exists |
| BrukTenant reconciler | as above | `Reconcile`, `validateInitData` | `StatusReconciler`, `BrukTenantController`, `Operator` | Valid of every blob a guest can unpack, never of plain TOML; hash of the right blob |
| Manager process (`cmd/main.go`) | process lifetime, leader lease | start, stop; shared informers | `Operator`, `Restart` of the controller modules | a restart loses nothing, controllers do not keep each other busy |
| API types, deepcopy | none | defaults, CEL rules, `ServedModelName` | records of `Render` and `Cluster` | see `PROJECT.json` |
| Node bring-up (`install/*.sh`) | what is installed on the node | eight steps, re-runnable | not modelled | a re-run finishes what an earlier run began |
| Attestation, registry, manifests, GitOps, CI | declarative, or one pipe of commands | | not modelled | |

Components interact only through the API server. A write by one of them comes to the others as a
watch event, later, and out of order with events of other kinds. The reconcilers read mostly
through informer caches (Secrets are the exception: `clientOptions`) and write to the API server.
Status updates carry a resourceVersion and can be refused; server-side applies are forced and carry
none. All come from one field manager, so an apply also takes over what a deleted CR of the same name
left behind: the owner reference of the predecessor is replaced with the rest.

### What is hard

- **Reads are old.** A reconcile is up to ten calls. Everything it read can have changed when it
  writes, and everything it reads from a cache may have changed before.
- **Writes are separate.** Each of the four writes can fail, and the process can end between them.
- **Wake-ups are selective.** A failure is recorded without a requeue, so whatever ends it has to be
  watched.
- **Names are reused.** A CR can be deleted and made again under its name while its old Deployment
  is there and a reconcile of the old CR is under way.
- **Pods outlive Deployments.** A confidential guest takes minutes to start and to stop, and holds its
  claim until it is gone.
- **Controllers wake each other.** Status updates are events that no predicate filters.
- **Time is coarse.** creationTimestamp counts seconds; ties fall back on the name.
- **Numbers are printed.** `0.%02d`, byte prefixes, defaults made explicit.

The full list, with lines, is under "hazards" in `PROJECT.json`.

## 2. Modules

```
Render ── Cluster ── InferenceServiceController ── InferenceServiceProperties ┬─ MCInferenceService
                                                       │ (instance)           ├─ Workloads ── MCWorkloads
Render ── MCRender                                 ClaimArbitration           └─ Operator ─── MCOperator
StatusReconciler ┬─ BrukModelController ── MCBrukModel                              │ (instance)
                 └─(instance)─ BrukTenantController ────────────────────────────────┘
```

Proofs are in modules of their own, each extending what it is about:

```
InferenceServiceProperties ── InferenceServiceProofs ── ConvergenceProofs ┬─ AppendOnlyProofs ┐
                                                                          │       Workloads ──┴─ WorkloadsProofs
                                                              Operator ───┴─ OperatorProofs
StatusReconciler ── StatusReconcilerProofs ──────────────────────(instance)───────┘
MCRender ── RenderProofs
```

**Render** translates `render.go`. Inputs are records with the fields the code reads, `None` stands
for nil and for the empty string. What is the same in every rendered object (runtime class, probe
period, content of the gai ConfigMap) is left out. The hash of the initdata is taken to be
injective; the percentage is the sequence of its digits.

**Cluster** has the variables and the environment. An object is a record or `None`; a uid is a name
and a serial number that is never reused. A condition is written as its reason, since in this code
the reason determines the status. `worker` is the reconcile in progress: its place (`pc`), the copies
it took, what it concluded (`verdict`), and `fresh`, which stands for the comparison of
resourceVersions: every write to the CR clears it. `events` are the names with a watch event that is
not delivered yet. Every action of a user or a failure is enabled by a word in `Ops` and counted
against `MaxOps`; the garbage collector and the Deployment controller act when they have something
to do. A Deployment has an owner, a template, `available` (its condition) and `rolledOut` (have the
Pods the template). A user's write is admitted
or refused by the ranges and CEL rules of the CRDs (`InferenceServiceAdmitted` and its like). The
reconcilers check some of them again, for "a cluster without CEL validation, or a hand-applied CRD":
that is `Validation = FALSE`. Pods of a Deployment are those two bits here; standalone Pods are the set of
claims they mount.

**InferenceServiceController** has one action per call of `Reconcile` that reads or writes shared
state, in the code's order:

| Action | Lines | Code |
|---|---|---|
| `GetInferenceService` | 69-72 | `r.Get`; NotFound ends the reconcile |
| `GetTenant` | 74-81 | missing: `TenantConfigMissing` |
| `GetModel` | 83-104 | missing, local volume, no source, context length |
| `ListSiblings`, `ListDeployments`, `ListPods` | 160-206 | `trustedStoreConflict` |
| `ApplyConfigMap` | 112-130 | the shared ConfigMap, then the render and its errors |
| `ApplyDeployment`, `ApplyService` | 131-146 | forced server-side apply, which takes over what is there; a name that is no Service name is an error |
| `UpdateStatus` | 226-271 | `failConfigured` and `updateReadyStatus` |
| `InformIsvc` ... `InformPod` | 294-336 | a watch delivers, the handler enqueues |
| `Restart` | main.go 229-233 | a new process lists everything |
| `ApiError` | | any call in progress fails, controller-runtime retries |

`Lag` is the set of kinds whose cache can be behind. A kind outside `Lag` is read live; its events
are still delivered late. A delivery brings a kind up to date at once: intermediate versions would be
overwritten in the cache, and requests in the workqueue are deduplicated. An operator whose name ends
in `_Something` is the definition of that name with one fault; the specification does not use it.

**InferenceServiceProperties** states what is checked and proved; **MCInferenceService** gives the
constants of the runs. **StatusReconciler** is the same kind of model for the two reconcilers that
only validate, with what they read and conclude as parameters: `Asks` and `Judge` are given by
`BrukModelController`, in the configuration, and by `BrukTenantController`, in its INSTANCE. `Worlds` is
what else such a reconciler can find, the Secrets for a BrukModel, nothing for the BrukTenant. An initdata
blob is the empty string or three things: does it decode from base64, to which bytes, and are these a whole
gzip stream. The code looks at the first two only; the third is what a guest finds out, and what the
properties compare the verdict with.

**ClaimArbitration** is what the one-pod-per-PVC rule promises, without Deployments, caches and calls: the
claims each service was `granted`, those that workloads from `outside` hold, and the services that are
`refused`. A service is granted claims that are free, gives them up, or takes the place of an outsider
(`Grant`); outsiders leave and never come (`Leave`); a service is refused only while it has nothing
(`Refuse`), and that can be reconsidered (`Reconsider`). `InferenceServiceProperties` instantiates it: granted
is what the CR's own Deployment mounts, outside what hand-written Deployments and standalone Pods mount,
refused a status with TrustedStoreConflict. `ClaimsArbitrated` says that the reconciler, its ten calls and
everybody else implement it.

**Workloads** composes the core with the Pods of the Deployments. `running` is the Pod of each
Deployment, by its claims; `leaving` are the Pods that terminate, each with the name of its Deployment and
whether that Deployment still is the one it belongs to (`owned`). A step of `Next` takes the Pods along
(`StopPods`): those of a deleted Deployment and those of an old template terminate. `StartPod` waits, as
the rendered strategy `Recreate` demands, for the owned ones of its name. A Deployment that was deleted and
applied again is a new one and does not wait. Everything here but the guard and `strategy` is Kubernetes
and marked external.

**Operator** composes the InferenceService reconciler with the BrukTenant reconciler, an instance of
`BrukTenantController` with variables of its own. A user's write of the BrukTenant is one step of both
(`WriteTenant`), the shared informer delivers to both (`InformTenant` and the instance's `Inform`), the
process restarts as a whole, and a status update of the BrukTenant is a tenant event for the CRs
(`ReconcileTenant`). The two workers run independently.

## 3. What is checked

Every run sets `CHECK_DEADLOCK FALSE` except those of `MCRender`: environment operations are bounded,
and an operator without work stands still. Being stuck with work left is what `ConvergedAtRest` and
the liveness properties are about.

### Runs that pass

| Run | Question | Instance |
|---|---|---|
| `exclusive` | Is a claim ever mounted twice if the guard sees the operator's own applies? Is a generation ever forgotten while two CRs contend? | two CRs, two claims, edits, deletions, same-second creation, a stale CR cache, a CR whose Service is never accepted |
| `append_only` | And if every cache is stale? Do Pods stay apart, too? Does the reconciler implement `ClaimArbitration`? | two CRs on one claim that are created, one per second, and edited without moving the claim; a hand-written Deployment under a CR's name, on this claim or another; rollouts, restarts, failed calls. Also: somebody wins |
| `inputs` | Is anything missed when spec, tenant and model change between the calls? Does a converged CR stay untouched? | one CR, three specs, missing and invalid tenants and models (`Validation = FALSE`), three stale caches |
| `convergence` | Does drift get repaired, does everything settle, and is every status written to the object it is about? | one CR edited, deleted, made again; children deleted; rollouts, failing Pods, restarts, failed calls; fair |
| `nudge` | Is annotating the CR, the remedy of the go-live handoff, enough after a conflict was removed? Is a claim granted only when Deployments and Pods from outside are gone (`ClaimArbitration`)? | hand-written Deployments (one of them under the CR's name) and Pods that are retired one by one; fair |
| `operator` | Do the statuses of tenant and services agree about the initdata, and do the two controllers come to rest? | one CR, which comes and goes; the BrukTenant edited, deleted and made again with gzip and with plain TOML (blobs that are no base64: by the theorem); stale tenant cache, restarts, failed calls; fair |
| `render` | Is the template complete, exact, and does it change for what it is to follow, the revision excepted, and only for that? | all sequences of edits of thirteen fields, those with a default and two that are not rendered among them; the percentage at 9, 90, 99 (the others: section 4) |
| `model_status` | Is a BrukModel's status about its spec, never left behind, and right about the token? | one model, five specs, Secrets that come and go unseen, restarts, failed calls; fair |

The properties are stated in words above their definitions. Those that say most:

- `DeploymentsExclusive`: no Deployment of the operator's shares its claim with any Deployment.
- `ClaimsArbitrated`: every step is a step of `ClaimArbitration`. This is more than exclusion between
  Deployments: a claim is granted only when no standalone Pod has it either, it passes from one workload to
  another only through a state in which nobody has it, and a CR is never told of a conflict while its own
  Deployment has the claim, which a stale list, a restart and the guard's three lists could each bring about.
- `PodsExclusive`: a Pod of the operator's shares its claim with no other Pod, its predecessor included. It
  rests on the guard, on the order of creation and on `Recreate`; and on nothing being deleted, see
  `terminating`.
- `InitDataTraceable`: at rest the hashes in the CR's status, in the BrukTenant's and of the blob in the
  Deployment are one, and the BrukTenant's Ready tells whether that blob passed `validateInitData`. Nothing keeps a
  refused blob from being rolled out; this is what an operator of the cluster can rely on to see it.
- `EventuallyQuiet`: status updates wake controllers without a predicate, and yet they come to rest,
  because an update that changes nothing is no event.
- `ClaimHasWinner`: at rest, a claim that CRs contend for and nothing else holds has a winner.
- `ConvergedAtRest`: with nothing queued or under way, every status and child is what a reconcile of
  the live objects would make it. This is the statement that the watches suffice.
- `ConfiguredIsApplied`: Configured=True means that the live Deployment and Service are this CR's and that
  the Deployment's template is, whole, what `Deployment` renders of the CR's spec, a model and a tenant with
  the image, initdata and served name that the status reports, or that a reconcile is coming. A CR that is
  made again takes over the Deployment of its predecessor, its Available condition included.
- `TenantStatusHonest`: a status of the BrukTenant's current generation has the hash of its blob, says Valid of
  every gzip stream, and never of plain TOML or of what is no base64. It does not say
  that Valid means gzip: see the limits below.
- `RollsOnlyForEffect`: in both directions, inputs that are equal after defaults give one template, and inputs
  that are not give two, unless they differ in the revision only. So it finds an accepted field that does not reach
  the Pod, and names the one there is.
- `StatusIsCurrent`: a step that changes a CR's status writes what was found about that object in its
  current generation. It is an action property: a status of the wrong version that is corrected a moment
  later is already a violation. It rests on the resourceVersion; with a patch instead of an update it fails.
- `GenerationObservedAtRest`, and `ObservedAtRest` for the validating reconcilers: at rest, no status is of an
  earlier generation. This also holds where `ConvergedAtRest` does not, under contention: a refused CR may
  wait for something that nobody watches, but its own last edit was looked at.
- `ReconcileIsIdempotent`: once a CR is converged and nothing about it is on its way, the rest of a reconcile
  of it, whenever it began and whatever it read, changes no watched object. Without it an operator that watches
  what it writes, without predicates, would keep itself busy.
- `EventuallyConverged`, `StatusRecorded`, `NudgeRecovers`, `ReadyTracksToken`: liveness.
- `StatusDescribesSpec`: a status that claims the current generation reports on the current spec,
  although the object was edited or made again while the reconcile was under way.

Each of them has a mutant: one fault in one definition, under which the same run finds a violation.

### Bounds

Names are numbers because the code orders names. One or two CRs suffice for anything pairwise: the
guard compares two CRs or a CR and a Deployment. `MaxOps` is 2 to 4. A create takes one, so that 3 is a CR and two changes: a change during the
reconcile of a change, or a deletion and a second creation during a reconcile of the first. Serial
numbers, generations and the clock are bounded through `MaxOps`. The two claims of `exclusive` are
symmetric: every name has a spec with each, nothing orders them, and the run checks two invariants in
which claims are interchangeable.

### Fairness

`FairSpec` assumes that the worker goroutine goes on with a reconcile it has begun, that watches
deliver, and that the garbage collector and the Deployment controller do their work. The
dequeue of a name has strong fairness: the workqueue is first-in first-out, so a request that keeps
failing and coming back does not keep another one out. Nothing is assumed of users, restarts and
failing calls: they happen or not, within `MaxOps`. `FairOperatorSpec` assumes the same of the BrukTenant
controller, which has a worker and a workqueue of its own.

### Disagreements between code and documentation

Four runs expect a violation. Each states what a comment or document says and shows a behaviour of the
code that contradicts it.

| Run | Property | What happens |
|---|---|---|
| `stale_deployments` | `DeploymentsExclusive` | CRs 2 and 1 are created in the same second, in this order. 2 sees no sibling and is applied. 1 wins the tie by name, and its list of Deployments, from the cache, does not have the new one yet: both mount the claim. The API comment says that the reconciler enforces one workload per claim. |
| `contested` | `ClaimHasWinner` | The older of two CRs is edited onto the younger one's claim, and the operator restarts (any event that wakes the younger CR does). The older is refused because of the younger one's Deployment, the younger because of the older CR, for good. ADR-0007 names an older sibling, an unmanaged Deployment and a standalone Pod as the ways to lose a claim. |
| `rollout` | `ReadyMeansRolledOut` | The tenant's initdata changes. The apply returns the conditions of the Pods before it, and the status reports the new hash with Ready=True and "rollout complete" while the old Pods run. |
| `terminating` | `GuardCoversPods` | The adoption procedure: a CR is applied, the hand-written Deployment is deleted. The Deployment is gone at once, its Pod terminates and holds the claim, and the guard, which skips Pods with an owner, lets the CR pass. The comment there says that such Pods are covered via their Deployment. The go-live handoff knows the situation and relies on the volume (ReadWriteOnce) to keep the new Pod waiting; that mode keeps apart nodes, not Pods of one node. A Deployment deleted behind the operator's back, and a CR edited onto another claim, open the same gap. |

Related limits that the model shows and no run is spent on:

- After the older sibling, or a hand-written Deployment or Pod, is deleted, nothing wakes the CR that
  was refused because of it. `ConvergedAtRest` is false in an instance with `"delete"` and two CRs on a
  claim, or with `"retire"`. The remedy, annotating the CR, is what `nudge` checks.
- The token Secret is not watched, so a BrukModel stays Ready after the Secret is deleted.
  `ReadyTracksToken` says what does hold.
- `revision`, which "pins a Hugging Face commit for deterministic weights" (`brukmodel_types.go:60`), is
  validated and not rendered: `engineArgs` passes the repository only, and an edit of it alone leaves the
  template as it is. The weights-progress handoff (lines 97-98) knows that it is not passed. `RollsOnlyForEffect` without
  the exception for it is false after one edit.
- The comment of `validateInitData` says that it "checks the blob is base64-decodable gzip"
  (`bruktenant_controller.go:77`). It looks at the magic: a blob that was cut off after it makes the BrukTenant Valid.
  `TenantStatusHonest` with Valid only for gzip is false for a tenant with such a blob.
- A CR with a name that no Service may have (`Unservable`) never gets a status: every reconcile fails
  at the Service, after the Deployment was applied.

## 4. What is proved

Everything here is checked by TLAPS to the last leaf, for any `Names`, `Specs`, `Models`, `ModelSpecs`,
`TenantSpecs`, `Claims`, `HandWrittenNames`, `Unservable`, `Validation`, `Lag`, `Ops` and `MaxOps` that
satisfy the assumptions at the end of this section and the premises of the theorem. TLC checked each
inductive invariant on instances of the runs' size before it was proved.

| Theorem | States | Premise, and what happens without it |
|---|---|---|
| `TypeCorrect` | `Spec => []TypeOK` | none |
| `Exclusive` | `Spec => []DeploymentsExclusive` | `OwnAppliesListed` in every step; `stale_deployments` |
| `Arbitrates` | `Spec => ClaimsArbitrated` | `AppendOnly`; `stale_deployments` |
| `ExclusiveByAge` | `Spec => []DeploymentsExclusive` | `AppendOnly`; `stale_deployments` |
| `HasWinner` | `Spec => []ClaimHasWinner` | `AppendOnly`, `NothingRetired`; `contested` |
| `StatusesAreCurrent` | `Spec => StatusIsCurrent` | none |
| `StatusApplied` | `Spec => []ConfiguredIsApplied` | none |
| `EveryGenerationObserved` | `Spec => []GenerationObservedAtRest` | none |
| `Converges` | `Spec => []ConvergedAtRest` | `Uncontended`; "Related limits" in section 3 |
| `Idempotent` | `Spec => ReconcileIsIdempotent` | `Uncontended`; see below |
| `WorkloadsImplement` | `WorkloadsSpec => Spec` | none |
| `PodsApart` | `WorkloadsSpec => []PodsExclusive` | `AppendOnly`, `NothingRetired`, `NothingDeleted`; `terminating` |
| `StatusTypeCorrect`, `StatusHonest`, `StatusCatchesUp` | `TypeOK`, `StatusDescribesSpec`, `ObservedAtRest` of the validating reconcilers | none |
| `TenantHonestInOperator` | `OperatorSpec => []TenantStatusHonest` | none |
| `ExclusiveInOperator` | `OperatorSpec => []DeploymentsExclusive` | `OwnAppliesListed` in every step; `stale_deployments` |
| `InitDataIsTraceable` | `OperatorSpec => []InitDataTraceable` | none |
| `AppliedInOperator` | `OperatorSpec => []ConfiguredIsApplied` | none |
| `ConvergesInOperator` | `OperatorSpec => []ConvergedAtRest` | `Uncontended` |
| `Complete`, `Exact`, `RollsExactly` | the three properties of the renderer | inputs that pass the checks before the render |

### The core: `InferenceServiceProofs`

**`TypeCorrect`** says more than that values are of their kind: the worker
has the tenant and the model it needs at every call, the model it renders has a source, and
an object keeps the name of its uid. `TypeOK` is not inductive: `UpdateStatus` writes to `isvc[n]`
without looking whether there is one, as the code does, and relies on the resourceVersion. The
strengthening `TypeInv` adds

- `CacheFresh`: a name without an undelivered event has the live CR in the cache;
- `CopyFresh`: a copy whose resourceVersion still is the live one equals the live CR.

`CacheFresh` makes a copy fresh when it is taken, every write to the CR clears `fresh` or happens to
another name, and so a status update only reaches the object it was computed from. **`StatusesAreCurrent`**
states that for every step: only `UpdateStatus` changes a status, it does so with a fresh copy, and by
`CopyFresh` that copy is the live CR, its generation included.

**`Exclusive`** locates what `stale_deployments` shows. Its premise is not about the cache as such, which may
be behind in every other way, but about one moment: when the guard lists the Deployments and the operator itself has
put one on the claim for another CR, it finds a conflict (`OwnAppliesListed`). The code does not ensure
that, and the run is a behaviour in which exactly this step fails it. All else is proved: any number of CRs,
created in the same second, edited, deleted and made again, with every cache stale, hand-written Deployments,
restarts and failed calls. The inductive invariant `ExclusiveInv` adds to `TypeInv` and the property

- `GuardHolds`: from the list of Deployments to the apply, no Deployment of another controller mounts
  the claim of the worker's copy;
- `HandWrittenSeen`: the cache, however old, has the hand-written Deployments that are there, since
  nobody adds one.

`GuardHolds` is needed because the list and the apply are different steps. It is kept because no one else
mounts a claim in between: users and Kubernetes only remove Deployments or change their availability
(`OthersKeepMounts`), and the only other apply would be by the same worker. So a guard that saw the
operator's own applies, by a live read or by its own memory, would exclude whatever users do; the order of
creation plays no part in it.

### Status and children: `ConvergenceProofs`

**`StatusApplied`** needs, besides `TypeInv`, what the worker may rely on between its applies and the status
update (`AppliedInv`): once the Deployment is applied it stays this CR's, with what the worker rendered
(`DeploymentApplied`), and the Service likewise (`ServiceApplied`), or a request or an event for this CR
is pending. The lemma that carries the proof is `ChangesAreEvents`: whatever a user or Kubernetes does to a
CR or to a child it controls leaves an event. It holds through partial failures, because a call that fails
puts its name back into the queue, and through a re-creation under the same name, because then the copy is
not fresh, and the new CR's applies take the children over.

**`Converges`** is about states in which nothing is on its way, and the invariant (`ConvergedInv`) about
all states: a CR that is not settled is being reconciled, or requested, or an event that leads to a request is on its way
(`ConvergedSoon`). During a reconcile of a fresh copy, what was read still is what is there, or the same
kind of event is coming (`Progress`, `ReadLive`); caches are current but for undelivered events
(`InputFresh`). So it says that `SetupWithManager` watches everything that a verdict depends on. `Uncontended`
(no hand-written workloads; no two names with a claim in common, unless on local volumes, which are rejected) is needed because that is false of a refusal:
nothing watches what it depends on. The runs `convergence` and `inputs` satisfy it. `Judgement` is what
`Verdict` comes to there; it keeps the one conflict that remains, a CR made again under its name while
the Deployment of its predecessor is there.

**`EveryGenerationObserved`** has no premise. The invariant is `ObservedSoon`: a status of an earlier
generation belongs to a CR that is being reconciled or has a request or an event to come. A reconcile ends
with a status of the generation of its copy, or, when the copy is not fresh or a call fails, puts the name
back into the queue. It is weaker than `ConvergedSoon` and needs nothing of what the verdict depends on, so
that it holds of refusals, too.

**`Idempotent`** is about one step, from a state in which the CR is converged and nothing about it is on its
way, at any place of a reconcile that may have begun long before. `Progress` says that what a worker with a
fresh copy has read is live, or an event is coming. What is missing is `StaleComing` (a worker whose copy is
not fresh has the event that made it so, or a request, still to come, so this state excludes it) and
`FailuresAgree` (a failure sets the three conditions alike, so that setting them again changes nothing). Then
each apply renders what is there, and the status update writes what is there. The premise is that of
`Converges`, which `Progress` rests on.

### Exclusion by age: `AppendOnlyProofs`

`Exclusive` assumes that the list of Deployments has the operator's own applies. **`ExclusiveByAge`** has every cache as far behind as it
likes and rests on the other list, of the siblings. The premise `AppendOnly`: CRs are created one per second,
are not deleted and do not move to another claim. Then a cache that has a CR has every older one
(`Snapshot`), so that only the eldest CR of a claim passes (`Passed`), and every
Deployment of the operator's, live or cached, is that of the eldest CR of the claim it mounts (`Owned`).
Hand-written Deployments are never added, so even an old list has those that are there
(`HandWrittenSeen`).

**`HasWinner`**: a refusal always has a live reason (`Refused`), which for the eldest CR can only be
a hand-written workload, and the eldest exists by the well-foundedness of creation times (`OldestExists`).
`NothingRetired` keeps reasons alive: no hand-written workload is removed or, by a CR that takes
over its name, moved off a claim.

**`Arbitrates`** is the refinement of `ClaimArbitration`, under `AppendOnly` alone: caches are stale, and Deployments may be
deleted and hand-written workloads retired. That the apply is a `Grant` follows from `AppendOnlyInv` for
Deployments (`ApplyGrants`, `OneEldest`). For the rest `Granting` is added: the cache of Pods has the ones that are there; past
the guard, and as long as a CR's Deployment is there, no hand-written Deployment and no standalone Pod on
its claim is in any list (`NoneSeen`, `NoPodSeen`); and a worker that found a conflict works for a CR
without a Deployment. The last is what makes a status update a `Refuse` (`UpdateRefuses`): a CR that is served
is the eldest on its claim, no list can show it a rival (`ServedPasses`), and it does not come to be
served while its refusal is on the way.

The premises of all three, and `NothingDeleted`, hold of the run `append_only`; `AppendOnly` also of `nudge`, where
hand-written workloads are retired.

### Pods: `WorkloadsProofs`

**`WorkloadsImplement`**: the core's variables are a part of the state of `Workloads`, and its steps are the
core's or leave them alone. That carries the results above over (`ExclusiveWithPods`, `WinnerWithPods`).

**`PodsApart`**: a Pod, running or terminating, holds a claim only if its Deployment mounts it (`RunningHolds`,
`LeavingHolds`), and Deployments are apart by `ExclusiveByAge`; a Deployment has a terminating Pod only while it has no
running one, which is `Recreate`. The exception is a Pod from before a hand-written
Deployment was taken over by the CR of its name (`Leftover`), which holds a claim that no CR names.
`NothingDeleted` (no Deployment is deleted behind the operator's back, and a CR takes over a hand-written
Deployment only where it is the only one) is what `terminating` shows to be needed.

### The validating reconcilers, and the composition: `StatusReconcilerProofs`, `OperatorProofs`

**`StatusHonest`** holds for any `Judge` and `Asks`, so for both reconcilers. The invariant is that of
`TypeCorrect` (`CacheFresh`, `CopyFresh`), with `ReportAboutCopy` (what the worker is about to write is about
the copy it holds) and `ObservedBound` (no status is about a generation that is yet to come, else an edit could
make an old status current).

**`StatusCatchesUp`** is the counterpart at rest, by `ReportedSoon`: a status of an earlier generation is being
recomputed, requested, or its event is undelivered. It is what `SetStatus` relies on when the API server
refuses its update.

**`TenantHonestInOperator`** applies it to the composition: a step of `Operator` is a step of
`BrukTenantController` or one that changes none of its state, except that the budget of environment operations
is shared. `GzipMagic` shows what two bytes are worth: `validateInitData` accepts every gzip stream, and neither
what is no base64 nor the text of a TOML file, which has no control character 1f. It does not show that what is
accepted is gzip, which is false (section 3). **`ExclusiveInOperator`** is the other half: the BrukTenant controller
takes only steps that keep `ExclusiveInv`. **`AppliedInOperator`** and **`ConvergesInOperator`** carry
`StatusApplied` and `Converges` over in the same way: what the BrukTenant controller does leaves the CRs, their
children and the spec of the tenant alone and can only add a tenant event (`TenantSideAdds`).

**`InitDataIsTraceable`** relates what two controllers wrote at different times about the same blob, and needs
no premise on contention. For the InferenceService controller, `ReportInv` adds to `AppliedInv`

- `TenantFresh`: without an undelivered tenant event, the cached tenant is the live one;
- `TenantInHand`: the tenant a worker with a fresh copy has read is the live one, or an event is coming that wakes its CR;
- `TenantReported`: the hash in the status of a Configured CR is that of the live blob, or an event or
  request is coming, or the CR is being reconciled.

This is only about Configured CRs, so that a refusal, which nobody wakes, does not matter. For the BrukTenant
controller, `ReportedSoon` and `StatusDescribesSpec` give the same of its own status. `OneTenant` joins them: both
mean the same object, and an event is undelivered for both or for neither. At rest all the ways out are closed,
and with `ConfiguredIsApplied` the Deployment has the same hash.

### The renderer: `RenderProofs`

The run `render` tries a few values per field; here every name, quantity, blob and threshold is arbitrary
(`Inputs(V)`, for any set `V`), and every percentage from 1 to 99. `RollsExactly` takes the template apart
(`VolumesTell`, `DigitsTell`, `PairTells`): each part determines the inputs it is made of, up to defaults, and
nothing else enters. `Effective`, which it is compared with, is not made from the template: it is all of the CR's spec,
the model's source and the tenant, with defaults resolved. The one input that does not come back is the revision,
which is why `RollsOnlyForEffect` puts both inputs at one revision (`Repinned`) before it compares them. A cache limit without a cache does not occur, since the limit is a field of the optional
struct (`WeightsCacheSpec`).

### Assumptions on constants

In `Cluster`: names are numbers (`NamesAssumption`), `MaxOps` is one
(`BoundAssumption`), `Validation` is a Boolean (`ValidationAssumption`), `Lag` and `Ops` are among the known words (`LagAssumption`, `OpsAssumption`), CRs
refer to names in `Models` (`ModelRefAssumption`: a model that does not exist is `None` under its name),
and `None` is none of the specs and names (`AbsentAssumption`). In `InferenceServiceProperties`, `None` is
none of the uids and objects (`NoneAssumption`). In `StatusReconciler`, the like for its own constants. In
`Operator`, a blob is two flags and a sequence of bytes, which begins with the magic if it is gzip (`BlobAssumption`), and the name of the BrukTenant is not `None`
(`TenantNameAssumption`), nor is it a BrukTenant (`TenantObjectAssumption`). TLC evaluates them in the runs.

### Model-checked only

Liveness: `EventuallyConverged`, `StatusRecorded`, `NudgeRecovers`, `ReadyTracksToken` and `EventuallyQuiet`, which
the prover does not reach. The theorems above are their safety part: `ConvergedAtRest`, `GenerationObservedAtRest`
and `ReconcileIsIdempotent` say that an operator that rests rests in the right state and is not woken by its own
writes; that it comes to rest is what TLC checks.

## 5. Limits of the model

- One namespace. The operator handles namespaces alike, and claims do not cross them.
- Server-side apply replaces the whole template. The fields the operator does not own are not modelled.
- Pods of a Deployment exist in `Workloads` only, one per Deployment. A Pod that is deleted or evicted
  while its Deployment stays is not modelled: its ReplicaSet replaces it before it is gone, `Recreate`
  or not.
- Whether a volume or a GPU keeps a second Pod waiting is not modelled: a Pod holds its claim from its
  creation on.
- `Operator` has no BrukModel controller: it writes the status of BrukModels, whose events wake CRs in the
  same way as those of the BrukTenant.
- Nobody deletes the shared ConfigMap, and finalizers and foreground deletion do not occur.
- Metrics, probes, TLS and flags of the manager are configuration of libraries. Leader election is
  taken to work: there is one active process.
- Quantities are tokens: the schema's ceilings on memory and CPU are left out, as are the catalog and
  infrastructure fields, which nothing reads.
- Messages and logging are left out.

## 6. Not modelled, and plan

Not modelled: the generated deepcopy code and the scheme registration have no behaviour of their own;
manifests, chart, GitOps and CI are declarations; attestation, registry and `build-initdata.sh` are pipes of
external commands; `install/bootstrap.sh` runs by hand before there is an operator, and what could go wrong
in it (waits that fall through, `bootstrap.sh:84`) is in the state of the programs it calls. Of `main.go`,
flags, TLS, metrics and probes configure libraries. Two active manager processes are excluded by
`--leader-elect`, which chart and manifest pass and the binary does not default to.

Every invariant and every action property of a passing run is the statement of a theorem. What could
follow: a BrukModel controller in `Operator`, whose status updates wake CRs as those of the BrukTenant do (the
lemma `TenantSideAdds` has the form that its steps would need), and `Converges` with a weaker premise, contended
claims whose holders do not change, for which a refusal would have to keep its reason as in `HasWinner`.

--------------------- MODULE InferenceServiceController ---------------------
(***************************************************************************)
(* operator/internal/controller/inferenceservice_controller.go: the        *)
(* reconciler that turns an InferenceService (a CR) into a Deployment, a   *)
(* Service and a status, run by controller-runtime with one worker.        *)
(*                                                                         *)
(* The reconciler reads through informer caches and writes to the API      *)
(* server, one call after the other, while everybody of Cluster changes    *)
(* the same objects.  Every call of Reconcile is an action, so that        *)
(* anything can happen between two of them.  An operator whose name ends   *)
(* in _Something is the operator of that name with a fault in it.          *)
(***************************************************************************)
EXTENDS Cluster

-----------------------------------------------------------------------------
\* The name alone.
precedes_ByName(a, na, b, nb) == na < nb

\* creationTimestamp, then name.
precedes(a, na, b, nb) ==
  IF a.created # b.created THEN a.created < b.created ELSE na < nb

\* What a read through the manager's client returns.
SeenIsvc       == IF "isvc"       \in Lag THEN cache.isvc       ELSE isvc
SeenTenant     == IF "tenant"     \in Lag THEN cache.tenant     ELSE tenant
SeenModel      == IF "model"      \in Lag THEN cache.model      ELSE model
SeenDeployment == IF "deployment" \in Lag THEN cache.deployment ELSE deployment
SeenPods       == IF "pod"        \in Lag THEN cache.pod        ELSE pods

\* The cluster as the operator finds it: no CRs, perhaps hand-written
\* Deployments and standalone Pods, each on a claim.  A tenant or a model can
\* be missing at the start if it can come later.
Init ==
  /\ isvc = [n \in Names |-> None]
  /\ tenant \in {t \in TenantSpecs : BrukTenantAdmitted(t)}
                \cup IF "tenant" \in Ops THEN {None} ELSE {}
  /\ model \in [Models -> {m \in ModelSpecs : BrukModelAdmitted(m)}
                           \cup IF "model" \in Ops THEN {None} ELSE {}]
  /\ \E mounted \in [HandWrittenNames -> Claims \cup {None}] :
       deployment = [d \in DeploymentNames |->
         IF d \in HandWrittenNames /\ mounted[d] # None
           THEN [owner |-> None, template |-> HandWritten(mounted[d]),
                 available |-> TRUE, rolledOut |-> TRUE]
           ELSE None]
  /\ service = [n \in Names |-> None]
  /\ configMap = FALSE
  /\ pods \in IF "retire" \in Ops THEN SUBSET Claims ELSE {{}}
  /\ cache = [isvc |-> isvc, tenant |-> tenant, model |-> model,
              deployment |-> deployment, pod |-> pods]
  /\ events = NoEvents
  /\ queue = {}
  /\ worker = Idle
  /\ clock = 0 /\ serial = 0 /\ ops = 0

-----------------------------------------------------------------------------
(* Reconcile, one action per call *)

\* An error that is logged and not returned.
Requeue_Swallowed == worker' = Idle /\ UNCHANGED queue

\* An error return: controller-runtime puts the request back.
Requeue == /\ queue' = queue \cup {worker.name}
           /\ worker' = Idle

\* Reconcile goes on to write the failure into the status.
Fail(reason) == worker' = [worker EXCEPT !.pc = "updateStatus", !.verdict = reason]

\* r.Get of the CR.  A copy is fresh when it has the live resourceVersion.
GetInferenceService(n) ==
  /\ worker.pc = "idle"
  /\ n \in queue
  /\ queue' = queue \ {n}
  /\ worker' = IF SeenIsvc[n] = None
                 THEN Idle
                 ELSE [Idle EXCEPT !.pc = "getTenant", !.name = n, !.isvc = SeenIsvc[n],
                                   !.fresh = "isvc" \notin Lag \/ n \notin events.isvc]
  /\ UNCHANGED <<isvc, childVars, inputVars, cache, events, envVars>>

GetTenant ==
  /\ worker.pc = "getTenant"
  /\ IF SeenTenant = None
       THEN Fail("TenantConfigMissing")
       ELSE worker' = [worker EXCEPT !.pc = "getModel", !.tenant = SeenTenant]
  /\ UNCHANGED <<isvc, childVars, inputVars, cache, events, queue, envVars>>

\* Without the check of model.Spec.Source.HuggingFace.
Invalid_AnySource(spec, m) ==
  CASE m = None                     -> "ModelNotFound"
    [] m # None /\ spec.localVolume -> "NotImplemented"
    [] m # None /\ ~spec.localVolume /\ spec.maxModelLen > m.contextLength -> "InvalidConfig"
    [] OTHER                        -> "Configured"

\* What Reconcile rejects once it has the model, in the code's order.
Invalid(spec, m) ==
  CASE m = None                           -> "ModelNotFound"
    [] m # None /\ spec.localVolume       -> "NotImplemented"
    [] m # None /\ ~spec.localVolume
         /\ (m.source = None \/ spec.maxModelLen > m.contextLength) -> "InvalidConfig"
    [] OTHER                              -> "Configured"

GetModel ==
  /\ worker.pc = "getModel"
  /\ LET m == SeenModel[worker.isvc.spec.modelRef]
         verdict == Invalid(worker.isvc.spec, m)
     IN  IF verdict # "Configured"
           THEN Fail(verdict)
           ELSE worker' = [worker EXCEPT !.pc = "listSiblings", !.model = m]
  /\ UNCHANGED <<isvc, childVars, inputVars, cache, events, queue, envVars>>

(* trustedStoreConflict: three lists *)

\* Any sibling wins, older or not.
SiblingConflict_AnyAge(n, i, all) ==
  \E o \in Names \ {n} : all[o] # None /\ all[o].spec.claim = i.spec.claim

SiblingConflict(n, i, all) ==
  \E o \in Names \ {n} :
    /\ all[o] # None
    /\ all[o].spec.claim = i.spec.claim
    /\ precedes(all[o], o, i, n)

\* Only hand-written Deployments count, or only those of other CRs.
DeploymentConflict_Unmanaged(i, all) ==
  \E d \in DeploymentNames :
    /\ all[d] # None /\ all[d].owner = None
    /\ podSpecMountsClaim(all[d].template, i.spec.claim)

DeploymentConflict_Managed(i, all) ==
  \E d \in DeploymentNames :
    /\ all[d] # None /\ all[d].owner # None /\ all[d].owner # i.uid
    /\ podSpecMountsClaim(all[d].template, i.spec.claim)

\* The CR's own Deployment counts, too.
DeploymentConflict_Own(i, all) ==
  \E d \in DeploymentNames :
    all[d] # None /\ podSpecMountsClaim(all[d].template, i.spec.claim)

DeploymentConflict(i, all) ==
  \E d \in DeploymentNames :
    /\ all[d] # None
    /\ ~IsControlledBy(all[d], i.uid)
    /\ podSpecMountsClaim(all[d].template, i.spec.claim)

ListSiblings ==
  /\ worker.pc = "listSiblings"
  /\ IF SiblingConflict(worker.name, worker.isvc, SeenIsvc)
       THEN Fail("TrustedStoreConflict")
       ELSE worker' = [worker EXCEPT !.pc = "listDeployments"]
  /\ UNCHANGED <<isvc, childVars, inputVars, cache, events, queue, envVars>>

ListDeployments ==
  /\ worker.pc = "listDeployments"
  /\ IF DeploymentConflict(worker.isvc, SeenDeployment)
       THEN Fail("TrustedStoreConflict")
       ELSE worker' = [worker EXCEPT !.pc = "listPods"]
  /\ UNCHANGED <<isvc, childVars, inputVars, cache, events, queue, envVars>>

\* Only Pods without an owner count.
ListPods ==
  /\ worker.pc = "listPods"
  /\ IF worker.isvc.spec.claim \in SeenPods
       THEN Fail("TrustedStoreConflict")
       ELSE worker' = [worker EXCEPT !.pc = "applyConfigMap"]
  /\ UNCHANGED <<isvc, childVars, inputVars, cache, events, queue, envVars>>

\* The shared ConfigMap, if the workload needs it; then the render.
ApplyConfigMap ==
  /\ worker.pc = "applyConfigMap"
  /\ configMap' = (configMap \/ worker.isvc.spec.weightsCache)
  /\ IF renderError(worker.model, worker.tenant)
       THEN Fail("InvalidConfig")
       ELSE worker' = [worker EXCEPT !.pc = "applyDeployment"]
  /\ UNCHANGED <<isvc, deployment, service, inputVars, cache, events, queue, envVars>>

\* Server-side apply with force: no resourceVersion is checked.  Owner references
\* are merged by uid, and those this field manager applied before and applies no
\* longer are dropped: the Deployment of a deleted CR of this name that is still
\* there is taken over, with its Available condition.
Applied(old) ==
  LET template == Deployment(worker.isvc.spec, worker.model, worker.tenant)
      same     == old # None /\ old.template = template
  IN  [owner     |-> worker.isvc.uid,
       template  |-> template,
       available |-> old # None /\ old.available,
       rolledOut |-> same /\ old.rolledOut]

ApplyDeployment ==
  /\ worker.pc = "applyDeployment"
  /\ LET n == worker.name
         old == deployment[n]
     IN  /\ deployment' = [deployment EXCEPT ![n] = Applied(old)]
         /\ events' = IF Applied(old) = old THEN events
                      ELSE [events EXCEPT !.deployment = @ \cup {n}]
         /\ worker' = [worker EXCEPT !.pc = "applyService",
                                     !.available = Applied(old).available]
  /\ UNCHANGED <<isvc, service, configMap, inputVars, cache, queue, envVars>>

\* Taken over like the Deployment; a name that is no Service name is an error.
ApplyService ==
  /\ worker.pc = "applyService"
  /\ LET n == worker.name
     IN  IF n \in Unservable
           THEN Requeue /\ UNCHANGED <<service, events>>
           ELSE /\ service' = [service EXCEPT ![n] = worker.isvc.uid]
                /\ events' = IF service[n] = worker.isvc.uid THEN events
                             ELSE [events EXCEPT !.service = @ \cup {n}]
                /\ worker' = [worker EXCEPT !.pc = "updateStatus", !.verdict = "Configured"]
                /\ UNCHANGED queue
  /\ UNCHANGED <<isvc, deployment, configMap, inputVars, cache, envVars>>

-----------------------------------------------------------------------------
(* Status *)

\* failConfigured: WorkloadAvailable and what was applied keep their values.
FailedStatus(i, reason) ==
  [i.status EXCEPT !.configured = reason, !.ready = reason, !.progressing = reason,
                   !.observed = i.generation]

\* updateReadyStatus
ReadyStatus(i, m, t, available) ==
  [observed    |-> i.generation,
   configured  |-> "Configured",
   workload    |-> IF available THEN "WorkloadReady" ELSE "WorkloadPending",
   ready       |-> IF available THEN "WorkloadReady" ELSE "WorkloadPending",
   progressing |-> IF available THEN "WorkloadReady" ELSE "Deploying",
   applied     |-> [initDataHash |-> InitDataHash(t.initData),
                    image        |-> t.defaultImage,
                    servedName   |-> ServedModelName(i.spec.modelRef, m)]]

NewStatus(w) ==
  IF w.verdict = "Configured"
    THEN ReadyStatus(w.isvc, w.model, w.tenant, w.available)
    ELSE FailedStatus(w.isvc, w.verdict)

\* The status is written to whatever has the name by now, as by a patch without a
\* resourceVersion.
UpdateStatus_Patch ==
  /\ worker.pc = "updateStatus"
  /\ LET n == worker.name
     IN  IF isvc[n] = None
           THEN Requeue /\ UNCHANGED <<isvc, events>>
           ELSE /\ isvc' = [isvc EXCEPT ![n].status = NewStatus(worker)]
                /\ events' = IF NewStatus(worker) = isvc[n].status THEN events
                             ELSE [events EXCEPT !.isvc = @ \cup {n}]
                /\ worker' = Idle
                /\ UNCHANGED queue
  /\ UNCHANGED <<childVars, inputVars, cache, envVars>>

\* Every update is a change, as with a new LastTransitionTime each time.
UpdateStatus_AlwaysWrites ==
  /\ worker.pc = "updateStatus"
  /\ LET n == worker.name
     IN  IF ~worker.fresh
           THEN Requeue /\ UNCHANGED <<isvc, events>>
           ELSE /\ isvc' = [isvc EXCEPT ![n].status = NewStatus(worker)]
                /\ events' = [events EXCEPT !.isvc = @ \cup {n}]
                /\ worker' = Idle
                /\ UNCHANGED queue
  /\ UNCHANGED <<childVars, inputVars, cache, envVars>>

\* Status().Update carries the resourceVersion of the copy: an update from a
\* copy that is not fresh is a Conflict (or NotFound), returned as an error.
\* An update that changes nothing leaves the resourceVersion alone.
UpdateStatus ==
  /\ worker.pc = "updateStatus"
  /\ LET n == worker.name
     IN  IF ~worker.fresh
           THEN Requeue /\ UNCHANGED <<isvc, events>>
           ELSE /\ isvc' = [isvc EXCEPT ![n].status = NewStatus(worker)]
                /\ events' = IF NewStatus(worker) = worker.isvc.status THEN events
                             ELSE [events EXCEPT !.isvc = @ \cup {n}]
                /\ worker' = Idle
                /\ UNCHANGED queue
  /\ UNCHANGED <<childVars, inputVars, cache, envVars>>

Reconcile ==
  \/ \E n \in Names : GetInferenceService(n)
  \/ GetTenant \/ GetModel
  \/ ListSiblings \/ ListDeployments \/ ListPods
  \/ ApplyConfigMap \/ ApplyDeployment \/ ApplyService
  \/ UpdateStatus

-----------------------------------------------------------------------------
(* Informers: a watch delivers what happened to a kind since it last did,   *)
(* and the event handlers of SetupWithManager enqueue the requests.         *)

Refresh(kind, objects) ==
  cache' = IF kind \in Lag THEN [cache EXCEPT ![kind] = objects] ELSE cache

Behind(kind, objects) == kind \in Lag /\ cache[kind] # objects

\* For(InferenceService), without predicates: every change of the CR itself.
ownRequests_GenerationChanged(changed) ==
  {n \in changed : \/ cache.isvc[n] = None \/ isvc[n] = None
                   \/ cache.isvc[n].generation # isvc[n].generation}

ownRequests(changed) == changed

\* Every InferenceService that names a changed BrukModel.
servicesForModel(changed) ==
  {n \in Names : SeenIsvc[n] # None /\ SeenIsvc[n].spec.modelRef \in changed}

\* Every InferenceService; without the watch, none.
allServices_Unwatched == {}

allServices == {n \in Names : SeenIsvc[n] # None}

\* Owns(Deployment): the controller of a changed child, which has its name (that of
\* before and that of after a takeover have the same).
ownersOfDeployments_Unwatched(changed) == {}

ownersOfDeployments(changed) == changed

InformIsvc ==
  /\ events.isvc # {}
  /\ Refresh("isvc", isvc)
  /\ events' = [events EXCEPT !.isvc = {}]
  /\ queue' = queue \cup ownRequests(events.isvc)
  /\ UNCHANGED <<isvc, childVars, inputVars, worker, envVars>>

InformTenant ==
  /\ events.tenant
  /\ Refresh("tenant", tenant)
  /\ events' = [events EXCEPT !.tenant = FALSE]
  /\ queue' = queue \cup allServices
  /\ UNCHANGED <<isvc, childVars, inputVars, worker, envVars>>

InformModel ==
  /\ events.model # {}
  /\ Refresh("model", model)
  /\ events' = [events EXCEPT !.model = {}]
  /\ queue' = queue \cup servicesForModel(events.model)
  /\ UNCHANGED <<isvc, childVars, inputVars, worker, envVars>>

\* events.deployment has the changed Deployments with a controller; the others
\* only change the cache.
InformDeployment ==
  /\ events.deployment # {} \/ Behind("deployment", deployment)
  /\ Refresh("deployment", deployment)
  /\ events' = [events EXCEPT !.deployment = {}]
  /\ queue' = queue \cup ownersOfDeployments(events.deployment)
  /\ UNCHANGED <<isvc, childVars, inputVars, worker, envVars>>

\* Owns(Service): the reconciler never reads one.
InformService ==
  /\ events.service # {}
  /\ events' = [events EXCEPT !.service = {}]
  /\ queue' = queue \cup events.service
  /\ UNCHANGED <<isvc, childVars, inputVars, cache, worker, envVars>>

\* Pods are cached for the guard's list, and watched by no handler.
InformPod ==
  /\ Behind("pod", pods)
  /\ Refresh("pod", pods)
  /\ UNCHANGED <<isvc, childVars, inputVars, events, queue, worker, envVars>>

Inform == InformIsvc \/ InformTenant \/ InformModel \/ InformDeployment
          \/ InformService \/ InformPod

-----------------------------------------------------------------------------
(* The operator process *)

\* The process ends and the next leader starts: it lists every kind, and the
\* initial Add events enqueue every CR and the controller of every child.
Restart ==
  /\ Operation("restart")
  /\ worker' = Idle
  /\ cache' = [isvc       |-> IF "isvc" \in Lag THEN isvc ELSE cache.isvc,
               tenant     |-> IF "tenant" \in Lag THEN tenant ELSE cache.tenant,
               model      |-> IF "model" \in Lag THEN model ELSE cache.model,
               deployment |-> IF "deployment" \in Lag THEN deployment ELSE cache.deployment,
               pod        |-> IF "pod" \in Lag THEN pods ELSE cache.pod]
  /\ events' = NoEvents
  /\ queue' = {n \in Names : \/ isvc[n] # None
                             \/ deployment[n] # None /\ deployment[n].owner # None
                             \/ service[n] # None}
  /\ UNCHANGED <<isvc, childVars, inputVars, clock, serial>>

\* A call of Reconcile fails for a reason of its own (the API server is away).
ApiError ==
  /\ Operation("apiError")
  /\ worker.pc # "idle"
  /\ Requeue
  /\ UNCHANGED <<isvc, childVars, inputVars, cache, events, clock, serial>>

-----------------------------------------------------------------------------

Next == Reconcile \/ Inform \/ User \/ Kubernetes \/ Restart \/ ApiError

Spec == Init /\ [][Next]_vars

(***************************************************************************)
(* Fairness.  The worker goroutine runs, watches deliver, and Kubernetes'  *)
(* own controllers run.  The workqueue is first-in first-out, so a request *)
(* that keeps coming back does not starve another: strong fairness of the  *)
(* dequeue of each name.  Users and failures owe nothing.                  *)
(***************************************************************************)
Fairness ==
  /\ WF_vars(worker.pc # "idle" /\ Reconcile)
  /\ \A n \in Names : SF_vars(GetInferenceService(n))
  /\ WF_vars(InformIsvc) /\ WF_vars(InformTenant) /\ WF_vars(InformModel)
  /\ WF_vars(InformDeployment) /\ WF_vars(InformService) /\ WF_vars(InformPod)
  /\ \A n \in Names : /\ WF_vars(CollectDeployment(n)) /\ WF_vars(CollectService(n))
                      /\ WF_vars(RollOut(n)) /\ WF_vars(BecomeAvailable(n))

FairSpec == Spec /\ Fairness

=============================================================================

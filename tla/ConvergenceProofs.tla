-------------------------- MODULE ConvergenceProofs --------------------------
(***************************************************************************)
(* Theorems about what the status of an InferenceService and its children  *)
(* have to do with each other:                                             *)
(*   StatusApplied   Configured=True describes the live children, or a     *)
(*                   reconcile is coming;                                  *)
(*   EveryGenerationObserved                                               *)
(*                   at rest, every status is of the current generation;   *)
(*   Converges       at rest, and if nobody contends for a claim, every    *)
(*                   status and child is what the live objects ask for;    *)
(*   Idempotent      under the same premise, a reconcile of a converged CR *)
(*                   writes nothing new.                                   *)
(***************************************************************************)
EXTENDS InferenceServiceProofs

-----------------------------------------------------------------------------
(* What a step of somebody else does to a CR and its children *)

\* A reconcile of n is on its way to the worker.
Pending(n) == n \in events.isvc \cup events.deployment \cup events.service \cup queue

\* The CR n and its children stay what they are; a hand-written Deployment, which
\* no event handler maps to a CR, may go.
Undisturbed(n) ==
  /\ isvc'[n] = isvc[n] /\ service'[n] = service[n]
  /\ \/ deployment'[n] = deployment[n]
     \/ deployment[n] # None /\ deployment[n].owner = None

\* The worker has what it had, but its copy may be outdated.
SameWork ==
  /\ worker'.pc = worker.pc /\ worker'.name = worker.name /\ worker'.isvc = worker.isvc
  /\ worker'.tenant = worker.tenant /\ worker'.model = worker.model
  /\ worker'.verdict = worker.verdict /\ worker'.available = worker.available
  /\ worker'.fresh => worker.fresh

LEMMA OutdateSameWork ==
  ASSUME TypeOK, NEW n, Outdate(n)
  PROVE  SameWork
<1>1. CASE worker.name # n
  BY <1>1 DEF Outdate, SameWork
<1>2. CASE worker = Idle /\ worker.name = n
  BY <1>2 DEF Outdate, SameWork, Idle
<1>3. CASE worker \in Busy /\ worker.name = n
  BY <1>3 DEF Outdate, SameWork, Busy
<1> QED
  BY <1>1, <1>2, <1>3 DEF TypeOK, WorkerTypeOK

\* Every change of a CR or of a child it controls is an event.
LEMMA ChangesAreEvents ==
  ASSUME TypeOK, User \/ Kubernetes
  PROVE  /\ \A n \in Names : Pending(n) => Pending(n)'
         /\ \A n \in Names : Pending(n)' \/ Undisturbed(n)
         /\ SameWork
<1>1. ASSUME NEW n \in Names,
             \/ \E spec \in Specs[n], second \in {clock, clock + 1} :
                  CreateInferenceService(n, spec, second)
             \/ \E spec \in Specs[n] : EditInferenceService(n, spec)
             \/ AnnotateInferenceService(n)
             \/ DeleteInferenceService(n)
      PROVE  /\ \A o \in Names : Pending(o) => Pending(o)'
             /\ \A o \in Names : Pending(o)' \/ Undisturbed(o)
             /\ SameWork
  <2>1. /\ events' = [events EXCEPT !.isvc = @ \cup {n}]
        /\ UNCHANGED <<deployment, service, queue>>
        /\ \A o \in Names \ {n} : isvc'[o] = isvc[o]
    BY <1>1 DEF TypeOK, IsvcTypeOK, CreateInferenceService, EditInferenceService,
                AnnotateInferenceService, DeleteInferenceService, childVars
  <2>2. SameWork
    <3>1. UNCHANGED worker => SameWork
      BY DEF SameWork
    <3> QED
      BY <1>1, <3>1, OutdateSameWork
         DEF CreateInferenceService, EditInferenceService, AnnotateInferenceService,
             DeleteInferenceService
  <2>3. \A o \in Names : (Pending(o)' <=> o = n \/ Pending(o))
    BY <2>1 DEF TypeOK, QueueTypeOK, Pending
  <2> QED
    BY <2>1, <2>2, <2>3 DEF Undisturbed
<1>2. ASSUME NEW n \in Names,
             \/ DriftDeployment(n) \/ CollectDeployment(n)
             \/ RollOut(n) \/ BecomeAvailable(n) \/ FailPod(n)
      PROVE  /\ \A o \in Names : Pending(o) => Pending(o)'
             /\ \A o \in Names : Pending(o)' \/ Undisturbed(o)
             /\ SameWork
  <2>1. /\ events' = [events EXCEPT !.deployment = @ \cup {n}]
        /\ UNCHANGED <<isvc, service, queue, worker>>
    BY <1>2 DEF DriftDeployment, CollectDeployment, RollOut, BecomeAvailable, FailPod
  <2>2. \A o \in Names \ {n} : deployment'[o] = deployment[o]
    BY <1>2 DEF TypeOK, ChildTypeOK, DeploymentNames, DriftDeployment, CollectDeployment,
                RollOut, BecomeAvailable, FailPod
  <2>3. \A o \in Names : (Pending(o)' <=> o = n \/ Pending(o))
    BY <2>1 DEF TypeOK, QueueTypeOK, Pending
  <2> QED
    BY <2>1, <2>2, <2>3 DEF Undisturbed, SameWork
<1>3. ASSUME NEW n \in Names, DriftService(n) \/ CollectService(n)
      PROVE  /\ \A o \in Names : Pending(o) => Pending(o)'
             /\ \A o \in Names : Pending(o)' \/ Undisturbed(o)
             /\ SameWork
  <2>1. /\ events' = [events EXCEPT !.service = @ \cup {n}]
        /\ UNCHANGED <<isvc, deployment, queue, worker>>
        /\ \A o \in Names \ {n} : service'[o] = service[o]
    BY <1>3 DEF TypeOK, ChildTypeOK, DriftService, CollectService
  <2>2. \A o \in Names : (Pending(o)' <=> o = n \/ Pending(o))
    BY <2>1 DEF TypeOK, QueueTypeOK, Pending
  <2> QED
    BY <2>1, <2>2 DEF Undisturbed, SameWork
<1>4. ASSUME \/ \E t \in TenantSpecs \cup {None} : ChangeTenant(t)
             \/ \E m \in Models, spec \in ModelSpecs \cup {None} : ChangeModel(m, spec)
             \/ \E c \in Claims : RetirePod(c)
      PROVE  /\ \A o \in Names : Pending(o) => Pending(o)'
             /\ \A o \in Names : Pending(o)' \/ Undisturbed(o)
             /\ SameWork
  <2>1. /\ UNCHANGED <<isvc, deployment, service, queue, worker>>
        /\ events'.isvc = events.isvc /\ events'.deployment = events.deployment
        /\ events'.service = events.service
    BY <1>4 DEF TypeOK, QueueTypeOK, ChangeTenant, ChangeModel, RetirePod, childVars
  <2> QED
    BY <2>1 DEF Pending, Undisturbed, SameWork
<1>5. ASSUME NEW d \in DeploymentNames, RetireDeployment(d)
      PROVE  /\ \A o \in Names : Pending(o) => Pending(o)'
             /\ \A o \in Names : Pending(o)' \/ Undisturbed(o)
             /\ SameWork
  <2>1. /\ UNCHANGED <<isvc, service, queue, worker, events>>
        /\ deployment[d] # None /\ deployment[d].owner = None
        /\ \A e \in DeploymentNames \ {d} : deployment'[e] = deployment[e]
    BY <1>5 DEF TypeOK, ChildTypeOK, RetireDeployment
  <2> QED
    BY <2>1 DEF Pending, Undisturbed, SameWork, DeploymentNames
<1> QED
  BY <1>1, <1>2, <1>3, <1>4, <1>5 DEF User, Kubernetes

\* An informer turns events into requests, and forgets none.
LEMMA InformKeepsPending ==
  ASSUME TypeOK, Inform
  PROVE  /\ \A n \in Names : Pending(n) => Pending(n)'
         /\ \A n \in Names : Undisturbed(n)
         /\ UNCHANGED worker
<1>1. UNCHANGED <<isvc, deployment, service, worker>>
  BY DEF Inform, InformIsvc, InformTenant, InformModel, InformDeployment, InformService,
         InformPod, childVars
<1>2. ASSUME NEW n \in Names, Pending(n) PROVE Pending(n)'
  <2> USE <1>2 DEF TypeOK, QueueTypeOK, Pending
  <2>1. CASE InformIsvc
    BY <2>1 DEF InformIsvc, ownRequests
  <2>2. CASE InformTenant
    BY <2>2 DEF InformTenant
  <2>3. CASE InformModel
    BY <2>3 DEF InformModel
  <2>4. CASE InformDeployment
    BY <2>4 DEF InformDeployment, ownersOfDeployments
  <2>5. CASE InformService
    BY <2>5 DEF InformService
  <2>6. CASE InformPod
    BY <2>6 DEF InformPod
  <2> QED
    BY <2>1, <2>2, <2>3, <2>4, <2>5, <2>6 DEF Inform
<1> QED
  BY <1>1, <1>2 DEF Undisturbed

-----------------------------------------------------------------------------
(***************************************************************************)
(* Configured=True.  ConfiguredIsApplied is not inductive: UpdateStatus    *)
(* writes what was applied one and two calls earlier.  The invariants      *)
(* DeploymentApplied and ServiceApplied say that until then the children   *)
(* are still the ones that were applied, or somebody's change of them is   *)
(* on its way to the worker.                                               *)
(***************************************************************************)
DeploymentApplied ==
  worker.pc = "applyService" \/ worker.verdict = "Configured" =>
    LET n == worker.name
    IN  \/ Pending(n)
        \/ /\ deployment[n] # None
           /\ IsControlledBy(deployment[n], worker.isvc.uid)
           /\ deployment[n].template =
                Deployment(worker.isvc.spec, worker.model, worker.tenant)

ServiceApplied ==
  worker.verdict = "Configured" =>
    Pending(worker.name) \/ service[worker.name] = worker.isvc.uid

AppliedInv == TypeInv /\ DeploymentApplied /\ ServiceApplied /\ ConfiguredIsApplied

\* What Deployment renders of the fields that a status speaks of.
LEMMA RenderedFields ==
  ASSUME NEW s, NEW m, NEW t
  PROVE  CarriedBy(Deployment(s, m, t)) =
           [initDataHash |-> InitDataHash(t.initData), image |-> t.defaultImage,
            servedName |-> ServedModelName(s.modelRef, m)]
BY DEF Deployment, engineArgs, CarriedBy

\* Somebody reconciles n soon, in terms of Pending.
LEMMA WakeupPending ==
  ASSUME NEW n
  PROVE  Wakeup(n) <=> Pending(n) \/ worker.name = n
BY DEF Wakeup, Pending

\* Idle has no verdict and no name.
LEMMA IdleWorker ==
  /\ Idle.pc = "idle" /\ Idle.verdict = "Unset" /\ Idle.name \notin Names
  /\ Idle.name = None
BY AbsentAssumption DEF Idle

\* A worker with a verdict of Configured is about to write it.
LEMMA ConfiguredWorker ==
  ASSUME TypeOK, worker.pc = "applyService" \/ worker.verdict = "Configured"
  PROVE  /\ worker \in Busy /\ worker # Idle /\ worker.name \in Names
         /\ worker.verdict = "Configured" => worker.pc = "updateStatus"
<1>1. worker # Idle
  BY DEF Idle
<1> QED
  BY <1>1 DEF TypeOK, WorkerTypeOK, Busy

LEMMA EnvironmentKeepsApplied ==
  ASSUME AppliedInv, User \/ Kubernetes \/ Inform
  PROVE  DeploymentApplied' /\ ServiceApplied' /\ ConfiguredIsApplied'
<1>1. /\ \A n \in Names : Pending(n) => Pending(n)'
      /\ \A n \in Names : Pending(n)' \/ Undisturbed(n)
      /\ SameWork
  BY ChangesAreEvents, InformKeepsPending DEF AppliedInv, TypeInv, SameWork
<1>2. DeploymentApplied' /\ ServiceApplied'
  <2>1. worker.pc = "applyService" \/ worker.verdict = "Configured" => worker.name \in Names
    BY ConfiguredWorker DEF AppliedInv, TypeInv
  <2>2. DeploymentApplied'
    BY <1>1, <2>1 DEF AppliedInv, DeploymentApplied, Undisturbed, SameWork, IsControlledBy
  <2>3. ServiceApplied'
    BY <1>1, <2>1 DEF AppliedInv, ServiceApplied, Undisturbed, SameWork
  <2> QED
    BY <2>2, <2>3
<1>3. ConfiguredIsApplied'
  <2> SUFFICES ASSUME NEW n \in Names, ~Wakeup(n)', isvc'[n] # None,
                      isvc'[n].status.configured = "Configured"
               PROVE  /\ deployment'[n] # None
                      /\ IsControlledBy(deployment'[n], isvc'[n].uid)
                      /\ RenderedOf(isvc'[n].spec, deployment'[n].template)
                      /\ isvc'[n].status.applied = CarriedBy(deployment'[n].template)
                      /\ service'[n] = isvc'[n].uid
    BY DEF ConfiguredIsApplied
  <2>1. ~Pending(n)' /\ ~Pending(n) /\ worker.name # n /\ ~Wakeup(n)
    BY <1>1, WakeupPending DEF SameWork, Wakeup, Pending
  <2>2. Undisturbed(n)
    BY <1>1, <2>1
  <2> QED
    BY <2>1, <2>2 DEF AppliedInv, ConfiguredIsApplied, Undisturbed, IsControlledBy
<1> QED
  BY <1>2, <1>3

\* A restart, or a call that fails: the request of every CR is in the queue.
LEMMA FailureKeepsApplied ==
  ASSUME AppliedInv, Restart \/ ApiError
  PROVE  DeploymentApplied' /\ ServiceApplied' /\ ConfiguredIsApplied'
<1>1. worker' = Idle /\ UNCHANGED <<isvc, deployment, service>>
  BY DEF Restart, ApiError, Requeue, childVars
<1>2. DeploymentApplied' /\ ServiceApplied'
  BY <1>1, IdleWorker DEF DeploymentApplied, ServiceApplied
<1>3. ASSUME NEW n \in Names, isvc[n] # None PROVE Wakeup(n) => Wakeup(n)'
  <2>1. CASE Restart
    BY <1>3, <2>1 DEF Restart, Wakeup
  <2>2. CASE ApiError
    BY <2>2 DEF ApiError, Requeue, Wakeup
  <2> QED
    BY <2>1, <2>2
<1>4. ConfiguredIsApplied'
  BY <1>1, <1>3 DEF AppliedInv, ConfiguredIsApplied, IsControlledBy
<1> QED
  BY <1>2, <1>4

\* A step that leaves the CRs alone, and loses no request.
LEMMA KeepsConfigured ==
  ASSUME ConfiguredIsApplied, UNCHANGED isvc,
         \A n \in Names : isvc[n] # None =>
           \/ Wakeup(n)'
           \/ ~Wakeup(n) /\ deployment'[n] = deployment[n] /\ service'[n] = service[n]
  PROVE  ConfiguredIsApplied'
BY DEF ConfiguredIsApplied, IsControlledBy

\* The worker takes a request from the queue and has it from then on, unless the
\* CR is gone, or it is new and the cache is about to hear of it.
LEMMA GetKeepsApplied ==
  ASSUME AppliedInv, NEW n \in Names, GetInferenceService(n)
  PROVE  DeploymentApplied' /\ ServiceApplied' /\ ConfiguredIsApplied'
<1>1. UNCHANGED <<isvc, deployment, service, events>> /\ queue' = queue \ {n}
  BY DEF GetInferenceService, childVars
<1>2. worker = Idle
  BY DEF AppliedInv, TypeInv, TypeOK, WorkerTypeOK, GetInferenceService, Busy, HasTenant
<1>3. worker'.pc # "applyService" /\ worker'.verdict # "Configured"
  BY DEF GetInferenceService, Idle
<1>4. DeploymentApplied' /\ ServiceApplied'
  BY <1>3 DEF DeploymentApplied, ServiceApplied
<1>5. ASSUME isvc[n] # None PROVE Wakeup(n)'
  <2>1. CASE SeenIsvc[n] = None
    <3>1. n \in events.isvc
      BY <1>5, <2>1 DEF AppliedInv, TypeInv, CacheFresh, SeenIsvc
    <3> QED
      BY <1>1, <3>1 DEF Wakeup
  <2>2. CASE SeenIsvc[n] # None
    <3>1. worker'.name = n
      BY <2>2 DEF GetInferenceService, Idle
    <3> QED
      BY <3>1 DEF Wakeup
  <2> QED
    BY <2>1, <2>2
<1>6. \A o \in Names \ {n} : Wakeup(o) => Wakeup(o)'
  BY <1>1, <1>2, IdleWorker DEF Wakeup
<1>7. ConfiguredIsApplied'
  BY <1>1, <1>5, <1>6, KeepsConfigured DEF AppliedInv
<1> QED
  BY <1>4, <1>7

\* Up to the ConfigMap the worker has applied nothing.
LEMMA BeforeApply ==
  ASSUME TypeOK,
         \/ GetTenant \/ GetModel \/ ListSiblings \/ ListDeployments \/ ListPods
         \/ ApplyConfigMap
  PROVE  /\ worker'.name = worker.name
         /\ worker'.pc # "applyService" /\ worker'.verdict # "Configured"
         /\ UNCHANGED <<isvc, deployment, service, events, queue>>
<1>1. worker # Idle
  BY DEF Idle, GetTenant, GetModel, ListSiblings, ListDeployments, ListPods, ApplyConfigMap
<1>2. worker \in Busy /\ (worker.pc # "updateStatus" => worker.verdict = "Unset")
  BY <1>1 DEF TypeOK, WorkerTypeOK
<1>3. UNCHANGED <<isvc, deployment, service, events, queue>>
  BY DEF GetTenant, GetModel, ListSiblings, ListDeployments, ListPods, ApplyConfigMap, childVars
<1>4. ASSUME NEW reason, reason # "Configured", Fail(reason)
      PROVE  /\ worker'.name = worker.name
             /\ worker'.pc # "applyService" /\ worker'.verdict # "Configured"
  BY <1>2, <1>4 DEF Fail, Busy
<1>5. CASE GetTenant
  BY <1>2, <1>3, <1>4, <1>5 DEF GetTenant, Busy
<1>6. CASE GetModel
  BY <1>2, <1>3, <1>4, <1>6 DEF GetModel, Busy
<1>7. CASE ListSiblings \/ ListDeployments \/ ListPods
  BY <1>2, <1>3, <1>4, <1>7 DEF ListSiblings, ListDeployments, ListPods, Busy
<1>8. CASE ApplyConfigMap
  BY <1>2, <1>3, <1>4, <1>8 DEF ApplyConfigMap, Busy
<1> QED
  BY <1>5, <1>6, <1>7, <1>8

LEMMA BeforeApplyKeepsApplied ==
  ASSUME AppliedInv,
         \/ GetTenant \/ GetModel \/ ListSiblings \/ ListDeployments \/ ListPods
         \/ ApplyConfigMap
  PROVE  DeploymentApplied' /\ ServiceApplied' /\ ConfiguredIsApplied'
<1>1. /\ worker'.name = worker.name
      /\ worker'.pc # "applyService" /\ worker'.verdict # "Configured"
      /\ UNCHANGED <<isvc, deployment, service, events, queue>>
  BY BeforeApply DEF AppliedInv, TypeInv
<1>2. \A n \in Names : Wakeup(n)' <=> Wakeup(n)
  BY <1>1 DEF Wakeup
<1>3. ConfiguredIsApplied'
  BY <1>1, <1>2, KeepsConfigured DEF AppliedInv
<1> QED
  BY <1>1, <1>3 DEF DeploymentApplied, ServiceApplied

\* An error return: the request goes back to the queue.
LEMMA RequeueKeepsApplied ==
  ASSUME AppliedInv, Requeue, UNCHANGED <<isvc, deployment, service, events>>
  PROVE  DeploymentApplied' /\ ServiceApplied' /\ ConfiguredIsApplied'
<1>1. \A n \in Names : Wakeup(n) => Wakeup(n)'
  BY DEF Requeue, Wakeup
<1>2. ConfiguredIsApplied'
  BY <1>1, KeepsConfigured DEF AppliedInv
<1> QED
  BY <1>2, IdleWorker DEF Requeue, DeploymentApplied, ServiceApplied

\* The apply makes the Deployment what DeploymentApplied says.
LEMMA ApplyDeploymentKeepsApplied ==
  ASSUME AppliedInv, ApplyDeployment
  PROVE  DeploymentApplied' /\ ServiceApplied' /\ ConfiguredIsApplied'
<1> DEFINE n == worker.name
           old == deployment[n]
<1>1. TypeOK /\ worker.pc \in HasModel
  BY DEF AppliedInv, TypeInv, ApplyDeployment, HasModel, HasTenant
<1>2. /\ n \in Names /\ n \in DeploymentNames /\ old \in Deployments \cup {None}
      /\ worker \in Busy /\ worker.verdict = "Unset"
  BY <1>1, ApplyingWorker DEF TypeOK, ChildTypeOK, DeploymentNames
<1>3. PICK new : new = Applied(old)
  OBVIOUS
<1>4. /\ deployment' = [deployment EXCEPT ![n] = new]
      /\ worker' = [worker EXCEPT !.pc = "applyService", !.available = new.available]
      /\ UNCHANGED <<isvc, service, queue>>
      /\ events' = events \/ events' = [events EXCEPT !.deployment = @ \cup {n}]
  BY <1>3 DEF ApplyDeployment
<1>5. /\ new \in Deployments /\ new.owner = worker.isvc.uid
      /\ new.template = Deployment(worker.isvc.spec, worker.model, worker.tenant)
  BY <1>1, <1>2, <1>3, AppliedType
<1>6. /\ worker'.pc = "applyService" /\ worker'.name = n /\ worker'.isvc = worker.isvc
      /\ worker'.model = worker.model /\ worker'.tenant = worker.tenant
      /\ worker'.verdict = "Unset"
  BY <1>2, <1>4 DEF Busy
<1>7. deployment'[n] = new /\ \A o \in Names \ {n} : deployment'[o] = deployment[o]
  BY <1>1, <1>2, <1>4 DEF TypeOK, ChildTypeOK, DeploymentNames
<1>8. worker.isvc.uid \in Uids /\ worker.isvc.uid.name = n
  BY <1>1, ApplyingWorker DEF Isvcs
<1>9. \A o \in Names : Pending(o) => Pending(o)'
  BY <1>1, <1>4 DEF TypeOK, QueueTypeOK, Pending
<1>10. \A o \in Names : Wakeup(o) => Wakeup(o)'
  BY <1>6, <1>9 DEF Wakeup, Pending
<1>11. Wakeup(n)'
  BY <1>6 DEF Wakeup
<1>12. ConfiguredIsApplied'
  BY <1>4, <1>7, <1>10, <1>11, KeepsConfigured DEF AppliedInv
<1>13. DeploymentApplied'
  BY <1>5, <1>6, <1>7, <1>8, NoneAssumption DEF DeploymentApplied, IsControlledBy
<1> QED
  BY <1>6, <1>12, <1>13 DEF ServiceApplied

\* The Service comes second; the Deployment is still as it was applied, or an
\* event of it is on its way.
LEMMA ApplyServiceKeepsApplied ==
  ASSUME AppliedInv, ApplyService
  PROVE  DeploymentApplied' /\ ServiceApplied' /\ ConfiguredIsApplied'
<1> DEFINE n == worker.name
<1>1. TypeOK /\ worker.pc \in HasModel
  BY DEF AppliedInv, TypeInv, ApplyService, HasModel, HasTenant
<1>2. n \in Names /\ worker \in Busy
  BY <1>1, ApplyingWorker
<1>3. CASE n \in Unservable
  BY <1>3, RequeueKeepsApplied DEF ApplyService
<1>4. CASE n \notin Unservable
  <2>1. /\ service' = [service EXCEPT ![n] = worker.isvc.uid]
        /\ worker' = [worker EXCEPT !.pc = "updateStatus", !.verdict = "Configured"]
        /\ UNCHANGED <<isvc, deployment, queue>>
        /\ events' = events \/ events' = [events EXCEPT !.service = @ \cup {n}]
    BY <1>4 DEF ApplyService
  <2>2. /\ worker'.name = n /\ worker'.isvc = worker.isvc
        /\ worker'.model = worker.model /\ worker'.tenant = worker.tenant
    BY <1>2, <2>1 DEF Busy
  <2>3. service'[n] = worker.isvc.uid /\ \A o \in Names \ {n} : service'[o] = service[o]
    BY <1>1, <1>2, <2>1 DEF TypeOK, ChildTypeOK
  <2>4. \A o \in Names : Pending(o) => Pending(o)'
    BY <1>1, <2>1 DEF TypeOK, QueueTypeOK, Pending
  <2>5. Wakeup(n)' /\ \A o \in Names : Wakeup(o) => Wakeup(o)'
    BY <2>2, <2>4 DEF Wakeup, Pending
  <2>6. ConfiguredIsApplied'
    BY <2>1, <2>3, <2>5, KeepsConfigured DEF AppliedInv
  <2>7. ServiceApplied'
    BY <2>2, <2>3 DEF ServiceApplied
  <2>8. DeploymentApplied'
    BY <1>2, <2>1, <2>2, <2>4
       DEF AppliedInv, DeploymentApplied, ApplyService, IsControlledBy
  <2> QED
    BY <2>6, <2>7, <2>8
<1> QED
  BY <1>3, <1>4

\* The status is written over the CR that was read (CopyFresh), and describes the
\* children as they were applied (DeploymentApplied, ServiceApplied).
LEMMA UpdateStatusKeepsApplied ==
  ASSUME AppliedInv, UpdateStatus
  PROVE  DeploymentApplied' /\ ServiceApplied' /\ ConfiguredIsApplied'
<1> DEFINE new == NewStatus(worker)
<1>0. PICK n : n = worker.name
  OBVIOUS
<1>1. TypeOK /\ worker \in Busy /\ worker # Idle /\ n \in Names /\ new \in Status
  BY <1>0, NewStatusType DEF AppliedInv, TypeInv, UpdateStatus, Busy
<1>2. CASE ~worker.fresh
  BY <1>2, RequeueKeepsApplied DEF UpdateStatus, childVars
<1>3. CASE worker.fresh
  <2>1. /\ isvc' = [isvc EXCEPT ![n].status = new]
        /\ worker' = Idle /\ UNCHANGED <<deployment, service, queue>>
        /\ events' = events \/ events' = [events EXCEPT !.isvc = @ \cup {n}]
    BY <1>0, <1>3 DEF UpdateStatus, childVars
  <2>2. isvc[n] = worker.isvc /\ worker.isvc \in Isvcs
    BY <1>0, <1>1, <1>3 DEF AppliedInv, TypeInv, CopyFresh, Busy
  <2>3. isvc'[n] = [isvc[n] EXCEPT !.status = new] /\ \A o \in Names \ {n} : isvc'[o] = isvc[o]
    BY <1>1, <2>1 DEF TypeOK, IsvcTypeOK
  <2>4. \A o \in Names : Pending(o) => Pending(o)'
    BY <1>1, <2>1 DEF TypeOK, QueueTypeOK, Pending
  <2>5. \A o \in Names \ {n} : Wakeup(o) => Wakeup(o)'
    BY <1>0, <2>4 DEF Wakeup, Pending
  <2>6. /\ isvc'[n].status = new /\ isvc'[n].uid = worker.isvc.uid
        /\ isvc'[n].spec = worker.isvc.spec
    BY <2>2, <2>3 DEF Isvcs
  <2>7. CASE worker.verdict # "Configured"
    <3>1. new.configured # "Configured"
      BY <1>1, <2>2, <2>7 DEF NewStatus, FailedStatus, Isvcs, Status
    <3> HIDE DEF new
    <3>2. ConfiguredIsApplied'
      BY <2>1, <2>3, <2>5, <2>6, <3>1 DEF AppliedInv, ConfiguredIsApplied, IsControlledBy
    <3> QED
      BY <2>1, <3>2, IdleWorker DEF DeploymentApplied, ServiceApplied
  <2>8. CASE worker.verdict = "Configured"
    <3>1. new.applied = [initDataHash |-> InitDataHash(worker.tenant.initData),
                         image        |-> worker.tenant.defaultImage,
                         servedName   |-> ServedModelName(worker.isvc.spec.modelRef, worker.model)]
      BY <2>8 DEF NewStatus, ReadyStatus
    <3>2. ASSUME ~Wakeup(n)'
          PROVE  /\ deployment'[n] # None
                 /\ IsControlledBy(deployment'[n], isvc'[n].uid)
                 /\ RenderedOf(isvc'[n].spec, deployment'[n].template)
                 /\ isvc'[n].status.applied = CarriedBy(deployment'[n].template)
                 /\ service'[n] = isvc'[n].uid
      <4>1. ~Pending(n)
        BY <1>1, <2>4, <3>2 DEF Wakeup, Pending
      <4>2. /\ deployment[n] # None
            /\ IsControlledBy(deployment[n], worker.isvc.uid)
            /\ deployment[n].template =
                 Deployment(worker.isvc.spec, worker.model, worker.tenant)
            /\ service[n] = worker.isvc.uid
        BY <1>0, <2>8, <4>1 DEF AppliedInv, DeploymentApplied, ServiceApplied
      <4> HIDE DEF new
      <4>3. RenderedOf(worker.isvc.spec, deployment[n].template)
        <5>1. /\ worker.tenant \in TenantSpecs /\ worker.model \in ModelSpecs
              /\ worker.model.source # None
          BY <1>1, <2>8 DEF TypeOK, WorkerTypeOK, Busy
        <5> QED
          BY <4>2, <5>1 DEF RenderedOf
      <4>4. CarriedBy(deployment[n].template) = new.applied
        BY <3>1, <4>2, RenderedFields
      <4> QED
        BY <2>1, <2>6, <4>2, <4>3, <4>4
    <3> HIDE DEF new
    <3>3. ConfiguredIsApplied'
      <4> SUFFICES ASSUME NEW o \in Names, ~Wakeup(o)', isvc'[o] # None,
                          isvc'[o].status.configured = "Configured"
                   PROVE  /\ deployment'[o] # None
                          /\ IsControlledBy(deployment'[o], isvc'[o].uid)
                          /\ RenderedOf(isvc'[o].spec, deployment'[o].template)
                          /\ isvc'[o].status.applied = CarriedBy(deployment'[o].template)
                          /\ service'[o] = isvc'[o].uid
        BY DEF ConfiguredIsApplied
      <4>1. CASE o = n
        BY <3>2, <4>1
      <4>2. CASE o # n
        BY <2>1, <2>3, <2>5, <4>2 DEF AppliedInv, ConfiguredIsApplied
      <4> QED
        BY <4>1, <4>2
    <3> QED
      BY <2>1, <3>3, IdleWorker DEF DeploymentApplied, ServiceApplied
  <2> QED
    BY <2>7, <2>8
<1> QED
  BY <1>2, <1>3

LEMMA AppliedInvStep ==
  ASSUME AppliedInv, [Next]_vars
  PROVE  AppliedInv'
<1>1. TypeInv'
  BY TypeInvStep DEF AppliedInv
<1>2. CASE Reconcile
  BY <1>1, <1>2, GetKeepsApplied, BeforeApplyKeepsApplied, ApplyDeploymentKeepsApplied,
     ApplyServiceKeepsApplied, UpdateStatusKeepsApplied DEF Reconcile, AppliedInv
<1>3. CASE User \/ Kubernetes \/ Inform
  BY <1>1, <1>3, EnvironmentKeepsApplied DEF AppliedInv
<1>4. CASE Restart \/ ApiError
  BY <1>1, <1>4, FailureKeepsApplied DEF AppliedInv
<1>5. CASE UNCHANGED vars
  <2>1. DeploymentApplied'
    BY <1>5 DEF vars, AppliedInv, DeploymentApplied, Pending, IsControlledBy
  <2>2. ServiceApplied'
    BY <1>5 DEF vars, AppliedInv, ServiceApplied, Pending
  <2>3. ConfiguredIsApplied'
    BY <1>5 DEF vars, AppliedInv, ConfiguredIsApplied, Wakeup, IsControlledBy
  <2> QED
    BY <1>1, <2>1, <2>2, <2>3 DEF AppliedInv
<1> QED
  BY <1>2, <1>3, <1>4, <1>5 DEF Next

LEMMA InitAppliedInv == Init => AppliedInv
<1> SUFFICES ASSUME Init PROVE AppliedInv
  OBVIOUS
<1>1. TypeInv
  BY InitTypeOK DEF Init, TypeInv, CacheFresh, CopyFresh
<1>2. DeploymentApplied /\ ServiceApplied
  BY IdleWorker DEF Init, DeploymentApplied, ServiceApplied
<1> QED
  BY <1>1, <1>2 DEF Init, AppliedInv, ConfiguredIsApplied

(***************************************************************************)
(* Configured=True is honest, whatever the lag of the informers, the       *)
(* number of CRs and the order of edits, deletions, restarts and failed    *)
(* calls: the live Deployment and Service are this CR's and carry what the *)
(* status and the spec say, or a reconcile of the CR is coming.            *)
(***************************************************************************)
THEOREM StatusApplied == Spec => []ConfiguredIsApplied
<1>1. AppliedInv => ConfiguredIsApplied
  BY DEF AppliedInv
<1> QED
  BY <1>1, InitAppliedInv, AppliedInvStep, PTL DEF Spec

-----------------------------------------------------------------------------
(***************************************************************************)
(* No generation is forgotten, contended claims or not: a CR whose status  *)
(* is of an earlier generation is being reconciled, or has a request or an *)
(* event to come.                                                          *)
(***************************************************************************)
ObservedSoon ==
  \A n \in Names : isvc[n] # None =>
    isvc[n].status.observed = isvc[n].generation \/ Wakeup(n)

LEMMA KeepsObserved ==
  ASSUME ObservedSoon, UNCHANGED isvc,
         \A n \in Names : isvc[n] # None /\ Wakeup(n) => Wakeup(n)'
  PROVE  ObservedSoon'
BY DEF ObservedSoon

LEMMA ReconcileKeepsObserved ==
  ASSUME TypeInv, ObservedSoon, Reconcile
  PROVE  ObservedSoon'
<1> USE DEF TypeInv
<1>1. ASSUME NEW n \in Names, GetInferenceService(n) PROVE ObservedSoon'
  <2>1. UNCHANGED <<isvc, events>> /\ queue' = queue \ {n}
    BY <1>1 DEF GetInferenceService
  <2>2. worker = Idle
    BY <1>1 DEF TypeOK, WorkerTypeOK, GetInferenceService, Busy, HasTenant
  <2>3. isvc[n] # None => n \in events.isvc \/ worker'.name = n
    <3>1. CASE SeenIsvc[n] = None
      BY <3>1 DEF CacheFresh, SeenIsvc
    <3>2. CASE SeenIsvc[n] # None
      BY <1>1, <3>2 DEF GetInferenceService, Idle
    <3> QED
      BY <3>1, <3>2
  <2> QED
    BY <2>1, <2>2, <2>3, IdleWorker, KeepsObserved DEF Wakeup
<1>2. ASSUME \/ GetTenant \/ GetModel \/ ListSiblings \/ ListDeployments \/ ListPods
             \/ ApplyConfigMap
      PROVE  ObservedSoon'
  BY <1>2, BeforeApply, KeepsObserved DEF Wakeup
<1>3. ASSUME ApplyDeployment \/ ApplyService PROVE ObservedSoon'
  <2>1. UNCHANGED isvc /\ (worker' # Idle => worker'.name = worker.name)
    BY <1>3, CopyKept
  <2>2. \A n \in Names : Pending(n) => Pending(n)'
    BY <1>3 DEF TypeOK, QueueTypeOK, Pending, Requeue, ApplyDeployment, ApplyService
  <2>3. \A n \in Names : worker.name = n => worker'.name = n \/ n \in queue'
    <3>1. worker # Idle /\ worker \in Busy
      BY <1>3, CopyKept DEF TypeOK, WorkerTypeOK
    <3> QED
      BY <1>3, <3>1 DEF ApplyDeployment, ApplyService, Requeue, Busy
  <2> QED
    BY <2>1, <2>2, <2>3, KeepsObserved DEF Wakeup, Pending
<1>4. CASE UpdateStatus
  <2>1. PICK n : n = worker.name
    OBVIOUS
  <2>2. worker \in Busy /\ worker # Idle /\ n \in Names
    BY <1>4, <2>1, NewStatusType DEF UpdateStatus, Busy
  <2>3. CASE ~worker.fresh
    BY <1>4, <2>3, KeepsObserved DEF UpdateStatus, Requeue, Wakeup
  <2>4. CASE worker.fresh
    <3> DEFINE new == NewStatus(worker)
    <3>1. /\ isvc' = [isvc EXCEPT ![n].status = new] /\ UNCHANGED queue
          /\ events' = events \/ events' = [events EXCEPT !.isvc = @ \cup {n}]
      BY <1>4, <2>1, <2>4 DEF UpdateStatus
    <3>2. isvc[n] = worker.isvc /\ worker.isvc \in Isvcs
      BY <2>1, <2>2, <2>4 DEF CopyFresh, Busy
    <3>3. isvc'[n] = [isvc[n] EXCEPT !.status = new] /\ \A o \in Names \ {n} : isvc'[o] = isvc[o]
      BY <2>2, <3>1 DEF TypeOK, IsvcTypeOK
    <3>4. new.observed = worker.isvc.generation
      BY <3>2 DEF NewStatus, ReadyStatus, FailedStatus, Isvcs, Status
    <3> HIDE DEF new
    <3>5. isvc'[n].status.observed = isvc'[n].generation
      BY <3>2, <3>3, <3>4 DEF Isvcs
    <3>6. \A o \in Names \ {n} : Wakeup(o) => Wakeup(o)'
      BY <2>1, <3>1 DEF TypeOK, QueueTypeOK, Wakeup
    <3> QED
      BY <3>3, <3>5, <3>6 DEF ObservedSoon
  <2> QED
    BY <2>3, <2>4
<1> QED
  BY <1>1, <1>2, <1>3, <1>4 DEF Reconcile

LEMMA ObservedSoonStep ==
  ASSUME TypeInv, ObservedSoon, [Next]_vars
  PROVE  ObservedSoon'
<1>1. CASE User \/ Kubernetes \/ Inform
  <2>1. /\ \A n \in Names : Pending(n) => Pending(n)'
        /\ \A n \in Names : Pending(n)' \/ Undisturbed(n)
        /\ worker'.name = worker.name
    BY <1>1, ChangesAreEvents, InformKeepsPending DEF TypeInv, SameWork
  <2> QED
    BY <2>1 DEF ObservedSoon, Wakeup, Pending, Undisturbed
<1>2. CASE Restart
  BY <1>2, KeepsObserved DEF Restart, Wakeup
<1>3. CASE ApiError
  BY <1>3, KeepsObserved DEF ApiError, Requeue, Wakeup
<1>4. CASE UNCHANGED vars
  BY <1>4, KeepsObserved DEF vars, Wakeup
<1> QED
  BY <1>1, <1>2, <1>3, <1>4, ReconcileKeepsObserved DEF Next

\* Whatever the contention for claims, the lag of the informers and the failures:
\* at rest, the status of every CR is of its current generation.
THEOREM EveryGenerationObserved == Spec => []GenerationObservedAtRest
<1>1. Init => ObservedSoon
  BY DEF Init, ObservedSoon
<1>2. TypeInv /\ ObservedSoon /\ [Next]_vars => ObservedSoon'
  BY ObservedSoonStep
<1>3. ObservedSoon => GenerationObservedAtRest
  BY IdleWorker DEF ObservedSoon, GenerationObservedAtRest, AtRest, NoEvents, Wakeup
<1> QED
  BY <1>1, <1>2, <1>3, TypeInvInvariant, PTL DEF Spec

-----------------------------------------------------------------------------
(***************************************************************************)
(* Convergence.  ConvergedAtRest is about states in which nothing is on    *)
(* its way.  The inductive invariant is about all states: a CR that is not *)
(* converged is being reconciled, or a request for it is queued, or an     *)
(* event that makes one is on its way.                                     *)
(*                                                                         *)
(* It holds where nobody contends for a claim.  With contention it does    *)
(* not: nothing watches what a refusal depends on (runs contested, nudge). *)
(***************************************************************************)
Uncontended ==
  /\ HandWrittenNames = {} /\ "retire" \notin Ops
  /\ \A n, o \in Names : n # o =>
       \A s \in Specs[n], t \in Specs[o] : s.claim = t.claim => s.localVolume /\ t.localVolume

\* An event or a request that leads to a reconcile of n.
Soon(n) == Pending(n) \/ events.tenant \/ isvc[n].spec.modelRef \in events.model

Foreign(i, d) ==
  d # None /\ ~IsControlledBy(d, i.uid) /\ podSpecMountsClaim(d.template, i.spec.claim)

\* What Verdict comes to when nobody else can hold the claim of i.
Judgement(i, m, t, d) ==
  CASE t = None -> "TenantConfigMissing"
    [] t # None /\ Invalid(i.spec, m) # "Configured" -> Invalid(i.spec, m)
    [] t # None /\ Invalid(i.spec, m) = "Configured" /\ Foreign(i, d) -> "TrustedStoreConflict"
    [] OTHER -> IF renderError(m, t) THEN "InvalidConfig" ELSE "Configured"

\* Everything bears the specs of its own name.
SpecsOwn(all) == \A n \in Names : all[n] # None => all[n].spec \in Specs[n]

MountsOwn(all) ==
  \A n \in Names : all[n] # None =>
    /\ all[n].owner # None
    /\ \E s \in Specs[n] : /\ ~s.localVolume
                           /\ \A v \in all[n].template.volumes :
                                v.source = "claim" => v.ref = s.claim

Apart ==
  /\ pods = {} /\ cache.pod = {}
  /\ SpecsOwn(isvc) /\ SpecsOwn(cache.isvc)
  /\ worker # Idle => worker.isvc.spec \in Specs[worker.name]
  /\ MountsOwn(deployment) /\ MountsOwn(cache.deployment)

\* The caches of what a render reads have the live objects, or an event is coming.
InputFresh ==
  /\ "tenant" \in Lag /\ ~events.tenant => cache.tenant = tenant
  /\ "model" \in Lag => \A m \in Models \ events.model : cache.model[m] = model[m]
  /\ "deployment" \in Lag =>
       \A n \in Names \ events.deployment : cache.deployment[n] = deployment[n]

\* What Reconcile has checked, it has checked; the shared ConfigMap stays.
Checked ==
  /\ worker.pc \in HasModel \/ worker.verdict = "Configured"
       => Invalid(worker.isvc.spec, worker.model) = "Configured"
  /\ worker.pc \in {"applyDeployment", "applyService"} \/ worker.verdict = "Configured"
       => /\ ~renderError(worker.model, worker.tenant)
          /\ worker.isvc.spec.weightsCache => configMap

\* What Reconcile has read is still what is there.
ReadLive ==
  LET n == worker.name
      i == worker.isvc
      m == model[i.spec.modelRef]
  IN  /\ worker.pc \in HasTenant \/ worker.verdict = "Configured" => worker.tenant = tenant
      /\ worker.pc \in HasModel \/ worker.verdict = "Configured" => worker.model = m
      /\ worker.pc \in Guarded => ~Foreign(i, deployment[n])
      /\ worker.pc = "applyService" \/ worker.verdict = "Configured" =>
           worker.available = deployment[n].available
      /\ worker.verdict # "Unset" => worker.verdict = Judgement(i, m, tenant, deployment[n])

Progress == worker # Idle /\ worker.fresh => Soon(worker.name) \/ ReadLive

\* Converged, with Judgement for Verdict, as a relation of the CR and what it is
\* derived from and into.
SettledOn(i, m, t, d, svc, gai) ==
  /\ i.status.observed = i.generation
  /\ i.status.configured = Judgement(i, m, t, d)
  /\ Judgement(i, m, t, d) = "Configured" =>
       /\ d # None
       /\ IsControlledBy(d, i.uid)
       /\ d.template = Deployment(i.spec, m, t)
       /\ svc = i.uid
       /\ i.spec.weightsCache => gai
       /\ i.status = ReadyStatus(i, m, t, d.available)

Settled(n) == SettledOn(isvc[n], model[isvc[n].spec.modelRef], tenant, deployment[n],
                        service[n], configMap)

ConvergedSoon ==
  \A n \in Names : isvc[n] # None => worker.name = n \/ Soon(n) \/ Settled(n)

ConvergedInv ==
  /\ AppliedInv /\ Apart /\ InputFresh /\ Checked /\ Progress /\ ConvergedSoon

-----------------------------------------------------------------------------
(* Nobody else can hold the claim of a CR *)

LEMMA NobodyElse ==
  ASSUME Uncontended, NEW n \in Names, NEW i, i.spec \in Specs[n], ~i.spec.localVolume
  PROVE  /\ \A all : SpecsOwn(all) => ~SiblingConflict(n, i, all)
         /\ \A all : MountsOwn(all) => (DeploymentConflict(i, all) <=> Foreign(i, all[n]))
<1>1. ASSUME NEW all, SpecsOwn(all) PROVE ~SiblingConflict(n, i, all)
  BY <1>1 DEF Uncontended, SpecsOwn, SiblingConflict
<1>2. ASSUME NEW all, MountsOwn(all), NEW d \in Names \ {n}, all[d] # None
      PROVE  ~podSpecMountsClaim(all[d].template, i.spec.claim)
  BY <1>2 DEF Uncontended, MountsOwn, podSpecMountsClaim
<1>3. DeploymentNames = Names
  BY DEF Uncontended, DeploymentNames
<1> QED
  BY <1>1, <1>2, <1>3 DEF DeploymentConflict, Foreign

LEMMA ValidSpec ==
  ASSUME NEW s, NEW m, Invalid(s, m) = "Configured"
  PROVE  ~s.localVolume
BY DEF Invalid

LEMMA VerdictIsJudgement ==
  ASSUME Uncontended, Apart, NEW n \in Names, isvc[n] # None
  PROVE  Verdict(n) = Judgement(isvc[n], model[isvc[n].spec.modelRef], tenant, deployment[n])
<1> DEFINE i == isvc[n]
           m == model[i.spec.modelRef]
<1>1. CASE Invalid(i.spec, m) # "Configured"
  BY <1>1 DEF Verdict, Judgement
<1>2. CASE Invalid(i.spec, m) = "Configured"
  <2>1. /\ ~SiblingConflict(n, i, isvc) /\ i.spec.claim \notin pods
        /\ DeploymentConflict(i, deployment) <=> Foreign(i, deployment[n])
    BY <1>2, ValidSpec, NobodyElse DEF Apart, SpecsOwn
  <2> QED
    BY <1>2, <2>1 DEF Verdict, Judgement
<1> QED
  BY <1>1, <1>2

\* What the invariant says of a state at rest.
LEMMA RestIsConverged ==
  ASSUME Uncontended, ConvergedInv
  PROVE  ConvergedAtRest
<1> SUFFICES ASSUME AtRest, NEW n \in Names, isvc[n] # None
             PROVE  Converged(n)
  BY DEF ConvergedAtRest, Converged
<1>1. worker.name # n
  BY IdleWorker DEF AtRest
<1>2. ~Soon(n)
  BY DEF AtRest, NoEvents, Soon, Pending
<1>3. Settled(n)
  BY <1>1, <1>2 DEF ConvergedInv, ConvergedSoon
<1>4. Verdict(n) = Judgement(isvc[n], model[isvc[n].spec.modelRef], tenant, deployment[n])
  BY VerdictIsJudgement DEF ConvergedInv
<1> QED
  BY <1>3, <1>4 DEF Settled, SettledOn, Converged

-----------------------------------------------------------------------------
(* What the environment does to it *)

\* A step leaves alone what n is derived from and into.
Same(n) ==
  /\ isvc'[n] = isvc[n] /\ tenant' = tenant
  /\ model'[isvc[n].spec.modelRef] = model[isvc[n].spec.modelRef]
  /\ deployment'[n] = deployment[n] /\ service'[n] = service[n]
  /\ configMap => configMap'

\* A step that changes anything n depends on leads to a reconcile of n, and no step
\* loses one.
Alerted(n) == isvc'[n] # None => Soon(n)' \/ (Same(n) /\ ~Soon(n))

LEMMA SettledFrame ==
  ASSUME NEW n, Settled(n), Same(n)
  PROVE  Settled(n)'
BY DEF Settled, SettledOn, Same

LEMMA InputChangesAreEvents ==
  ASSUME TypeOK, User \/ Kubernetes
  PROVE  /\ events.tenant => events'.tenant
         /\ events.model \subseteq events'.model
         /\ UNCHANGED tenant \/ events'.tenant
         /\ UNCHANGED tenant => events'.tenant = events.tenant
         /\ \A m \in Models : model'[m] = model[m] \/ m \in events'.model
         /\ UNCHANGED <<configMap, cache>>
<1>1. ASSUME NEW t \in TenantSpecs \cup {None}, ChangeTenant(t)
      PROVE  /\ events'.tenant /\ events'.model = events.model /\ tenant' # tenant
             /\ UNCHANGED <<model, configMap, cache>>
  BY <1>1 DEF TypeOK, QueueTypeOK, ChangeTenant, childVars
<1>2. ASSUME NEW m \in Models, NEW spec \in ModelSpecs \cup {None}, ChangeModel(m, spec)
      PROVE  /\ events'.tenant = events.tenant /\ events'.model = events.model \cup {m}
             /\ UNCHANGED <<tenant, configMap, cache>>
             /\ \A o \in Models \ {m} : model'[o] = model[o]
  BY <1>2 DEF TypeOK, InputTypeOK, QueueTypeOK, ChangeModel, childVars
<1>3. ASSUME \/ \E n \in Names :
                  \/ \E spec \in Specs[n], second \in {clock, clock + 1} :
                       CreateInferenceService(n, spec, second)
                  \/ \E spec \in Specs[n] : EditInferenceService(n, spec)
                  \/ AnnotateInferenceService(n)
                  \/ DeleteInferenceService(n)
                  \/ DriftDeployment(n) \/ DriftService(n)
             \/ \E d \in DeploymentNames : RetireDeployment(d)
             \/ \E c \in Claims : RetirePod(c)
             \/ Kubernetes
      PROVE  /\ events'.tenant = events.tenant /\ events'.model = events.model
             /\ UNCHANGED <<tenant, model, configMap, cache>>
  <2>1. UNCHANGED <<tenant, model, configMap, cache>>
    BY <1>3 DEF CreateInferenceService, EditInferenceService, AnnotateInferenceService,
       DeleteInferenceService, DriftDeployment, DriftService, RetireDeployment, RetirePod,
       Kubernetes, CollectDeployment, CollectService, RollOut, BecomeAvailable, FailPod,
       childVars, inputVars
  <2>2. \/ UNCHANGED events
        \/ \E n \in Names : \/ events' = [events EXCEPT !.isvc = @ \cup {n}]
                            \/ events' = [events EXCEPT !.deployment = @ \cup {n}]
                            \/ events' = [events EXCEPT !.service = @ \cup {n}]
    BY <1>3 DEF CreateInferenceService, EditInferenceService, AnnotateInferenceService,
       DeleteInferenceService, DriftDeployment, DriftService, RetireDeployment, RetirePod,
       Kubernetes, CollectDeployment, CollectService, RollOut, BecomeAvailable, FailPod
  <2> QED
    BY <2>1, <2>2 DEF TypeOK, QueueTypeOK
<1> QED
  BY <1>1, <1>2, <1>3 DEF User

\* The specs of live CRs name models.
LEMMA RefType ==
  ASSUME TypeOK, NEW n \in Names, isvc[n] # None
  PROVE  isvc[n].spec.modelRef \in Models
BY ModelRefAssumption DEF TypeOK, IsvcTypeOK, Isvcs, AllSpecs

LEMMA ChangesAlert ==
  ASSUME TypeOK, Apart, User \/ Kubernetes, NEW n \in Names
  PROVE  Alerted(n)
<1> SUFFICES ASSUME isvc'[n] # None, ~Soon(n)' PROVE Same(n) /\ ~Soon(n)
  BY DEF Alerted
<1>1. ~Pending(n)' /\ ~events'.tenant /\ isvc'[n].spec.modelRef \notin events'.model
  BY DEF Soon
<1>2. ~Pending(n) /\ isvc'[n] = isvc[n] /\ service'[n] = service[n]
  BY <1>1, ChangesAreEvents DEF Undisturbed
<1>3. deployment'[n] = deployment[n]
  BY <1>1, ChangesAreEvents DEF Undisturbed, Apart, MountsOwn
<1>4. isvc[n].spec.modelRef \in Models
  BY <1>2, RefType
<1> QED
  BY <1>1, <1>2, <1>3, <1>4, InputChangesAreEvents DEF Same, Soon

\* The handlers of the tenant and of the models enqueue the CRs of the cache; a CR
\* that is not in it yet, or was another one, has an event of its own.
LEMMA InformAlerts ==
  ASSUME TypeInv, Inform, NEW n \in Names
  PROVE  Alerted(n)
<1> SUFFICES ASSUME isvc'[n] # None PROVE Soon(n)' \/ (Same(n) /\ ~Soon(n))
  BY DEF Alerted
<1> USE DEF TypeInv
<1>1. UNCHANGED <<isvc, tenant, model, deployment, service, configMap>>
  BY DEF Inform, InformIsvc, InformTenant, InformModel, InformDeployment, InformService,
         InformPod, childVars, inputVars
<1>2. Pending(n) => Pending(n)'
  BY InformKeepsPending
<1>3. SeenIsvc[n] = isvc[n] \/ Pending(n)
  BY DEF CacheFresh, SeenIsvc, Pending
<1>4. ASSUME Soon(n), ~Pending(n) PROVE Soon(n)'
  <2>1. CASE InformTenant
    BY <1>1, <1>3, <1>4, <2>1 DEF InformTenant, allServices, Soon, Pending
  <2>2. CASE InformModel
    <3>1. CASE isvc[n].spec.modelRef \in events.model
      BY <1>1, <1>3, <1>4, <2>2, <3>1 DEF InformModel, servicesForModel, Soon, Pending
    <3>2. CASE events.tenant
      BY <2>2, <3>2 DEF InformModel, Soon, TypeOK, QueueTypeOK
    <3> QED
      BY <1>4, <3>1, <3>2 DEF Soon
  <2>3. CASE InformIsvc \/ InformDeployment \/ InformService \/ InformPod
    <3>1. events'.tenant = events.tenant /\ events'.model = events.model
      BY <2>3 DEF InformIsvc, InformDeployment, InformService, InformPod, TypeOK, QueueTypeOK
    <3> QED
      BY <1>1, <1>4, <3>1 DEF Soon
  <2> QED
    BY <2>1, <2>2, <2>3 DEF Inform
<1> QED
  BY <1>1, <1>2, <1>4 DEF Same, Soon

\* Specs and mounts keep their owners, whoever changes what.
LEMMA SpecsOwnKept ==
  ASSUME TypeOK, Apart, User \/ Kubernetes
  PROVE  SpecsOwn(isvc')
<1>1. ASSUME NEW n \in Names, NEW spec \in Specs[n], NEW second, CreateInferenceService(n, spec, second)
      PROVE  SpecsOwn(isvc')
  <2> DEFINE new == [uid |-> Uid(n, serial + 1), created |-> second,
                     generation |-> 1, spec |-> spec, status |-> NoStatus]
  <2>1. isvc' = [isvc EXCEPT ![n] = new] /\ new.spec = spec
    BY <1>1 DEF CreateInferenceService
  <2> HIDE DEF new
  <2> QED
    BY <2>1 DEF TypeOK, IsvcTypeOK, Apart, SpecsOwn
<1>2. ASSUME NEW n \in Names, NEW spec \in Specs[n], EditInferenceService(n, spec)
      PROVE  SpecsOwn(isvc')
  <2>1. isvc[n] \in Isvcs
    BY <1>2 DEF EditInferenceService, TypeOK, IsvcTypeOK
  <2> DEFINE new == [isvc[n] EXCEPT !.spec = spec, !.generation = isvc[n].generation + 1]
  <2>2. isvc' = [isvc EXCEPT ![n] = new] /\ new.spec = spec
    BY <1>2, <2>1 DEF EditInferenceService, Isvcs
  <2> HIDE DEF new
  <2> QED
    BY <2>2 DEF TypeOK, IsvcTypeOK, Apart, SpecsOwn
<1>3. ASSUME NEW n \in Names, DeleteInferenceService(n) PROVE SpecsOwn(isvc')
  BY <1>3 DEF DeleteInferenceService, TypeOK, IsvcTypeOK, Apart, SpecsOwn
<1>4. CASE UNCHANGED isvc
  BY <1>4 DEF Apart, SpecsOwn
<1> QED
  BY <1>1, <1>2, <1>3, <1>4 DEF User, Kubernetes, AnnotateInferenceService, DriftDeployment,
     DriftService, ChangeTenant, ChangeModel, RetireDeployment, RetirePod, CollectDeployment,
     CollectService, RollOut, BecomeAvailable, FailPod

LEMMA MountsOwnKept ==
  ASSUME MountsOwn(deployment), KeepsMounts
  PROVE  MountsOwn(deployment')
BY DEF MountsOwn, KeepsMounts, DeploymentNames

\* The worker's copy, in terms of SameWork.
LEMMA SameWorkBusy ==
  ASSUME TypeOK, WorkerTypeOK', SameWork
  PROVE  worker' # Idle <=> worker # Idle
BY DEF SameWork, TypeOK, WorkerTypeOK, Busy, Idle, HasTenant

LEMMA ChangesKeepApart ==
  ASSUME TypeInv, TypeInv', Apart, User \/ Kubernetes
  PROVE  Apart'
<1> USE DEF TypeInv
<1>1. UNCHANGED cache /\ SameWork /\ KeepsMounts
  BY InputChangesAreEvents, ChangesAreEvents, OthersKeepMounts
<1>2. SpecsOwn(isvc') /\ MountsOwn(deployment')
  BY <1>1, SpecsOwnKept, MountsOwnKept DEF Apart
<1>3. UNCHANGED pods
  <2>1. ~\E c \in Claims : RetirePod(c)
    BY DEF Apart, RetirePod
  <2> QED
    BY <2>1 DEF User, Kubernetes, CreateInferenceService, EditInferenceService,
       AnnotateInferenceService, DeleteInferenceService, DriftDeployment, DriftService,
       ChangeTenant, ChangeModel, RetireDeployment, CollectDeployment,
       CollectService, RollOut, BecomeAvailable, FailPod, inputVars
<1>4. worker' # Idle => worker # Idle
  BY <1>1, SameWorkBusy DEF TypeOK
<1> QED
  BY <1>1, <1>2, <1>3, <1>4 DEF Apart, SameWork

LEMMA InformKeepsApart ==
  ASSUME TypeOK, Apart, Inform
  PROVE  Apart'
<1>1. UNCHANGED <<isvc, deployment, pods, worker>>
  BY DEF Inform, InformIsvc, InformTenant, InformModel, InformDeployment, InformService,
         InformPod, childVars, inputVars
<1>2. cache' = cache \/ \E kind \in Kinds : \E objects :
        /\ cache' = [cache EXCEPT ![kind] = objects]
        /\ kind = "isvc" => objects = isvc
        /\ kind = "deployment" => objects = deployment
        /\ kind = "pod" => objects = pods
  BY DEF Inform, InformIsvc, InformTenant, InformModel, InformDeployment, InformService,
         InformPod, Refresh, Kinds
<1>3. /\ SpecsOwn(cache'.isvc) /\ MountsOwn(cache'.deployment) /\ cache'.pod = {}
  BY <1>2 DEF Apart, TypeOK, CacheTypeOK, Kinds
<1> QED
  BY <1>1, <1>3 DEF Apart

LEMMA FailureKeepsApart ==
  ASSUME TypeOK, Apart, Restart \/ ApiError
  PROVE  Apart'
<1>1. worker' = Idle /\ UNCHANGED <<isvc, deployment, pods>>
  BY DEF Restart, ApiError, Requeue, childVars, inputVars
<1>2. SpecsOwn(cache'.isvc) /\ MountsOwn(cache'.deployment) /\ cache'.pod = {}
  BY DEF Restart, ApiError, Apart
<1> QED
  BY <1>1, <1>2 DEF Apart

LEMMA ChangesKeepInputFresh ==
  ASSUME Uncontended, TypeOK, Apart, InputFresh, User \/ Kubernetes
  PROVE  InputFresh'
<1>1. ASSUME NEW n \in Names,
             \/ DriftDeployment(n) \/ CollectDeployment(n)
             \/ RollOut(n) \/ BecomeAvailable(n) \/ FailPod(n)
      PROVE  /\ events.deployment \subseteq events'.deployment
             /\ \A o \in Names : deployment'[o] = deployment[o] \/ o \in events'.deployment
  <2>1. events' = [events EXCEPT !.deployment = @ \cup {n}]
    BY <1>1 DEF DriftDeployment, CollectDeployment, RollOut, BecomeAvailable, FailPod
  <2>2. \A o \in Names \ {n} : deployment'[o] = deployment[o]
    BY <1>1 DEF TypeOK, ChildTypeOK, DeploymentNames, DriftDeployment, CollectDeployment,
                RollOut, BecomeAvailable, FailPod
  <2> QED
    BY <2>1, <2>2 DEF TypeOK, QueueTypeOK
<1>2. ~\E d \in DeploymentNames : RetireDeployment(d)
  BY DEF Uncontended, RetireDeployment, Operation
<1>3. ASSUME \/ \E n \in Names :
                  \/ \E spec \in Specs[n], second \in {clock, clock + 1} :
                       CreateInferenceService(n, spec, second)
                  \/ \E spec \in Specs[n] : EditInferenceService(n, spec)
                  \/ AnnotateInferenceService(n)
                  \/ DeleteInferenceService(n)
                  \/ DriftService(n) \/ CollectService(n)
             \/ \E t \in TenantSpecs \cup {None} : ChangeTenant(t)
             \/ \E m \in Models, spec \in ModelSpecs \cup {None} : ChangeModel(m, spec)
             \/ \E c \in Claims : RetirePod(c)
      PROVE  UNCHANGED deployment /\ events'.deployment = events.deployment
  BY <1>3 DEF TypeOK, QueueTypeOK, CreateInferenceService, EditInferenceService,
     AnnotateInferenceService, DeleteInferenceService, DriftService, CollectService,
     ChangeTenant, ChangeModel, RetirePod, childVars
<1>4. /\ events.deployment \subseteq events'.deployment
      /\ \A o \in Names : deployment'[o] = deployment[o] \/ o \in events'.deployment
  BY <1>1, <1>2, <1>3 DEF User, Kubernetes
<1> QED
  BY <1>4, InputChangesAreEvents DEF InputFresh

LEMMA InformKeepsInputFresh ==
  ASSUME TypeOK, InputFresh, Inform
  PROVE  InputFresh'
<1> USE DEF TypeOK, CacheTypeOK, QueueTypeOK, Refresh, inputVars, childVars
<1>1. CASE InformTenant
  BY <1>1 DEF InformTenant, InputFresh
<1>2. CASE InformModel
  BY <1>2 DEF InformModel, InputFresh
<1>3. CASE InformDeployment
  BY <1>3 DEF InformDeployment, InputFresh
<1>4. CASE InformIsvc \/ InformService \/ InformPod
  BY <1>4 DEF InformIsvc, InformService, InformPod, InputFresh
<1> QED
  BY <1>1, <1>2, <1>3, <1>4 DEF Inform

LEMMA FailureKeepsInputFresh ==
  ASSUME InputFresh, Restart \/ ApiError
  PROVE  InputFresh'
BY DEF InputFresh, Restart, ApiError, inputVars, childVars

\* A step that leaves the worker alone, or outdates its copy.
LEMMA WorkFrame ==
  ASSUME TypeInv, TypeInv', SameWork, configMap => configMap', Checked, Progress,
         \A n \in Names : Alerted(n)
  PROVE  Checked' /\ Progress'
<1> USE DEF TypeInv
<1>1. Checked'
  BY DEF Checked, SameWork
<1>2. Progress'
  <2> SUFFICES ASSUME worker' # Idle, worker'.fresh PROVE Soon(worker.name)' \/ ReadLive'
    BY DEF Progress
  <2>1. PICK n : n = worker.name
    OBVIOUS
  <2>2. worker # Idle /\ worker.fresh /\ worker'.name = n /\ worker'.isvc = worker.isvc
    BY <2>1, SameWorkBusy DEF SameWork, TypeOK
  <2>3. n \in Names /\ worker.isvc # None
    BY <2>1, <2>2 DEF TypeOK, WorkerTypeOK, Busy
  <2>4. isvc'[n] = worker.isvc /\ isvc[n] = worker.isvc
    BY <2>1, <2>2 DEF CopyFresh
  <2>5. CASE Soon(n)'
    BY <2>2, <2>5 DEF Soon, Pending
  <2>6. CASE Same(n) /\ ~Soon(n)
    <3>1. ReadLive
      BY <2>1, <2>2, <2>6 DEF Progress
    <3> QED
      BY <2>1, <2>2, <2>4, <2>6, <3>1 DEF ReadLive, SameWork, Same
  <2> QED
    BY <2>3, <2>4, <2>5, <2>6 DEF Alerted
<1> QED
  BY <1>1, <1>2

LEMMA SoonFrame ==
  ASSUME ConvergedSoon, worker'.name = worker.name, \A n \in Names : Alerted(n),
         \A n \in Names : isvc'[n] # None => isvc[n] # None \/ Soon(n)'
  PROVE  ConvergedSoon'
BY SettledFrame DEF ConvergedSoon, Alerted

LEMMA EnvironmentKeepsConverged ==
  ASSUME Uncontended, ConvergedInv, TypeInv', User \/ Kubernetes \/ Inform
  PROVE  Apart' /\ InputFresh' /\ Checked' /\ Progress' /\ ConvergedSoon'
<1>1. TypeInv /\ Apart /\ InputFresh /\ Checked /\ Progress /\ ConvergedSoon
  BY DEF ConvergedInv, AppliedInv
<1>2. \A n \in Names : Alerted(n)
  BY <1>1, ChangesAlert, InformAlerts DEF TypeInv
<1>3. SameWork /\ (configMap => configMap')
  <2>1. CASE User \/ Kubernetes
    BY <1>1, <2>1, ChangesAreEvents, InputChangesAreEvents DEF TypeInv
  <2>2. CASE Inform
    BY <2>2 DEF SameWork, Inform, InformIsvc, InformTenant, InformModel, InformDeployment,
                InformService, InformPod, childVars
  <2> QED
    BY <2>1, <2>2
<1>4. Apart' /\ InputFresh'
  BY <1>1, ChangesKeepApart, InformKeepsApart, ChangesKeepInputFresh, InformKeepsInputFresh
     DEF TypeInv
<1>5. Checked' /\ Progress'
  BY <1>1, <1>2, <1>3, WorkFrame
<1>6. ConvergedSoon'
  BY <1>1, <1>2, <1>3, SoonFrame DEF Alerted, Same, SameWork
<1> QED
  BY <1>4, <1>5, <1>6

LEMMA FailureKeepsConverged ==
  ASSUME ConvergedInv, Restart \/ ApiError
  PROVE  Apart' /\ InputFresh' /\ Checked' /\ Progress' /\ ConvergedSoon'
<1>1. TypeInv /\ Apart /\ InputFresh /\ Checked /\ Progress /\ ConvergedSoon
  BY DEF ConvergedInv, AppliedInv
<1>2. worker' = Idle /\ UNCHANGED <<isvc, tenant, model, deployment, service, configMap>>
  BY DEF Restart, ApiError, Requeue, childVars, inputVars
<1>3. Checked' /\ Progress'
  BY <1>2, IdleWorker DEF Checked, Progress, HasModel, HasTenant
<1>4. ConvergedSoon'
  <2>1. CASE Restart
    BY <1>2, <2>1 DEF Restart, ConvergedSoon, Soon, Pending
  <2>2. CASE ApiError
    <3>1. \A n \in Names : worker.name = n \/ Soon(n) => Soon(n)'
      BY <2>2, <1>2 DEF ApiError, Requeue, Soon, Pending
    <3>2. \A n \in Names : Settled(n) => Settled(n)'
      BY <1>2 DEF Settled
    <3> QED
      BY <1>1, <1>2, <3>1, <3>2 DEF ConvergedSoon
  <2> QED
    BY <2>1, <2>2
<1> QED
  BY <1>1, <1>3, <1>4, FailureKeepsApart, FailureKeepsInputFresh DEF TypeInv

-----------------------------------------------------------------------------
(* What Reconcile does to it *)

LEMMA GetKeepsConverged ==
  ASSUME ConvergedInv, NEW n \in Names, GetInferenceService(n)
  PROVE  Apart' /\ InputFresh' /\ Checked' /\ Progress' /\ ConvergedSoon'
<1>1. TypeInv /\ TypeOK /\ Apart /\ InputFresh /\ ConvergedSoon
  BY DEF ConvergedInv, AppliedInv, TypeInv
<1>2. /\ UNCHANGED <<isvc, tenant, model, pods, deployment, service, configMap, cache, events>>
      /\ queue' = queue \ {n}
  BY DEF GetInferenceService, childVars, inputVars
<1>3. worker = Idle
  BY <1>1 DEF TypeOK, WorkerTypeOK, GetInferenceService, Busy, HasTenant
<1>4. \/ worker' = Idle /\ SeenIsvc[n] = None
      \/ /\ SeenIsvc[n] # None /\ worker'.name = n /\ worker'.isvc = SeenIsvc[n]
         /\ worker'.pc = "getTenant" /\ worker'.verdict = "Unset"
  BY DEF GetInferenceService, Idle
<1>5. SpecsOwn(SeenIsvc)
  BY <1>1 DEF Apart, SeenIsvc
<1>6. Apart'
  BY <1>1, <1>2, <1>4, <1>5 DEF Apart, SpecsOwn
<1>7. InputFresh'
  BY <1>1, <1>2 DEF InputFresh
<1>8. Checked' /\ Progress'
  BY <1>4, IdleWorker DEF Checked, Progress, ReadLive, HasModel, HasTenant, Guarded
<1>9. ConvergedSoon'
  <2>1. \A o \in Names \ {n} : (Soon(o) => Soon(o)') /\ (Settled(o) => Settled(o)')
    BY <1>2 DEF Soon, Pending, Settled
  <2>2. isvc[n] # None => worker'.name = n \/ Soon(n)'
    BY <1>1, <1>2, <1>4 DEF TypeInv, CacheFresh, SeenIsvc, Soon, Pending
  <2>3. \A o \in Names : worker.name # o
    BY <1>3, IdleWorker
  <2> QED
    BY <1>1, <1>2, <2>1, <2>2, <2>3 DEF ConvergedSoon
<1> QED
  BY <1>6, <1>7, <1>8, <1>9

\* A call that only reads, or applies the ConfigMap.
LEMMA ReadFrame ==
  ASSUME ConvergedInv,
         \/ GetTenant \/ GetModel \/ ListSiblings \/ ListDeployments \/ ListPods
         \/ ApplyConfigMap
  PROVE  /\ Apart' /\ InputFresh' /\ ConvergedSoon'
         /\ worker \in Busy /\ worker'.name = worker.name /\ worker'.isvc = worker.isvc
         /\ worker' # Idle => worker'.fresh = worker.fresh
         /\ Soon(worker.name) => Soon(worker.name)'
         /\ UNCHANGED <<isvc, tenant, model, deployment>>
<1>1. TypeOK /\ Apart /\ InputFresh /\ ConvergedSoon
  BY DEF ConvergedInv, AppliedInv, TypeInv
<1>2. worker'.name = worker.name /\ UNCHANGED <<isvc, deployment, service, events, queue>>
  BY <1>1, BeforeApply
<1>3. /\ UNCHANGED <<tenant, model, pods, cache>> /\ (configMap => configMap')
  BY <1>1 DEF GetTenant, GetModel, ListSiblings, ListDeployments, ListPods, ApplyConfigMap,
              inputVars, childVars, TypeOK, ChildTypeOK
<1>4. /\ worker # Idle /\ worker \in Busy
  BY <1>1, CopyKept DEF TypeOK, WorkerTypeOK
<1>5. worker'.name # Idle.name
  BY <1>2, <1>4, IdleWorker DEF Busy
<1>6. worker' # Idle /\ worker'.isvc = worker.isvc /\ worker'.fresh = worker.fresh
  BY <1>1, <1>5, CopyKept
<1>7. \A n \in Names : (Soon(n) => Soon(n)') /\ (Settled(n) => Settled(n)')
  BY <1>2, <1>3 DEF Soon, Pending, Settled, SettledOn
<1>8. worker.name \in Names
  BY <1>4 DEF Busy
<1>9. Soon(worker.name) => Soon(worker.name)'
  BY <1>2, <1>7, <1>8 DEF Soon, Pending
<1>10. Apart' /\ InputFresh'
  BY <1>1, <1>2, <1>3, <1>4, <1>6 DEF Apart, InputFresh
<1>11. ConvergedSoon'
  BY <1>1, <1>2, <1>7 DEF ConvergedSoon
<1> QED
  BY <1>2, <1>3, <1>4, <1>6, <1>9, <1>10, <1>11

\* What a worker with a fresh copy, and nothing new on its way, knows.
LEMMA FreshWorker ==
  ASSUME ConvergedInv, worker # Idle, worker.fresh, ~Soon(worker.name)
  PROVE  /\ ReadLive
         /\ worker.name \in Names /\ worker.isvc = isvc[worker.name] /\ worker.isvc # None
         /\ worker.isvc.spec.modelRef \in Models
         /\ SeenTenant = tenant
         /\ SeenModel[worker.isvc.spec.modelRef] = model[worker.isvc.spec.modelRef]
         /\ SeenDeployment[worker.name] = deployment[worker.name]
<1>1. TypeOK /\ CopyFresh /\ InputFresh /\ Progress
  BY DEF ConvergedInv, AppliedInv, TypeInv
<1>2. worker.name \in Names /\ worker.isvc # None /\ worker.isvc = isvc[worker.name]
  BY <1>1 DEF TypeOK, WorkerTypeOK, Busy, CopyFresh
<1>3. worker.isvc.spec.modelRef \in Models
  BY <1>1, <1>2, RefType
<1> QED
  BY <1>1, <1>2, <1>3
     DEF Progress, InputFresh, Soon, Pending, SeenTenant, SeenModel, SeenDeployment

LEMMA TenantKeepsWork ==
  ASSUME ConvergedInv, GetTenant
  PROVE  Checked' /\ Progress'
<1>1. TypeOK /\ worker # Idle /\ worker \in Busy /\ worker.verdict = "Unset"
  BY DEF ConvergedInv, AppliedInv, TypeInv, TypeOK, WorkerTypeOK, GetTenant, Idle
<1>2. \/ /\ SeenTenant = None
         /\ worker'.pc = "updateStatus" /\ worker'.verdict = "TenantConfigMissing"
      \/ /\ worker'.tenant = SeenTenant
         /\ worker'.pc = "getModel" /\ worker'.verdict = "Unset"
  BY <1>1 DEF GetTenant, Fail, Busy
<1>3. Checked'
  BY <1>2 DEF Checked, HasModel, HasTenant
<1>4. Progress'
  <2> SUFFICES ASSUME worker' # Idle, worker'.fresh, ~Soon(worker.name) PROVE ReadLive'
    BY ReadFrame DEF Progress
  <2>1. SeenTenant = tenant
    BY <1>1, ReadFrame, FreshWorker
  <2>2. \A i, m, d : tenant = None => Judgement(i, m, tenant, d) = "TenantConfigMissing"
    BY DEF Judgement
  <2> QED
    BY <1>2, <2>1, <2>2, ReadFrame DEF ReadLive, HasModel, HasTenant, Guarded
<1> QED
  BY <1>3, <1>4

LEMMA ModelKeepsWork ==
  ASSUME ConvergedInv, GetModel
  PROVE  Checked' /\ Progress'
<1> DEFINE m == SeenModel[worker.isvc.spec.modelRef]
<1>1. /\ TypeOK /\ worker # Idle /\ worker \in Busy /\ worker.verdict = "Unset"
      /\ worker.pc \in HasTenant /\ worker.tenant # None
  BY DEF ConvergedInv, AppliedInv, TypeInv, TypeOK, WorkerTypeOK, GetModel, Idle, HasTenant
<1>2. PICK v : v = Invalid(worker.isvc.spec, m)
  OBVIOUS
<1>3. \/ /\ v # "Configured" /\ worker'.pc = "updateStatus" /\ worker'.verdict = v
      \/ /\ v = "Configured" /\ worker'.pc = "listSiblings" /\ worker'.verdict = "Unset"
         /\ worker'.tenant = worker.tenant /\ worker'.model = m
  <2>1. \/ /\ v # "Configured"
           /\ worker' = [worker EXCEPT !.pc = "updateStatus", !.verdict = v]
        \/ /\ v = "Configured"
           /\ worker' = [worker EXCEPT !.pc = "listSiblings", !.model = m]
    BY <1>2 DEF GetModel, Fail
  <2> HIDE DEF m
  <2> QED
    BY <1>1, <2>1 DEF Busy
<1>4. v \in Failures \cup {"Configured"}
  BY <1>2, InvalidVerdict
<1>5. worker'.isvc = worker.isvc
  BY ReadFrame
<1>6. Checked'
  BY <1>2, <1>3, <1>5 DEF Checked, HasModel, HasTenant
<1>7. Progress'
  <2> SUFFICES ASSUME worker' # Idle, worker'.fresh, ~Soon(worker.name) PROVE ReadLive'
    BY ReadFrame DEF Progress
  <2>1. ReadLive /\ m = model[worker.isvc.spec.modelRef]
    BY <1>1, ReadFrame, FreshWorker
  <2>2. worker.tenant = tenant
    BY <1>1, <2>1 DEF ReadLive
  <2>3. v # "Configured" => v = Judgement(worker.isvc, m, tenant, deployment[worker.name])
    BY <1>1, <1>2, <2>2 DEF Judgement
  <2> HIDE DEF m
  <2> QED
    BY <1>3, <1>5, <2>1, <2>2, <2>3, ReadFrame DEF ReadLive, HasModel, HasTenant, Guarded
<1> QED
  BY <1>6, <1>7

\* From the model on, the worker has a valid spec of its own name.
LEMMA ValidWorker ==
  ASSUME ConvergedInv, worker.pc \in HasModel
  PROVE  /\ TypeOK /\ worker # Idle /\ worker \in Busy /\ worker.verdict = "Unset"
         /\ worker.name \in Names /\ worker.tenant # None
         /\ worker.isvc.spec \in Specs[worker.name] /\ ~worker.isvc.spec.localVolume
         /\ Invalid(worker.isvc.spec, worker.model) = "Configured"
<1>1. TypeOK /\ Apart /\ Checked
  BY DEF ConvergedInv, AppliedInv, TypeInv
<1> QED
  BY <1>1, ApplyingWorker, ValidSpec, AbsentAssumption DEF Apart, Checked

LEMMA ListsKeepWork ==
  ASSUME Uncontended, ConvergedInv, ListSiblings \/ ListDeployments \/ ListPods
  PROVE  Checked' /\ Progress'
<1> DEFINE n == worker.name
           i == worker.isvc
<1>0. worker.pc \in HasModel
  BY DEF ListSiblings, ListDeployments, ListPods, HasModel, HasTenant
<1>1. /\ worker # Idle /\ worker \in Busy /\ worker.verdict = "Unset" /\ worker.tenant # None
      /\ n \in Names /\ i.spec \in Specs[n] /\ ~i.spec.localVolume
      /\ Invalid(i.spec, worker.model) = "Configured"
  BY <1>0, ValidWorker
<1>2. /\ ~SiblingConflict(n, i, SeenIsvc) /\ i.spec.claim \notin SeenPods
      /\ DeploymentConflict(i, SeenDeployment) <=> Foreign(i, SeenDeployment[n])
  <2>1. SpecsOwn(SeenIsvc) /\ MountsOwn(SeenDeployment) /\ SeenPods = {}
    BY DEF ConvergedInv, Apart, SeenIsvc, SeenDeployment, SeenPods
  <2> QED
    BY <1>1, <2>1, NobodyElse
<1>3. \/ /\ worker'.pc \in HasModel \ {"applyDeployment", "applyService"}
         /\ worker'.pc \in Guarded =>
              worker.pc \in Guarded \/ ~Foreign(i, SeenDeployment[n])
         /\ worker'.verdict = "Unset"
         /\ worker'.tenant = worker.tenant /\ worker'.model = worker.model
      \/ /\ Foreign(i, SeenDeployment[n])
         /\ worker'.pc = "updateStatus" /\ worker'.verdict = "TrustedStoreConflict"
  <2>1. CASE ListSiblings
    BY <1>1, <1>2, <2>1 DEF ListSiblings, Busy, HasModel, HasTenant, Guarded
  <2>2. CASE ListDeployments
    BY <1>1, <1>2, <2>2 DEF ListDeployments, Fail, Busy, HasModel, HasTenant, Guarded
  <2>3. CASE ListPods
    BY <1>1, <1>2, <2>3 DEF ListPods, Busy, HasModel, HasTenant, Guarded
  <2> QED
    BY <2>1, <2>2, <2>3
<1>4. worker'.isvc = worker.isvc
  BY ReadFrame
<1>5. Checked'
  BY <1>1, <1>3, <1>4 DEF Checked, HasModel, HasTenant
<1>6. Progress'
  <2> SUFFICES ASSUME worker' # Idle, worker'.fresh, ~Soon(worker.name) PROVE ReadLive'
    BY ReadFrame DEF Progress
  <2>1. ReadLive /\ SeenDeployment[n] = deployment[n]
    BY <1>1, ReadFrame, FreshWorker
  <2>2. worker.tenant = tenant /\ worker.model = model[i.spec.modelRef]
    BY <1>0, <2>1 DEF ReadLive, HasModel
  <2>3. Foreign(i, deployment[n])
          => Judgement(i, worker.model, tenant, deployment[n]) = "TrustedStoreConflict"
    BY <1>1, <2>2 DEF Judgement
  <2> QED
    BY <1>3, <1>4, <2>1, <2>2, <2>3, ReadFrame DEF ReadLive, HasModel, HasTenant, Guarded
<1> QED
  BY <1>5, <1>6

LEMMA ConfigMapKeepsWork ==
  ASSUME ConvergedInv, ApplyConfigMap
  PROVE  Checked' /\ Progress'
<1> DEFINE n == worker.name
           i == worker.isvc
<1>0. worker.pc \in HasModel /\ worker.pc \in Guarded
  BY DEF ApplyConfigMap, HasModel, HasTenant, Guarded
<1>1. /\ worker # Idle /\ worker \in Busy /\ worker.verdict = "Unset" /\ worker.tenant # None
      /\ Invalid(i.spec, worker.model) = "Configured"
  BY <1>0, ValidWorker
<1>2. \/ /\ ~renderError(worker.model, worker.tenant)
         /\ worker'.pc = "applyDeployment" /\ worker'.verdict = "Unset"
         /\ worker'.tenant = worker.tenant /\ worker'.model = worker.model
         /\ i.spec.weightsCache => configMap'
      \/ /\ renderError(worker.model, worker.tenant)
         /\ worker'.pc = "updateStatus" /\ worker'.verdict = "InvalidConfig"
  BY <1>1 DEF ApplyConfigMap, Fail, Busy
<1>3. worker'.isvc = worker.isvc
  BY ReadFrame
<1>4. Checked'
  BY <1>1, <1>2, <1>3 DEF Checked, HasModel, HasTenant
<1>5. Progress'
  <2> SUFFICES ASSUME worker' # Idle, worker'.fresh, ~Soon(worker.name) PROVE ReadLive'
    BY ReadFrame DEF Progress
  <2>1. ReadLive
    BY <1>1, ReadFrame, FreshWorker
  <2>2. /\ worker.tenant = tenant /\ worker.model = model[i.spec.modelRef]
        /\ ~Foreign(i, deployment[n])
    BY <1>0, <2>1 DEF ReadLive, HasModel
  <2>3. renderError(worker.model, tenant)
          => Judgement(i, worker.model, tenant, deployment[n]) = "InvalidConfig"
    BY <1>1, <2>2 DEF Judgement
  <2> QED
    BY <1>2, <1>3, <2>2, <2>3, ReadFrame DEF ReadLive, HasModel, HasTenant, Guarded
<1> QED
  BY <1>4, <1>5

\* An error return.
LEMMA RequeueKeepsConverged ==
  ASSUME ConvergedInv, Requeue,
         UNCHANGED <<isvc, inputVars, childVars, cache, events>>
  PROVE  Apart' /\ InputFresh' /\ Checked' /\ Progress' /\ ConvergedSoon'
<1>1. Apart /\ InputFresh /\ ConvergedSoon
  BY DEF ConvergedInv
<1>2. worker' = Idle
  BY DEF Requeue
<1>3. Apart' /\ InputFresh'
  BY <1>1, <1>2 DEF Apart, InputFresh, inputVars, childVars
<1>4. Checked' /\ Progress'
  BY <1>2, IdleWorker DEF Checked, Progress, HasModel, HasTenant
<1>5. \A n \in Names : worker.name = n \/ Soon(n) => Soon(n)'
  BY DEF Requeue, Soon, Pending
<1>6. \A n \in Names : Settled(n) => Settled(n)'
  BY DEF Settled, inputVars, childVars
<1>7. ConvergedSoon'
  BY <1>1, <1>5, <1>6 DEF ConvergedSoon
<1> QED
  BY <1>3, <1>4, <1>7

LEMMA ApplyDeploymentKeepsConverged ==
  ASSUME Uncontended, ConvergedInv, ApplyDeployment
  PROVE  Apart' /\ InputFresh' /\ Checked' /\ Progress' /\ ConvergedSoon'
<1>1. worker.pc \in HasModel
  BY DEF ApplyDeployment, HasModel, HasTenant
<1>2. PICK n, old : n = worker.name /\ old = deployment[n]
  OBVIOUS
<1>3. /\ TypeOK /\ worker # Idle /\ worker \in Busy /\ worker.verdict = "Unset"
      /\ n \in Names /\ worker.isvc.spec \in Specs[n] /\ ~worker.isvc.spec.localVolume
      /\ Apart /\ InputFresh /\ Checked /\ Progress /\ ConvergedSoon
  BY <1>1, <1>2, ValidWorker DEF ConvergedInv
<1>4. old \in Deployments \cup {None} /\ n \in DeploymentNames
  BY <1>2, <1>3 DEF TypeOK, ChildTypeOK, DeploymentNames
<1>5. PICK new : new = Applied(old)
  OBVIOUS
<1>6. /\ deployment' = [deployment EXCEPT ![n] = new]
      /\ worker' = [worker EXCEPT !.pc = "applyService", !.available = new.available]
      /\ UNCHANGED <<isvc, tenant, model, pods, service, configMap, cache, queue>>
      /\ \/ events' = events /\ new = old
         \/ events' = [events EXCEPT !.deployment = @ \cup {n}]
  BY <1>2, <1>5 DEF ApplyDeployment, inputVars
<1>7. /\ new \in Deployments /\ new.owner = worker.isvc.uid
      /\ new.template = Deployment(worker.isvc.spec, worker.model, worker.tenant)
  BY <1>1, <1>3, <1>4, <1>5, AppliedType
<1>8. /\ worker'.pc = "applyService" /\ worker'.name = n /\ worker'.isvc = worker.isvc
      /\ worker'.model = worker.model /\ worker'.tenant = worker.tenant
      /\ worker'.verdict = "Unset" /\ worker'.fresh = worker.fresh
      /\ worker'.available = new.available
  BY <1>2, <1>3, <1>6 DEF Busy
<1>9. deployment'[n] = new /\ \A o \in Names \ {n} : deployment'[o] = deployment[o]
  BY <1>3, <1>4, <1>6 DEF TypeOK, ChildTypeOK, DeploymentNames
<1>10. Apart'
  <2>1. \A v \in new.template.volumes : v.source = "claim" => v.ref = worker.isvc.spec.claim
    BY <1>7 DEF Deployment, volumes, Volume
  <2>2. new.owner # None
    BY <1>1, <1>3, <1>7, ApplyingWorker, NoneAssumption DEF Isvcs
  <2>3. MountsOwn(deployment')
    BY <1>3, <1>9, <2>1, <2>2 DEF Apart, MountsOwn
  <2> QED
    BY <1>2, <1>3, <1>6, <1>8, <2>3 DEF Apart
<1>11. InputFresh'
  <2>1. /\ events'.tenant = events.tenant /\ events'.model = events.model
        /\ events.deployment \subseteq events'.deployment
        /\ n \in events'.deployment \/ deployment'[n] = deployment[n]
    BY <1>2, <1>3, <1>6, <1>9 DEF TypeOK, QueueTypeOK
  <2> QED
    BY <1>3, <1>6, <1>9, <2>1 DEF InputFresh
<1>12. Checked'
  BY <1>3, <1>6, <1>8 DEF Checked, ApplyDeployment, HasModel, HasTenant
<1>13. \A o \in Names : Soon(o) => Soon(o)'
  BY <1>3, <1>6 DEF TypeOK, QueueTypeOK, Soon, Pending
<1>14. Progress'
  <2> SUFFICES ASSUME worker'.fresh, ~Soon(n)' PROVE ReadLive'
    BY <1>8 DEF Progress, Soon, Pending
  <2>1. ~Soon(worker.name)
    BY <1>2, <1>3, <1>13
  <2>2. worker.tenant = tenant /\ worker.model = model[worker.isvc.spec.modelRef]
    BY <1>1, <1>3, <1>8, <2>1, FreshWorker DEF ReadLive, HasModel
  <2> QED
    BY <1>6, <1>8, <1>9, <2>2 DEF ReadLive, Guarded
<1>15. ConvergedSoon'
  <2>1. \A o \in Names \ {n} : Settled(o) => Settled(o)'
    BY <1>6, <1>9 DEF Settled
  <2> QED
    BY <1>2, <1>3, <1>6, <1>8, <1>13, <2>1 DEF ConvergedSoon
<1> QED
  BY <1>10, <1>11, <1>12, <1>14, <1>15

LEMMA ApplyServiceKeepsConverged ==
  ASSUME ConvergedInv, ApplyService
  PROVE  Apart' /\ InputFresh' /\ Checked' /\ Progress' /\ ConvergedSoon'
<1>1. worker.pc \in HasModel /\ worker.pc = "applyService"
  BY DEF ApplyService, HasModel, HasTenant
<1>2. PICK n : n = worker.name
  OBVIOUS
<1>3. /\ TypeOK /\ worker # Idle /\ worker \in Busy /\ worker.verdict = "Unset"
      /\ n \in Names /\ worker.tenant # None
      /\ Invalid(worker.isvc.spec, worker.model) = "Configured"
      /\ Apart /\ InputFresh /\ Checked /\ Progress /\ ConvergedSoon /\ DeploymentApplied
  BY <1>1, <1>2, ValidWorker DEF ConvergedInv, AppliedInv
<1>4. CASE n \in Unservable
  <2>1. Requeue /\ UNCHANGED <<isvc, inputVars, childVars, cache, events>>
    BY <1>2, <1>4 DEF ApplyService, childVars
  <2> QED
    BY <2>1, RequeueKeepsConverged
<1>5. CASE n \notin Unservable
  <2>1. /\ service' = [service EXCEPT ![n] = worker.isvc.uid]
        /\ worker' = [worker EXCEPT !.pc = "updateStatus", !.verdict = "Configured"]
        /\ UNCHANGED <<isvc, tenant, model, pods, deployment, configMap, cache, queue>>
        /\ events' = events \/ events' = [events EXCEPT !.service = @ \cup {n}]
    BY <1>2, <1>5 DEF ApplyService, inputVars
  <2>2. /\ worker'.name = n /\ worker'.isvc = worker.isvc
        /\ worker'.model = worker.model /\ worker'.tenant = worker.tenant
        /\ worker'.pc = "updateStatus" /\ worker'.verdict = "Configured"
        /\ worker'.fresh = worker.fresh /\ worker'.available = worker.available
    BY <1>2, <1>3, <2>1 DEF Busy
  <2>3. \A o \in Names \ {n} : service'[o] = service[o]
    BY <1>3, <2>1 DEF TypeOK, ChildTypeOK
  <2>4. Apart' /\ InputFresh'
    <3>1. /\ events'.tenant = events.tenant /\ events'.model = events.model
          /\ events'.deployment = events.deployment
      BY <1>3, <2>1 DEF TypeOK, QueueTypeOK
    <3> QED
      BY <1>2, <1>3, <2>1, <2>2, <3>1 DEF Apart, InputFresh
  <2>5. Checked'
    BY <1>1, <1>3, <2>1, <2>2 DEF Checked
  <2>6. \A o \in Names : Soon(o) => Soon(o)'
    BY <1>3, <2>1 DEF TypeOK, QueueTypeOK, Soon, Pending
  <2>7. Progress'
    <3> SUFFICES ASSUME worker'.fresh, ~Soon(n)' PROVE ReadLive'
      BY <2>2 DEF Progress, Soon, Pending
    <3>1. ~Soon(worker.name)
      BY <1>2, <1>3, <2>6
    <3>2. /\ worker.tenant = tenant /\ worker.model = model[worker.isvc.spec.modelRef]
          /\ worker.available = deployment[n].available
      BY <1>1, <1>2, <1>3, <2>2, <3>1, FreshWorker DEF ReadLive, HasModel
    <3>3. deployment[n] # None /\ IsControlledBy(deployment[n], worker.isvc.uid)
      BY <1>1, <1>2, <1>3, <3>1 DEF DeploymentApplied, Soon
    <3>4. ~renderError(worker.model, worker.tenant)
      BY <1>1, <1>3 DEF Checked
    <3>5. Judgement(worker.isvc, worker.model, tenant, deployment[n]) = "Configured"
      BY <1>3, <3>2, <3>3, <3>4 DEF Judgement, Foreign
    <3> QED
      BY <2>1, <2>2, <3>2, <3>5 DEF ReadLive, Guarded
  <2>8. ConvergedSoon'
    <3>1. \A o \in Names \ {n} : Settled(o) => Settled(o)'
      BY <2>1, <2>3 DEF Settled
    <3> QED
      BY <1>2, <1>3, <2>1, <2>2, <2>6, <3>1 DEF ConvergedSoon
  <2> QED
    BY <2>4, <2>5, <2>7, <2>8
<1> QED
  BY <1>4, <1>5

\* The status that a fresh worker writes settles its CR.
LEMMA UpdateStatusSettles ==
  ASSUME ConvergedInv, UpdateStatus, worker.fresh, ~Soon(worker.name),
         NEW n, n = worker.name
  PROVE  Settled(n)'
<1> DEFINE new == NewStatus(worker)
           i == worker.isvc
           m == model[i.spec.modelRef]
<1>1. /\ TypeOK /\ worker # Idle /\ worker \in Busy /\ new \in Status
  BY NewStatusType DEF ConvergedInv, AppliedInv, TypeInv, UpdateStatus
<1>2. /\ ReadLive /\ n \in Names /\ i = isvc[n] /\ i \in Isvcs
  BY <1>1, FreshWorker DEF Busy
<1>3. /\ isvc' = [isvc EXCEPT ![n].status = new]
      /\ UNCHANGED <<tenant, model, deployment, service, configMap>>
  BY DEF UpdateStatus, inputVars, childVars
<1>4. isvc'[n] = [i EXCEPT !.status = new]
  BY <1>1, <1>2, <1>3 DEF TypeOK, IsvcTypeOK
<1>5. /\ isvc'[n].status = new /\ isvc'[n].uid = i.uid
      /\ isvc'[n].spec = i.spec /\ isvc'[n].generation = i.generation
  BY <1>2, <1>4 DEF Isvcs
<1>6. Judgement(isvc'[n], m, tenant, deployment[n]) = Judgement(i, m, tenant, deployment[n])
  BY <1>5 DEF Judgement, Foreign
<1>7. worker.verdict = Judgement(i, m, tenant, deployment[n])
  BY <1>1, <1>2 DEF ReadLive, UpdateStatus, TypeOK, WorkerTypeOK
<1>8. CASE worker.verdict # "Configured"
  <2>1. new.observed = i.generation /\ new.configured = worker.verdict
    BY <1>2, <1>8 DEF NewStatus, FailedStatus, Isvcs, Status
  <2> HIDE DEF new
  <2> QED
    BY <1>3, <1>5, <1>6, <1>7, <1>8, <2>1 DEF Settled, SettledOn
<1>9. CASE worker.verdict = "Configured"
  <2>1. /\ worker.tenant = tenant /\ worker.model = m
        /\ worker.available = deployment[n].available
    BY <1>2, <1>9 DEF ReadLive
  <2>2. new = ReadyStatus(i, m, tenant, deployment[n].available)
    BY <1>9, <2>1 DEF NewStatus
  <2>3. new = ReadyStatus(isvc'[n], m, tenant, deployment[n].available)
    BY <1>5, <2>2 DEF ReadyStatus
  <2>4. /\ deployment[n] # None /\ IsControlledBy(deployment[n], i.uid)
        /\ deployment[n].template = Deployment(i.spec, m, tenant)
        /\ service[n] = i.uid
    BY <1>9, <2>1 DEF ConvergedInv, AppliedInv, DeploymentApplied, ServiceApplied, Soon
  <2>5. i.spec.weightsCache => configMap
    BY <1>9 DEF ConvergedInv, Checked
  <2>6. new.observed = i.generation /\ new.configured = "Configured"
    BY <2>2 DEF ReadyStatus
  <2> HIDE DEF new
  <2> QED
    BY <1>3, <1>5, <1>6, <1>7, <1>9, <2>3, <2>4, <2>5, <2>6
       DEF Settled, SettledOn, IsControlledBy
<1> QED
  BY <1>8, <1>9

LEMMA UpdateStatusKeepsConverged ==
  ASSUME ConvergedInv, UpdateStatus
  PROVE  Apart' /\ InputFresh' /\ Checked' /\ Progress' /\ ConvergedSoon'
<1>1. PICK n : n = worker.name
  OBVIOUS
<1>2. /\ TypeOK /\ CopyFresh /\ worker # Idle /\ worker \in Busy /\ n \in Names
      /\ Apart /\ InputFresh /\ ConvergedSoon
  BY <1>1, NewStatusType DEF ConvergedInv, AppliedInv, TypeInv, UpdateStatus, Busy
<1>3. CASE ~worker.fresh
  <2>1. Requeue /\ UNCHANGED <<isvc, inputVars, childVars, cache, events>>
    BY <1>3 DEF UpdateStatus
  <2> QED
    BY <2>1, RequeueKeepsConverged
<1>4. CASE worker.fresh
  <2>1. /\ isvc' = [isvc EXCEPT ![n].status = NewStatus(worker)]
        /\ worker' = Idle
        /\ UNCHANGED <<tenant, model, pods, deployment, service, configMap, cache, queue>>
        /\ events' = events \/ events' = [events EXCEPT !.isvc = @ \cup {n}]
    BY <1>1, <1>4 DEF UpdateStatus, inputVars, childVars
  <2>2. isvc[n] \in Isvcs /\ isvc[n] # None
    BY <1>1, <1>2, <1>4 DEF CopyFresh, Busy, TypeOK, WorkerTypeOK
  <2>3. /\ isvc'[n].spec = isvc[n].spec
        /\ \A o \in Names \ {n} : isvc'[o] = isvc[o]
    BY <1>2, <2>1, <2>2 DEF TypeOK, IsvcTypeOK, Isvcs
  <2>4. Apart' /\ InputFresh'
    <3>1. /\ events'.tenant = events.tenant /\ events'.model = events.model
          /\ events'.deployment = events.deployment
      BY <1>2, <2>1 DEF TypeOK, QueueTypeOK
    <3>2. SpecsOwn(isvc')
      BY <1>2, <2>2, <2>3 DEF Apart, SpecsOwn
    <3> QED
      BY <1>2, <2>1, <3>1, <3>2 DEF Apart, InputFresh
  <2>5. Checked' /\ Progress'
    BY <2>1, IdleWorker DEF Checked, Progress, HasModel, HasTenant
  <2>6. \A o \in Names : Soon(o) => Soon(o)'
    BY <1>2, <2>1, <2>3 DEF TypeOK, QueueTypeOK, Soon, Pending
  <2>7. Soon(n) \/ Settled(n)'
    BY <1>1, <1>4, UpdateStatusSettles
  <2>8. \A o \in Names \ {n} : Settled(o) => Settled(o)'
    BY <2>1, <2>3 DEF Settled
  <2>9. ConvergedSoon'
    BY <1>1, <1>2, <2>3, <2>6, <2>7, <2>8 DEF ConvergedSoon
  <2> QED
    BY <2>4, <2>5, <2>9
<1> QED
  BY <1>3, <1>4

LEMMA ReconcileKeepsConverged ==
  ASSUME Uncontended, ConvergedInv, Reconcile
  PROVE  Apart' /\ InputFresh' /\ Checked' /\ Progress' /\ ConvergedSoon'
<1>1. CASE \/ GetTenant \/ GetModel \/ ListSiblings \/ ListDeployments \/ ListPods
           \/ ApplyConfigMap
  BY <1>1, ReadFrame, TenantKeepsWork, ModelKeepsWork, ListsKeepWork, ConfigMapKeepsWork
<1>2. CASE (\E n \in Names : GetInferenceService(n)) \/ ApplyDeployment \/ ApplyService \/ UpdateStatus
  BY <1>2, GetKeepsConverged, ApplyDeploymentKeepsConverged, ApplyServiceKeepsConverged,
     UpdateStatusKeepsConverged
<1> QED
  BY <1>1, <1>2 DEF Reconcile

LEMMA ConvergedInvStep ==
  ASSUME Uncontended, ConvergedInv, [Next]_vars
  PROVE  ConvergedInv'
<1>1. AppliedInv' /\ TypeInv'
  BY AppliedInvStep DEF ConvergedInv, AppliedInv
<1>2. CASE Reconcile
  BY <1>1, <1>2, ReconcileKeepsConverged DEF ConvergedInv
<1>3. CASE User \/ Kubernetes \/ Inform
  BY <1>1, <1>3, EnvironmentKeepsConverged DEF ConvergedInv
<1>4. CASE Restart \/ ApiError
  BY <1>1, <1>4, FailureKeepsConverged DEF ConvergedInv
<1>5. CASE UNCHANGED vars
  <2>1. Apart' /\ InputFresh'
    BY <1>5 DEF vars, ConvergedInv, Apart, InputFresh
  <2>2. Checked' /\ Progress'
    BY <1>5 DEF vars, ConvergedInv, Checked, Progress, Soon, Pending, ReadLive
  <2>3. ConvergedSoon'
    BY <1>5 DEF vars, ConvergedInv, ConvergedSoon, Soon, Pending, Settled
  <2> QED
    BY <1>1, <2>1, <2>2, <2>3 DEF ConvergedInv
<1> QED
  BY <1>2, <1>3, <1>4, <1>5 DEF Next

LEMMA InitConvergedInv ==
  ASSUME Uncontended, Init
  PROVE  ConvergedInv
<1>1. AppliedInv
  BY InitAppliedInv
<1>2. \A n \in Names : deployment[n] = None
  BY DEF Init, Uncontended, DeploymentNames
<1>3. pods = {}
  BY DEF Init, Uncontended
<1>4. Apart
  BY <1>2, <1>3 DEF Init, Apart, SpecsOwn, MountsOwn
<1>5. InputFresh
  BY DEF Init, InputFresh
<1>6. Checked /\ Progress /\ ConvergedSoon
  BY IdleWorker DEF Init, Checked, Progress, ConvergedSoon, HasModel, HasTenant
<1> QED
  BY <1>1, <1>4, <1>5, <1>6 DEF ConvergedInv

(***************************************************************************)
(* SetupWithManager watches enough, where nobody contends for a claim:     *)
(* when nothing is queued, in progress or on its way, every status and     *)
(* every child is what Reconcile would make it of the live objects.  For   *)
(* any lag of the informers, any edits, deletions and re-creations, drift, *)
(* changes of tenant and models, restarts and failed calls.                *)
(***************************************************************************)
THEOREM Converges ==
  ASSUME Uncontended
  PROVE  Spec => []ConvergedAtRest
<1>1. Init => ConvergedInv
  BY InitConvergedInv
<1>2. ConvergedInv /\ [Next]_vars => ConvergedInv'
  BY ConvergedInvStep
<1>3. ConvergedInv => ConvergedAtRest
  BY RestIsConverged
<1> QED
  BY <1>1, <1>2, <1>3, PTL DEF Spec

-----------------------------------------------------------------------------
(***************************************************************************)
(* A converged CR is left alone.  Progress says that what a worker with a  *)
(* fresh copy has read is live, if nothing is on its way.  Two facts are   *)
(* missing: a copy that is not fresh has its event still to come           *)
(* (StaleComing), and the three conditions that a failure sets agree, so   *)
(* that writing it again changes none of them (FailuresAgree).             *)
(***************************************************************************)
StaleComing == worker # Idle /\ ~worker.fresh => Pending(worker.name)

FailuresAgree ==
  \A n \in Names : isvc[n] # None /\ isvc[n].status.configured \in Failures =>
    /\ isvc[n].status.ready = isvc[n].status.configured
    /\ isvc[n].status.progressing = isvc[n].status.configured

QuietInv == TypeInv /\ StaleComing /\ FailuresAgree

LEMMA UserKeepsQuiet ==
  ASSUME QuietInv, NEW n \in Names,
         \/ \E spec \in Specs[n], second \in {clock, clock + 1} :
              CreateInferenceService(n, spec, second)
         \/ \E spec \in Specs[n] : EditInferenceService(n, spec)
         \/ AnnotateInferenceService(n)
         \/ DeleteInferenceService(n)
  PROVE  StaleComing' /\ FailuresAgree'
<1>1. /\ TypeOK /\ events' = [events EXCEPT !.isvc = @ \cup {n}] /\ UNCHANGED queue
      /\ \A o \in Names \ {n} : isvc'[o] = isvc[o]
  BY DEF QuietInv, TypeInv, TypeOK, IsvcTypeOK, CreateInferenceService, EditInferenceService,
         AnnotateInferenceService, DeleteInferenceService
<1>2. \A o : (o = n \/ Pending(o)) => Pending(o)'
  BY <1>1 DEF TypeOK, QueueTypeOK, Pending
<1>3. worker' = worker \/ (worker'.name = n /\ worker.name = n)
  <2>1. CASE UNCHANGED worker
    BY <2>1
  <2>2. CASE Outdate(n)
    BY <1>1, <2>2, OutdateSameWork DEF Outdate, SameWork
  <2> QED
    BY <2>1, <2>2 DEF CreateInferenceService, EditInferenceService, AnnotateInferenceService,
                      DeleteInferenceService
<1>4. StaleComing'
  BY <1>2, <1>3 DEF QuietInv, StaleComing
<1>5. isvc'[n] # None =>
        \/ isvc[n] # None /\ isvc'[n].status = isvc[n].status
        \/ isvc'[n].status.configured \notin Failures
  <2>1. ASSUME NEW spec, NEW second, CreateInferenceService(n, spec, second)
        PROVE  isvc'[n].status.configured \notin Failures
    <3> DEFINE new == [uid |-> Uid(n, serial + 1), created |-> second,
                       generation |-> 1, spec |-> spec, status |-> NoStatus]
    <3>1. isvc' = [isvc EXCEPT ![n] = new] /\ new.status.configured \notin Failures
      BY <2>1 DEF CreateInferenceService, NoStatus, Failures
    <3> HIDE DEF new
    <3> QED
      BY <1>1, <3>1 DEF TypeOK, IsvcTypeOK
  <2>2. ASSUME NEW spec, EditInferenceService(n, spec)
        PROVE  isvc[n] # None /\ isvc'[n].status = isvc[n].status
    <3>1. isvc[n] \in Isvcs /\ isvc[n] # None
      BY <1>1, <2>2 DEF EditInferenceService, TypeOK, IsvcTypeOK
    <3> DEFINE new == [isvc[n] EXCEPT !.spec = spec, !.generation = isvc[n].generation + 1]
    <3>2. isvc' = [isvc EXCEPT ![n] = new] /\ new.status = isvc[n].status
      BY <2>2, <3>1 DEF EditInferenceService, Isvcs
    <3> HIDE DEF new
    <3> QED
      BY <1>1, <3>1, <3>2 DEF TypeOK, IsvcTypeOK
  <2>3. CASE AnnotateInferenceService(n)
    BY <2>3 DEF AnnotateInferenceService
  <2>4. CASE DeleteInferenceService(n)
    BY <1>1, <2>4 DEF DeleteInferenceService, TypeOK, IsvcTypeOK
  <2> QED
    BY <2>1, <2>2, <2>3, <2>4
<1>6. FailuresAgree'
  BY <1>1, <1>5 DEF QuietInv, FailuresAgree
<1> QED
  BY <1>4, <1>6

LEMMA OthersKeepQuiet ==
  ASSUME QuietInv, UNCHANGED <<isvc, worker>>,
         \A n \in Names : Pending(n) => Pending(n)'
  PROVE  StaleComing' /\ FailuresAgree'
<1>1. worker # Idle => worker.name \in Names
  BY DEF QuietInv, TypeInv, TypeOK, WorkerTypeOK, Busy
<1>2. StaleComing'
  BY <1>1 DEF QuietInv, StaleComing, Pending
<1> QED
  BY <1>2 DEF QuietInv, FailuresAgree

LEMMA ReconcileKeepsQuiet ==
  ASSUME QuietInv, Reconcile
  PROVE  StaleComing' /\ FailuresAgree'
<1> USE DEF QuietInv, TypeInv
<1>1. ASSUME NEW n \in Names, GetInferenceService(n) PROVE StaleComing' /\ FailuresAgree'
  <2>1. UNCHANGED <<isvc, events>>
    BY <1>1 DEF GetInferenceService
  <2>2. worker' = Idle \/ (worker'.name = n /\ (worker'.fresh \/ n \in events.isvc))
    BY <1>1 DEF GetInferenceService, Idle
  <2> QED
    BY <2>1, <2>2 DEF StaleComing, FailuresAgree, Pending
<1>2. ASSUME \/ GetTenant \/ GetModel \/ ListSiblings \/ ListDeployments \/ ListPods
             \/ ApplyConfigMap \/ ApplyDeployment \/ ApplyService
      PROVE  StaleComing' /\ FailuresAgree'
  <2>1. /\ UNCHANGED isvc /\ worker # Idle
        /\ worker' # Idle => worker'.name = worker.name /\ worker'.fresh = worker.fresh
    BY <1>2, CopyKept
  <2>2. \A n \in Names : Pending(n) => Pending(n)'
    BY <1>2 DEF TypeOK, QueueTypeOK, Pending, Requeue, GetTenant, GetModel, ListSiblings,
                ListDeployments, ListPods, ApplyConfigMap, ApplyDeployment, ApplyService
  <2>3. worker.name \in Names
    BY <2>1 DEF TypeOK, WorkerTypeOK, Busy
  <2>4. StaleComing'
    BY <2>1, <2>2, <2>3 DEF StaleComing, Pending
  <2> QED
    BY <2>1, <2>4 DEF FailuresAgree
<1>3. CASE UpdateStatus
  <2>1. PICK n : n = worker.name
    OBVIOUS
  <2>2. worker \in Busy /\ worker # Idle /\ worker' = Idle
    BY <1>3, NewStatusType DEF UpdateStatus, Requeue
  <2>3. StaleComing'
    BY <2>2 DEF StaleComing
  <2>4. CASE ~worker.fresh
    BY <1>3, <2>3, <2>4 DEF UpdateStatus, FailuresAgree
  <2>5. CASE worker.fresh
    <3> DEFINE new == NewStatus(worker)
    <3>1. isvc' = [isvc EXCEPT ![n].status = new]
      BY <1>3, <2>1, <2>5 DEF UpdateStatus
    <3>2. isvc[n] = worker.isvc /\ worker.isvc \in Isvcs /\ n \in Names
      BY <2>1, <2>2, <2>5 DEF CopyFresh, Busy
    <3>3. new.configured \in Failures =>
            new.ready = new.configured /\ new.progressing = new.configured
      BY <3>2 DEF NewStatus, ReadyStatus, FailedStatus, Isvcs, Status, Failures
    <3>4. isvc'[n] = [isvc[n] EXCEPT !.status = new] /\ \A o \in Names \ {n} : isvc'[o] = isvc[o]
      BY <3>1, <3>2 DEF TypeOK, IsvcTypeOK
    <3>5. isvc'[n].status = new
      BY <3>2, <3>4 DEF Isvcs
    <3> HIDE DEF new
    <3>6. FailuresAgree'
      BY <3>3, <3>4, <3>5 DEF FailuresAgree
    <3> QED
      BY <2>3, <3>6
  <2> QED
    BY <2>4, <2>5
<1> QED
  BY <1>1, <1>2, <1>3 DEF Reconcile

LEMMA QuietInvStep ==
  ASSUME QuietInv, [Next]_vars
  PROVE  QuietInv'
<1>1. TypeInv' /\ TypeOK
  BY TypeInvStep DEF QuietInv, TypeInv
<1>2. CASE Reconcile
  BY <1>1, <1>2, ReconcileKeepsQuiet DEF QuietInv
<1>3. CASE User \/ Kubernetes
  <2>1. \A n \in Names : Pending(n) => Pending(n)'
    BY <1>1, <1>3, ChangesAreEvents
  <2>2. CASE UNCHANGED <<isvc, worker>>
    BY <1>1, <2>1, <2>2, OthersKeepQuiet DEF QuietInv
  <2>3. CASE \E n \in Names :
               \/ \E spec \in Specs[n], second \in {clock, clock + 1} :
                    CreateInferenceService(n, spec, second)
               \/ \E spec \in Specs[n] : EditInferenceService(n, spec)
               \/ AnnotateInferenceService(n)
               \/ DeleteInferenceService(n)
    BY <1>1, <2>3, UserKeepsQuiet DEF QuietInv
  <2> QED
    BY <1>3, <2>2, <2>3 DEF User, Kubernetes, DriftDeployment, DriftService, ChangeTenant,
       ChangeModel, RetireDeployment, RetirePod, CollectDeployment, CollectService, RollOut,
       BecomeAvailable, FailPod
<1>4. CASE Inform
  <2>1. UNCHANGED <<isvc, worker>>
    BY <1>4 DEF Inform, InformIsvc, InformTenant, InformModel, InformDeployment,
                InformService, InformPod
  <2> QED
    BY <1>1, <1>4, <2>1, InformKeepsPending, OthersKeepQuiet DEF QuietInv
<1>5. CASE Restart \/ ApiError
  <2>1. worker' = Idle /\ UNCHANGED isvc
    BY <1>5 DEF Restart, ApiError, Requeue
  <2> QED
    BY <1>1, <2>1 DEF QuietInv, StaleComing, FailuresAgree
<1>6. CASE UNCHANGED vars
  BY <1>1, <1>6, OthersKeepQuiet DEF vars, QuietInv, Pending
<1> QED
  BY <1>2, <1>3, <1>4, <1>5, <1>6 DEF Next

\* A worker on a converged CR, with nothing on its way, has what is live.
LEMMA ConvergedWorker ==
  ASSUME Uncontended, ConvergedInv, QuietInv, NEW n \in Names, worker.name = n,
         isvc[n] # None, Converged(n), NothingComing(n)
  PROVE  /\ TypeOK /\ worker # Idle /\ worker \in Busy /\ worker.fresh /\ ReadLive
         /\ worker.isvc = isvc[n] /\ isvc[n] \in Isvcs
         /\ Settled(n) /\ ~Soon(n)
<1>1. ~Soon(n) /\ ~Pending(n)
  BY DEF NothingComing, Soon, Pending
<1>2. TypeOK /\ worker # Idle /\ worker \in Busy
  BY IdleWorker DEF QuietInv, TypeInv, TypeOK, WorkerTypeOK
<1>3. worker.fresh
  BY <1>1, <1>2 DEF QuietInv, StaleComing
<1>4. ReadLive /\ worker.isvc = isvc[n]
  BY <1>1, <1>2, <1>3, FreshWorker
<1>5. Settled(n)
  <2>1. Verdict(n) = Judgement(isvc[n], model[isvc[n].spec.modelRef], tenant, deployment[n])
    BY VerdictIsJudgement DEF ConvergedInv
  <2> QED
    BY <2>1 DEF Converged, Settled, SettledOn
<1> QED
  BY <1>1, <1>2, <1>3, <1>4, <1>5 DEF TypeOK, IsvcTypeOK

\* The apply finds the Deployment as it would make it.
LEMMA ApplyDeploymentIsIdempotent ==
  ASSUME Uncontended, ConvergedInv, QuietInv, NEW n \in Names, worker.name = n,
         isvc[n] # None, Converged(n), NothingComing(n), ApplyDeployment
  PROVE  UNCHANGED <<isvc, deployment, service, events>>
<1> DEFINE i == worker.isvc
           m == model[i.spec.modelRef]
           old == deployment[n]
<1>1. /\ TypeOK /\ worker \in Busy /\ worker.fresh /\ ReadLive /\ Settled(n)
      /\ i = isvc[n] /\ worker.pc = "applyDeployment"
  BY ConvergedWorker DEF ApplyDeployment
<1>2. UNCHANGED <<isvc, service>>
  BY DEF ApplyDeployment
<1>3. /\ worker.tenant = tenant /\ worker.model = m /\ ~Foreign(i, old)
  BY <1>1 DEF ReadLive, Guarded, HasTenant, HasModel
<1>4. /\ tenant # None /\ Invalid(i.spec, m) = "Configured" /\ ~renderError(m, tenant)
  BY <1>1, <1>3, IdleWorker
     DEF ConvergedInv, Checked, HasModel, HasTenant, TypeOK, WorkerTypeOK
<1>5. Judgement(i, m, tenant, old) = "Configured"
  BY <1>3, <1>4 DEF Judgement
<1>6. /\ old # None /\ old.owner = i.uid /\ old.template = Deployment(i.spec, m, tenant)
      /\ old \in Deployments
  BY <1>1, <1>5 DEF Settled, SettledOn, IsControlledBy, TypeOK, ChildTypeOK, DeploymentNames
<1>7. Applied(old) = old
  BY <1>3, <1>6 DEF Applied, Deployments
<1>8. deployment' = [deployment EXCEPT ![n] = Applied(old)] /\ events' = events
  BY <1>7 DEF ApplyDeployment
<1>9. deployment' = deployment
  BY <1>1, <1>7, <1>8 DEF TypeOK, ChildTypeOK
<1> QED
  BY <1>2, <1>8, <1>9

LEMMA ApplyServiceIsIdempotent ==
  ASSUME Uncontended, ConvergedInv, QuietInv, NEW n \in Names, worker.name = n,
         isvc[n] # None, Converged(n), NothingComing(n), ApplyService
  PROVE  UNCHANGED <<isvc, deployment, service, events>>
<1> DEFINE i == worker.isvc
           m == model[i.spec.modelRef]
<1>1. /\ TypeOK /\ worker \in Busy /\ worker.fresh /\ ReadLive /\ Settled(n) /\ ~Soon(n)
      /\ i = isvc[n] /\ isvc[n] \in Isvcs /\ worker.pc = "applyService"
  BY ConvergedWorker DEF ApplyService
<1>2. UNCHANGED <<isvc, deployment>>
  BY DEF ApplyService
<1>3. worker.tenant = tenant /\ worker.model = m
  BY <1>1 DEF ReadLive, HasTenant, HasModel
<1>4. /\ tenant # None /\ Invalid(i.spec, m) = "Configured" /\ ~renderError(m, tenant)
  BY <1>1, <1>3, IdleWorker
     DEF ConvergedInv, Checked, HasModel, HasTenant, TypeOK, WorkerTypeOK
<1>5. ~Foreign(i, deployment[n])
  BY <1>1 DEF ConvergedInv, AppliedInv, DeploymentApplied, Foreign, Soon
<1>6. Judgement(i, m, tenant, deployment[n]) = "Configured"
  BY <1>4, <1>5 DEF Judgement
<1>7. service[n] = i.uid /\ i.uid # None
  BY <1>1, <1>6, NoneAssumption DEF Settled, SettledOn, Isvcs
<1>8. CASE n \in Unservable
  BY <1>2, <1>8 DEF ApplyService
<1>9. CASE n \notin Unservable
  <2>1. service' = [service EXCEPT ![n] = i.uid] /\ events' = events
    BY <1>7, <1>9 DEF ApplyService
  <2>2. service' = service
    BY <1>1, <1>7, <2>1 DEF TypeOK, ChildTypeOK
  <2> QED
    BY <1>2, <2>1, <2>2
<1> QED
  BY <1>8, <1>9

LEMMA UpdateStatusIsIdempotent ==
  ASSUME Uncontended, ConvergedInv, QuietInv, NEW n \in Names, worker.name = n,
         isvc[n] # None, Converged(n), NothingComing(n), UpdateStatus
  PROVE  UNCHANGED <<isvc, deployment, service, events>>
<1> DEFINE i == worker.isvc
           m == model[i.spec.modelRef]
           new == NewStatus(worker)
<1>1. /\ TypeOK /\ worker \in Busy /\ worker.fresh /\ ReadLive /\ Settled(n)
      /\ i = isvc[n] /\ isvc[n] \in Isvcs /\ worker # Idle /\ worker.pc = "updateStatus"
  BY ConvergedWorker DEF UpdateStatus
<1>2. worker.verdict # "Unset" /\ worker.verdict \in Failures \cup {"Unset", "Configured"}
  BY <1>1 DEF TypeOK, WorkerTypeOK, Busy
<1>3. /\ worker.verdict = Judgement(i, m, tenant, deployment[n])
      /\ i.status.configured = worker.verdict /\ i.status.observed = i.generation
  BY <1>1, <1>2 DEF ReadLive, Settled, SettledOn
<1>4. new = i.status
  <2>1. CASE worker.verdict = "Configured"
    <3>1. /\ worker.tenant = tenant /\ worker.model = m
          /\ worker.available = deployment[n].available
      BY <1>1, <2>1 DEF ReadLive
    <3>2. i.status = ReadyStatus(i, m, tenant, deployment[n].available)
      BY <1>1, <1>3, <2>1 DEF Settled, SettledOn
    <3> QED
      BY <2>1, <3>1, <3>2 DEF NewStatus
  <2>2. CASE worker.verdict # "Configured"
    <3>1. i.status.ready = worker.verdict /\ i.status.progressing = worker.verdict
      BY <1>1, <1>2, <1>3, <2>2 DEF QuietInv, FailuresAgree
    <3>2. i.status \in Status
      BY <1>1 DEF Isvcs
    <3>3. FailedStatus(i, worker.verdict) = i.status
      BY <1>3, <3>1, <3>2 DEF FailedStatus, Status
    <3> QED
      BY <2>2, <3>3 DEF NewStatus
  <2> QED
    BY <2>1, <2>2
<1> HIDE DEF new
<1>5. /\ isvc' = [isvc EXCEPT ![n].status = new] /\ events' = events
      /\ UNCHANGED <<deployment, service>>
  BY <1>1, <1>4 DEF UpdateStatus, childVars, new
<1>6. [isvc[n] EXCEPT !.status = new] = isvc[n]
  BY <1>1, <1>4 DEF Isvcs
<1>7. isvc' = isvc
  BY <1>1, <1>5, <1>6 DEF TypeOK, IsvcTypeOK
<1> QED
  BY <1>5, <1>7

(***************************************************************************)
(* No update loop, where nobody contends for a claim: what Reconcile       *)
(* writes wakes it again, but of a converged CR it writes nothing new,     *)
(* wherever in a reconcile it is, once there is nothing more to hear of.   *)
(***************************************************************************)
THEOREM Idempotent ==
  ASSUME Uncontended
  PROVE  Spec => ReconcileIsIdempotent
<1>1. Init => ConvergedInv /\ QuietInv
  <2>1. Init => ConvergedInv
    BY InitConvergedInv
  <2>2. Init => StaleComing /\ FailuresAgree
    BY DEF Init, StaleComing, FailuresAgree
  <2> QED
    BY <2>1, <2>2 DEF QuietInv, ConvergedInv, AppliedInv
<1>2. ConvergedInv /\ QuietInv /\ [Next]_vars => ConvergedInv' /\ QuietInv'
  BY ConvergedInvStep, QuietInvStep
<1>3. ASSUME ConvergedInv, QuietInv, NEW n \in Names PROVE WritesNothingNew(n)
  <2> SUFFICES ASSUME Reconcile, worker.name = n, isvc[n] # None, Converged(n), NothingComing(n)
               PROVE  UNCHANGED <<isvc, deployment, service, events>>
    BY DEF WritesNothingNew
  <2>1. CASE \E o \in Names : GetInferenceService(o)
    BY <2>1 DEF GetInferenceService, childVars
  <2>2. CASE \/ GetTenant \/ GetModel \/ ListSiblings \/ ListDeployments \/ ListPods
             \/ ApplyConfigMap
    BY <1>3, <2>2, BeforeApply DEF QuietInv, TypeInv
  <2>3. CASE ApplyDeployment \/ ApplyService \/ UpdateStatus
    BY <1>3, <2>3, ApplyDeploymentIsIdempotent, ApplyServiceIsIdempotent,
       UpdateStatusIsIdempotent
  <2> QED
    BY <2>1, <2>2, <2>3 DEF Reconcile
<1>4. ConvergedInv /\ QuietInv => [\A n \in Names : WritesNothingNew(n)]_vars
  BY <1>3
<1> QED
  BY <1>1, <1>2, <1>4, PTL DEF Spec, ReconcileIsIdempotent

=============================================================================

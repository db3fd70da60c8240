----------------------- MODULE InferenceServiceProofs -----------------------
(***************************************************************************)
(* Theorems about InferenceServiceController, for every number of CRs,     *)
(* claims, models and operations:                                          *)
(*   TypeCorrect         the type invariant;                               *)
(*   StatusesAreCurrent  a status is only written to the object it is      *)
(*                       about;                                            *)
(*   Exclusive           a Deployment of the operator's shares its claim   *)
(*                       only after a list that missed another of its own. *)
(***************************************************************************)
EXTENDS InferenceServiceProperties, TLAPS

-----------------------------------------------------------------------------
(* The renderer and the validation *)

\* volumes gives a rendered Deployment one claim, the one its spec names.
LEMMA RenderedClaim ==
  ASSUME NEW s, NEW m, NEW t, NEW c
  PROVE  podSpecMountsClaim(Deployment(s, m, t), c) <=> c = s.claim
<1>1. Deployment(s, m, t).volumes = volumes(s)
  BY DEF Deployment
<1>2. \A v \in volumes(s) : v.source = "claim" => v.ref = s.claim
  BY DEF volumes, Volume
<1>3. Volume("trusted-image", "claim", s.claim) \in volumes(s)
  BY DEF volumes
<1> QED
  BY <1>1, <1>2, <1>3 DEF podSpecMountsClaim, Volume

\* A model that passes Reconcile's checks exists and has a source.
LEMMA InvalidVerdict ==
  ASSUME NEW s, NEW m
  PROVE  /\ Invalid(s, m) \in Failures \cup {"Configured"}
         /\ Invalid(s, m) = "Configured" => m # None /\ m.source # None
BY DEF Invalid, Failures

-----------------------------------------------------------------------------
(* Type correctness *)

LEMMA InitTypeOK == Init => TypeOK
<1> SUFFICES ASSUME Init PROVE TypeOK
  OBVIOUS
<1>1. deployment \in [DeploymentNames -> Deployments \cup {None}] /\ DeploymentNamed(deployment)
  <2> PICK mounted \in [HandWrittenNames -> Claims \cup {None}] :
        deployment = [d \in DeploymentNames |->
         IF d \in HandWrittenNames /\ mounted[d] # None
           THEN [owner |-> None, template |-> HandWritten(mounted[d]),
                 available |-> TRUE, rolledOut |-> TRUE]
           ELSE None]
    BY DEF Init
  <2> QED
    BY DEF Deployments, Templates, DeploymentNamed
<1>2. IsvcTypeOK
  BY DEF Init, IsvcTypeOK, IsvcNamed
<1>3. InputTypeOK
  BY DEF Init, InputTypeOK
<1>4. ChildTypeOK
  BY <1>1 DEF Init, ChildTypeOK
<1>5. CacheTypeOK
  BY <1>1, <1>2, <1>3 DEF Init, CacheTypeOK, IsvcTypeOK, InputTypeOK
<1>6. QueueTypeOK
  BY DEF Init, QueueTypeOK, NoEvents
<1>7. WorkerTypeOK
  BY DEF Init, WorkerTypeOK
<1>8. CounterTypeOK
  BY BoundAssumption DEF Init, CounterTypeOK
<1> QED
  BY <1>2, <1>3, <1>4, <1>5, <1>6, <1>7, <1>8 DEF TypeOK

\* A part of the state that a step leaves alone keeps its type.
LEMMA Frame ==
  /\ IsvcTypeOK /\ UNCHANGED isvc => IsvcTypeOK'
  /\ InputTypeOK /\ UNCHANGED inputVars => InputTypeOK'
  /\ ChildTypeOK /\ UNCHANGED childVars => ChildTypeOK'
  /\ CacheTypeOK /\ UNCHANGED cache => CacheTypeOK'
  /\ QueueTypeOK /\ UNCHANGED <<events, queue>> => QueueTypeOK'
  /\ WorkerTypeOK /\ UNCHANGED worker => WorkerTypeOK'
  /\ CounterTypeOK /\ UNCHANGED envVars => CounterTypeOK'
BY DEF IsvcTypeOK, IsvcNamed, InputTypeOK, ChildTypeOK, DeploymentNamed, CacheTypeOK,
       QueueTypeOK, WorkerTypeOK, CounterTypeOK, inputVars, childVars, envVars

\* What a read returns has the type of what is stored.
LEMMA SeenTypes ==
  ASSUME TypeOK
  PROVE  /\ SeenIsvc \in [Names -> Isvcs \cup {None}] /\ IsvcNamed(SeenIsvc)
         /\ SeenTenant \in TenantSpecs \cup {None}
         /\ SeenModel \in [Models -> ModelSpecs \cup {None}]
BY DEF TypeOK, IsvcTypeOK, InputTypeOK, CacheTypeOK, SeenIsvc, SeenTenant, SeenModel

\* The two ways a reconcile ends or fails keep the worker's type.
LEMMA RequeueType ==
  ASSUME TypeOK, worker # Idle, Requeue, UNCHANGED events
  PROVE  WorkerTypeOK' /\ QueueTypeOK'
BY DEF TypeOK, WorkerTypeOK, QueueTypeOK, Requeue, Busy

LEMMA FailType ==
  ASSUME TypeOK, worker # Idle, worker.pc # "updateStatus",
         NEW reason \in Failures, Fail(reason)
  PROVE  WorkerTypeOK'
<1>1. worker \in Busy /\ worker.isvc # None /\ worker.isvc.uid.name = worker.name
  BY DEF TypeOK, WorkerTypeOK
<1>2. reason # "Unset" /\ reason # "Configured"
  BY DEF Failures
<1>3. worker' \in Busy
  BY <1>1 DEF Fail, Busy
<1>4. /\ worker'.isvc = worker.isvc /\ worker'.name = worker.name
      /\ worker'.pc = "updateStatus" /\ worker'.verdict = reason
  BY <1>1 DEF Fail, Busy
<1> QED
  BY <1>1, <1>2, <1>3, <1>4 DEF WorkerTypeOK, HasModel, HasTenant

\* Reconcile goes on from one call to the next.
LEMMA AdvanceType ==
  ASSUME TypeOK, worker # Idle, NEW next \in HasModel,
         worker.pc \in HasModel,
         worker' = [worker EXCEPT !.pc = next]
  PROVE  WorkerTypeOK'
<1>1. /\ worker \in Busy /\ worker.isvc # None /\ worker.isvc.uid.name = worker.name
      /\ worker.verdict = "Unset" /\ worker.tenant # None
      /\ worker.model # None /\ worker.model.source # None
  BY DEF TypeOK, WorkerTypeOK, HasModel, HasTenant
<1>2. worker' \in Busy
  BY <1>1 DEF Busy, HasModel
<1>3. /\ worker'.isvc = worker.isvc /\ worker'.name = worker.name
      /\ worker'.verdict = worker.verdict /\ worker'.tenant = worker.tenant
      /\ worker'.model = worker.model /\ worker'.pc # "updateStatus"
  BY <1>1 DEF Busy, HasModel, HasTenant
<1> QED
  BY <1>1, <1>2, <1>3 DEF WorkerTypeOK

\* The reads of Reconcile.
LEMMA ReadTypeOK ==
  ASSUME TypeOK,
         \/ \E n \in Names : GetInferenceService(n)
         \/ GetTenant \/ GetModel \/ ListSiblings \/ ListDeployments \/ ListPods
  PROVE  TypeOK'
<1>1. /\ IsvcTypeOK' /\ InputTypeOK' /\ ChildTypeOK' /\ CacheTypeOK' /\ CounterTypeOK'
  BY Frame DEF TypeOK, GetInferenceService, GetTenant, GetModel, ListSiblings,
               ListDeployments, ListPods
<1>2. QueueTypeOK'
  BY Frame DEF TypeOK, QueueTypeOK, GetInferenceService, GetTenant, GetModel, ListSiblings,
               ListDeployments, ListPods
<1>3. WorkerTypeOK'
  <2>1. ASSUME NEW n \in Names, GetInferenceService(n) PROVE WorkerTypeOK'
    <3>1. CASE SeenIsvc[n] = None
      BY <2>1, <3>1 DEF GetInferenceService, WorkerTypeOK
    <3>2. CASE SeenIsvc[n] # None
      <4>1. SeenIsvc[n] \in Isvcs /\ SeenIsvc[n].uid.name = n
        BY <3>2, SeenTypes DEF IsvcNamed
      <4>2. worker' = [pc |-> "getTenant", name |-> n, isvc |-> SeenIsvc[n], tenant |-> None,
                       model |-> None, fresh |-> "isvc" \notin Lag \/ n \notin events.isvc,
                       verdict |-> "Unset", available |-> FALSE]
        BY <2>1, <3>2 DEF GetInferenceService, Idle
      <4>3. worker' \in Busy
        BY <4>1, <4>2 DEF Busy
      <4> QED
        BY <3>2, <4>1, <4>2, <4>3 DEF WorkerTypeOK, HasTenant, HasModel
    <3> QED
      BY <3>1, <3>2
  <2>2. CASE GetTenant
    <3>1. worker # Idle
      BY <2>2 DEF GetTenant, Idle
    <3>2. CASE SeenTenant = None
      BY <2>2, <3>1, <3>2, FailType DEF GetTenant, Failures
    <3>3. CASE SeenTenant # None
      <4>1. /\ worker \in Busy /\ worker.isvc # None /\ worker.isvc.uid.name = worker.name
            /\ worker.verdict = "Unset" /\ SeenTenant \in TenantSpecs
        BY <2>2, <3>1, <3>3, SeenTypes DEF GetTenant, TypeOK, WorkerTypeOK
      <4>2. worker' = [worker EXCEPT !.pc = "getModel", !.tenant = SeenTenant]
        BY <2>2, <3>3 DEF GetTenant
      <4>3. worker' \in Busy
        BY <4>1, <4>2 DEF Busy, HasTenant
      <4>4. /\ worker'.isvc = worker.isvc /\ worker'.name = worker.name
            /\ worker'.verdict = "Unset" /\ worker'.tenant = SeenTenant
            /\ worker'.pc = "getModel"
        BY <4>1, <4>2 DEF Busy
      <4> QED
        BY <3>3, <4>1, <4>3, <4>4 DEF WorkerTypeOK, HasModel
    <3> QED
      BY <3>2, <3>3
  <2>3. CASE GetModel
    <3> DEFINE m == SeenModel[worker.isvc.spec.modelRef]
    <3>1. worker # Idle
      BY <2>3 DEF GetModel, Idle
    <3>2. CASE Invalid(worker.isvc.spec, m) # "Configured"
      BY <2>3, <3>1, <3>2, FailType, InvalidVerdict DEF GetModel
    <3>3. CASE Invalid(worker.isvc.spec, m) = "Configured"
      <4>1. /\ worker \in Busy /\ worker.isvc # None /\ worker.isvc.uid.name = worker.name
            /\ worker.verdict = "Unset" /\ worker.tenant # None
        BY <2>3, <3>1 DEF GetModel, TypeOK, WorkerTypeOK, HasTenant
      <4>2. m \in ModelSpecs /\ m # None /\ m.source # None
        <5>1. worker.isvc.spec.modelRef \in Models
          BY <4>1, ModelRefAssumption DEF Busy, Isvcs, AllSpecs
        <5> QED
          BY <3>3, <5>1, SeenTypes, InvalidVerdict
      <4>3. worker' = [worker EXCEPT !.pc = "listSiblings", !.model = m]
        BY <2>3, <3>3 DEF GetModel
      <4> HIDE DEF m
      <4>4. worker' \in Busy
        BY <4>1, <4>2, <4>3 DEF Busy, HasTenant
      <4>5. /\ worker'.isvc = worker.isvc /\ worker'.name = worker.name
            /\ worker'.verdict = "Unset" /\ worker'.tenant = worker.tenant
            /\ worker'.model = m /\ worker'.pc = "listSiblings"
        BY <4>1, <4>3 DEF Busy
      <4> QED
        BY <4>1, <4>2, <4>4, <4>5 DEF WorkerTypeOK
    <3> QED
      BY <3>2, <3>3
  <2>4. CASE ListSiblings
    BY <2>4, FailType, AdvanceType DEF ListSiblings, Idle, Failures, HasModel, HasTenant
  <2>5. CASE ListDeployments
    BY <2>5, FailType, AdvanceType DEF ListDeployments, Idle, Failures, HasModel, HasTenant
  <2>6. CASE ListPods
    BY <2>6, FailType, AdvanceType DEF ListPods, Idle, Failures, HasModel, HasTenant
  <2> QED
    BY <2>1, <2>2, <2>3, <2>4, <2>5, <2>6
<1> QED
  BY <1>1, <1>2, <1>3 DEF TypeOK

\* What the worker holds when it applies the children.
LEMMA ApplyingWorker ==
  ASSUME TypeOK, worker.pc \in HasModel
  PROVE  /\ worker \in Busy /\ worker # Idle
         /\ worker.name \in Names /\ worker.isvc \in Isvcs /\ worker.isvc # None
         /\ worker.isvc.uid.name = worker.name
         /\ worker.verdict = "Unset"
         /\ worker.tenant \in TenantSpecs
         /\ worker.model \in ModelSpecs /\ worker.model.source # None
<1>1. worker # Idle
  BY DEF Idle, HasModel, HasTenant
<1>2. worker \in Busy /\ worker.verdict = "Unset"
  BY <1>1 DEF TypeOK, WorkerTypeOK, HasModel, HasTenant
<1> QED
  BY <1>1, <1>2 DEF TypeOK, WorkerTypeOK, Busy, HasModel, HasTenant

\* An applied Deployment is a Deployment, under the CR's uid.
LEMMA AppliedType ==
  ASSUME TypeOK, worker.pc \in HasModel,
         NEW old \in Deployments \cup {None}
  PROVE  /\ Applied(old) \in Deployments
         /\ Applied(old).owner = worker.isvc.uid
         /\ Applied(old).template = Deployment(worker.isvc.spec, worker.model, worker.tenant)
         /\ Applied(old).available \in BOOLEAN
<1> DEFINE template == Deployment(worker.isvc.spec, worker.model, worker.tenant)
<1>1. worker.isvc.spec \in AllSpecs /\ worker.isvc.uid \in Uids
  BY ApplyingWorker DEF Isvcs
<1>2. template \in Templates
  BY <1>1, ApplyingWorker DEF Templates
<1>3. Applied(old) = [owner     |-> worker.isvc.uid,
                      template  |-> template,
                      available |-> old # None /\ old.available,
                      rolledOut |-> old # None /\ old.template = template /\ old.rolledOut]
  BY DEF Applied
<1> HIDE DEF template
<1>4. /\ (old # None /\ old.available) \in BOOLEAN
      /\ (old # None /\ old.template = template /\ old.rolledOut) \in BOOLEAN
  BY DEF Deployments
<1>5. Applied(old) \in Deployments
  BY <1>1, <1>2, <1>3, <1>4 DEF Deployments
<1> QED
  BY <1>3, <1>4, <1>5 DEF template

LEMMA ApplyTypeOK ==
  ASSUME TypeOK, ApplyConfigMap \/ ApplyDeployment \/ ApplyService
  PROVE  TypeOK'
<1>1. worker.pc \in HasModel
  BY DEF ApplyConfigMap, ApplyDeployment, ApplyService, HasModel, HasTenant
<1>2. /\ IsvcTypeOK' /\ InputTypeOK' /\ CacheTypeOK' /\ CounterTypeOK'
  BY Frame DEF TypeOK, ApplyConfigMap, ApplyDeployment, ApplyService
<1>3. CASE ApplyConfigMap
  <2>1. ChildTypeOK'
    BY <1>3 DEF TypeOK, ChildTypeOK, DeploymentNamed, ApplyConfigMap
  <2>2. QueueTypeOK'
    BY <1>3, Frame DEF TypeOK, ApplyConfigMap
  <2>3. WorkerTypeOK'
    BY <1>1, <1>3, ApplyingWorker, FailType, AdvanceType
       DEF ApplyConfigMap, Failures, HasModel, HasTenant
  <2> QED
    BY <1>2, <2>1, <2>2, <2>3 DEF TypeOK
<1>4. CASE ApplyDeployment
  <2> DEFINE n == worker.name
             old == deployment[n]
  <2>1. n \in Names /\ n \in DeploymentNames /\ old \in Deployments \cup {None}
    BY <1>1, ApplyingWorker DEF TypeOK, ChildTypeOK, DeploymentNames
  <2>2. /\ deployment' = [deployment EXCEPT ![n] = Applied(old)]
        /\ events' = IF Applied(old) = old THEN events
                     ELSE [events EXCEPT !.deployment = @ \cup {n}]
        /\ worker' = [worker EXCEPT !.pc = "applyService",
                                    !.available = Applied(old).available]
        /\ UNCHANGED <<queue, service, configMap>>
    BY <1>4 DEF ApplyDeployment
  <2>3. /\ Applied(old) \in Deployments /\ Applied(old).owner = worker.isvc.uid
        /\ Applied(old).available \in BOOLEAN
    BY <1>1, <2>1, AppliedType
  <2> HIDE DEF n, old
  <2>4. ChildTypeOK'
    <3>1. worker.isvc.uid.name = n
      BY <1>1, ApplyingWorker DEF n
    <3> QED
      BY <2>1, <2>2, <2>3, <3>1 DEF TypeOK, ChildTypeOK, DeploymentNamed
  <2>5. QueueTypeOK'
    BY <2>1, <2>2 DEF TypeOK, QueueTypeOK
  <2>6. WorkerTypeOK'
    <3>1. worker' \in Busy
      BY <1>1, <2>2, <2>3, ApplyingWorker DEF Busy, HasTenant
    <3>2. /\ worker'.isvc = worker.isvc /\ worker'.name = worker.name
          /\ worker'.verdict = worker.verdict /\ worker'.tenant = worker.tenant
          /\ worker'.model = worker.model /\ worker'.pc = "applyService"
      BY <1>1, <2>2, ApplyingWorker DEF Busy
    <3> QED
      BY <1>1, <3>1, <3>2, ApplyingWorker, AbsentAssumption DEF WorkerTypeOK
  <2> QED
    BY <1>2, <2>4, <2>5, <2>6 DEF TypeOK
<1>5. CASE ApplyService
  <2> DEFINE n == worker.name
  <2>1. n \in Names /\ worker.isvc.uid \in Uids
    BY <1>1, ApplyingWorker DEF Isvcs
  <2>2. CASE n \in Unservable
    <3>1. Requeue /\ UNCHANGED <<deployment, events, service, configMap>>
      BY <1>5, <2>2 DEF ApplyService
    <3>2. ChildTypeOK'
      BY <3>1, Frame DEF TypeOK, childVars
    <3> QED
      BY <1>1, <1>2, <3>1, <3>2, ApplyingWorker, RequeueType DEF TypeOK
  <2>3. CASE n \notin Unservable
    <3>1. /\ service' = [service EXCEPT ![n] = worker.isvc.uid]
          /\ events' = IF service[n] = worker.isvc.uid THEN events
                       ELSE [events EXCEPT !.service = @ \cup {n}]
          /\ worker' = [worker EXCEPT !.pc = "updateStatus", !.verdict = "Configured"]
          /\ UNCHANGED <<queue, deployment, configMap>>
      BY <1>5, <2>3 DEF ApplyService
    <3> HIDE DEF n
    <3>2. ChildTypeOK'
      BY <2>1, <3>1 DEF TypeOK, ChildTypeOK, DeploymentNamed
    <3>3. QueueTypeOK'
      BY <2>1, <3>1 DEF TypeOK, QueueTypeOK
    <3>4. WorkerTypeOK'
      <4>1. worker' \in Busy
        BY <1>1, <3>1, ApplyingWorker DEF Busy
      <4>2. /\ worker'.isvc = worker.isvc /\ worker'.name = worker.name
            /\ worker'.verdict = "Configured" /\ worker'.tenant = worker.tenant
            /\ worker'.model = worker.model /\ worker'.pc = "updateStatus"
        BY <1>1, <3>1, ApplyingWorker DEF Busy
      <4> QED
        BY <1>1, <4>1, <4>2, ApplyingWorker, AbsentAssumption DEF WorkerTypeOK
    <3> QED
      BY <1>2, <3>2, <3>3, <3>4 DEF TypeOK
  <2> QED
    BY <2>2, <2>3
<1> QED
  BY <1>3, <1>4, <1>5

\* The status Reconcile writes is a status.
LEMMA NewStatusType ==
  ASSUME TypeOK, worker.pc = "updateStatus"
  PROVE  /\ worker \in Busy /\ worker # Idle
         /\ NewStatus(worker) \in Status
<1>1. worker # Idle /\ worker \in Busy
  BY DEF TypeOK, WorkerTypeOK, Idle
<1>2. /\ worker.isvc \in Isvcs /\ worker.isvc.generation \in Nat
      /\ worker.isvc.status \in Status /\ worker.isvc.spec \in AllSpecs
  BY <1>1 DEF Busy, Isvcs
<1>3. CASE worker.verdict = "Configured"
  <2>1. worker.tenant \in TenantSpecs /\ worker.model \in ModelSpecs
    BY <1>1, <1>3 DEF TypeOK, WorkerTypeOK, Busy, Idle
  <2>2. [initDataHash |-> InitDataHash(worker.tenant.initData),
         image        |-> worker.tenant.defaultImage,
         servedName   |-> ServedModelName(worker.isvc.spec.modelRef, worker.model)]
        \in AppliedConfigs
    BY <1>2, <2>1 DEF AppliedConfigs
  <2>3. ReadyStatus(worker.isvc, worker.model, worker.tenant, worker.available) \in Status
    BY <1>2, <2>2 DEF ReadyStatus, Status, Reasons
  <2> QED
    BY <1>1, <1>3, <2>3 DEF NewStatus
<1>4. CASE worker.verdict # "Configured"
  <2>1. worker.verdict \in Failures
    BY <1>1, <1>4 DEF TypeOK, WorkerTypeOK, Busy, Idle
  <2>2. worker.verdict \in Reasons
    BY <2>1 DEF Reasons
  <2>3. FailedStatus(worker.isvc, worker.verdict) \in Status
    BY <1>2, <2>2 DEF FailedStatus, Status
  <2> QED
    BY <1>1, <1>4, <2>3 DEF NewStatus
<1> QED
  BY <1>3, <1>4

(***************************************************************************)
(* A status update is typed only because it is applied to the object that  *)
(* was read.  Optimistic concurrency needs two facts to be inductive: the  *)
(* cache has the live CR where no event is on its way, and a copy that is  *)
(* still fresh is the live CR.                                             *)
(***************************************************************************)
CacheFresh == "isvc" \in Lag => \A n \in Names : n \notin events.isvc => cache.isvc[n] = isvc[n]

CopyFresh == worker # Idle /\ worker.fresh => isvc[worker.name] = worker.isvc

TypeInv == TypeOK /\ CacheFresh /\ CopyFresh

LEMMA UpdateStatusTypeOK ==
  ASSUME TypeInv, UpdateStatus
  PROVE  TypeOK'
<1> USE DEF TypeInv
<1>1. /\ InputTypeOK' /\ ChildTypeOK' /\ CacheTypeOK' /\ CounterTypeOK'
  BY Frame DEF TypeOK, UpdateStatus
<1>2. worker # Idle /\ worker.name \in Names
  BY NewStatusType DEF UpdateStatus, Busy
<1>3. CASE ~worker.fresh
  <2>1. Requeue /\ UNCHANGED <<isvc, events>>
    BY <1>3 DEF UpdateStatus
  <2> QED
    BY <1>1, <1>2, <2>1, RequeueType, Frame DEF TypeOK
<1>4. CASE worker.fresh
  <2> DEFINE n == worker.name
  <2>1. /\ isvc' = [isvc EXCEPT ![n].status = NewStatus(worker)]
        /\ events' = IF NewStatus(worker) = worker.isvc.status THEN events
                     ELSE [events EXCEPT !.isvc = @ \cup {n}]
        /\ worker' = Idle
        /\ UNCHANGED queue
    BY <1>4 DEF UpdateStatus
  <2>2. NewStatus(worker) \in Status
    BY NewStatusType DEF UpdateStatus
  <2>3. isvc[n] \in Isvcs /\ isvc[n].uid.name = n
    BY <1>2, <1>4 DEF CopyFresh, TypeOK, WorkerTypeOK, Busy
  <2>4. [isvc[n] EXCEPT !.status = NewStatus(worker)] \in Isvcs
    BY <2>2, <2>3 DEF Isvcs
  <2>5. isvc'[n] = [isvc[n] EXCEPT !.status = NewStatus(worker)]
    BY <1>2, <2>1 DEF TypeOK, IsvcTypeOK
  <2>6. isvc'[n].uid = isvc[n].uid
    BY <2>3, <2>5 DEF Isvcs
  <2>10. n \in Names
    BY <1>2
  <2> HIDE DEF n
  <2>7. IsvcTypeOK'
    BY <2>10, <2>1, <2>3, <2>4, <2>5, <2>6 DEF TypeOK, IsvcTypeOK, IsvcNamed
  <2>8. QueueTypeOK'
    BY <2>10, <2>1 DEF TypeOK, QueueTypeOK
  <2>9. WorkerTypeOK'
    BY <2>1 DEF WorkerTypeOK
  <2> QED
    BY <1>1, <2>7, <2>8, <2>9 DEF TypeOK
<1> QED
  BY <1>3, <1>4

LEMMA InformTypeOK ==
  ASSUME TypeOK, Inform
  PROVE  TypeOK'
<1>1. /\ IsvcTypeOK' /\ InputTypeOK' /\ ChildTypeOK' /\ WorkerTypeOK' /\ CounterTypeOK'
  BY Frame DEF TypeOK, Inform, InformIsvc, InformTenant, InformModel, InformDeployment,
               InformService, InformPod
<1>2. CacheTypeOK'
  <2>1. CASE InformIsvc
    BY <2>1 DEF TypeOK, IsvcTypeOK, CacheTypeOK, InformIsvc, Refresh, IsvcNamed, DeploymentNamed
  <2>2. CASE InformTenant
    BY <2>2 DEF TypeOK, InputTypeOK, CacheTypeOK, InformTenant, Refresh, IsvcNamed, DeploymentNamed
  <2>3. CASE InformModel
    BY <2>3 DEF TypeOK, InputTypeOK, CacheTypeOK, InformModel, Refresh, IsvcNamed, DeploymentNamed
  <2>4. CASE InformDeployment
    BY <2>4 DEF TypeOK, ChildTypeOK, CacheTypeOK, InformDeployment, Refresh, IsvcNamed, DeploymentNamed
  <2>5. CASE InformService
    BY <2>5, Frame DEF TypeOK, InformService
  <2>6. CASE InformPod
    BY <2>6 DEF TypeOK, InputTypeOK, CacheTypeOK, InformPod, Refresh, IsvcNamed, DeploymentNamed
  <2> QED
    BY <2>1, <2>2, <2>3, <2>4, <2>5, <2>6 DEF Inform
<1>3. QueueTypeOK'
  <2>1. CASE InformIsvc
    BY <2>1 DEF TypeOK, QueueTypeOK, InformIsvc, ownRequests
  <2>2. CASE InformTenant
    BY <2>2 DEF TypeOK, QueueTypeOK, InformTenant, allServices
  <2>3. CASE InformModel
    BY <2>3 DEF TypeOK, QueueTypeOK, InformModel, servicesForModel
  <2>4. CASE InformDeployment
    BY <2>4 DEF TypeOK, QueueTypeOK, InformDeployment, ownersOfDeployments
  <2>5. CASE InformService
    BY <2>5 DEF TypeOK, QueueTypeOK, InformService
  <2>6. CASE InformPod
    BY <2>6, Frame DEF TypeOK, InformPod
  <2> QED
    BY <2>1, <2>2, <2>3, <2>4, <2>5, <2>6 DEF Inform
<1> QED
  BY <1>1, <1>2, <1>3 DEF TypeOK

\* Outdate only clears the worker's fresh flag.
LEMMA OutdateType ==
  ASSUME TypeOK, NEW n, Outdate(n)
  PROVE  /\ WorkerTypeOK'
         /\ worker # Idle <=> worker' # Idle
         /\ worker # Idle => /\ worker'.pc = worker.pc /\ worker'.name = worker.name
                             /\ worker'.isvc = worker.isvc
                             /\ worker'.fresh => worker.name # n /\ worker.fresh
<1>1. CASE worker.name # n
  BY <1>1, Frame DEF Outdate, TypeOK
<1>2. CASE worker = Idle /\ worker.name = n
  <2>1. worker' = Idle
    BY <1>2 DEF Outdate, Idle
  <2> QED
    BY <1>2, <2>1 DEF WorkerTypeOK
<1>3. CASE worker # Idle /\ worker.name = n
  <2>1. worker \in Busy /\ worker' = [worker EXCEPT !.fresh = FALSE]
    BY <1>3 DEF TypeOK, WorkerTypeOK, Outdate
  <2>2. worker' \in Busy
    BY <2>1 DEF Busy
  <2>3. /\ worker'.pc = worker.pc /\ worker'.name = worker.name /\ worker'.isvc = worker.isvc
        /\ worker'.verdict = worker.verdict /\ worker'.tenant = worker.tenant
        /\ worker'.model = worker.model /\ ~worker'.fresh
    BY <2>1 DEF Busy
  <2>4. worker' # Idle
    BY <2>1, <2>3 DEF Idle, Busy, HasTenant
  <2> QED
    BY <1>3, <2>2, <2>3, <2>4 DEF TypeOK, WorkerTypeOK
<1> QED
  BY <1>1, <1>2, <1>3

LEMMA OperationType ==
  ASSUME TypeOK, UNCHANGED <<clock, serial>>, NEW o, UNCHANGED ops \/ Operation(o)
  PROVE  CounterTypeOK'
BY BoundAssumption DEF TypeOK, CounterTypeOK, Operation

\* Users write CRs; whoever holds a copy is outdated.
LEMMA UserIsvcTypeOK ==
  ASSUME TypeOK, NEW n \in Names,
         \/ \E spec \in Specs[n], second \in {clock, clock + 1} :
              CreateInferenceService(n, spec, second)
         \/ \E spec \in Specs[n] : EditInferenceService(n, spec)
         \/ AnnotateInferenceService(n)
         \/ DeleteInferenceService(n)
  PROVE  TypeOK'
<1>1. InputTypeOK' /\ ChildTypeOK' /\ CacheTypeOK'
  BY Frame DEF TypeOK, CreateInferenceService, EditInferenceService,
               AnnotateInferenceService, DeleteInferenceService
<1>2. QueueTypeOK'
  BY DEF TypeOK, QueueTypeOK, CreateInferenceService, EditInferenceService,
         AnnotateInferenceService, DeleteInferenceService
<1>3. CounterTypeOK'
  <2>1. ASSUME NEW spec \in Specs[n], NEW second \in {clock, clock + 1},
               CreateInferenceService(n, spec, second)
        PROVE  CounterTypeOK'
    BY <2>1, BoundAssumption DEF TypeOK, CounterTypeOK, CreateInferenceService
  <2>2. ASSUME UNCHANGED <<clock, serial>>, NEW o, Operation(o) PROVE CounterTypeOK'
    BY <2>2, OperationType
  <2> QED
    BY <2>1, <2>2 DEF EditInferenceService, AnnotateInferenceService, DeleteInferenceService
<1>4. WorkerTypeOK'
  <2>1. UNCHANGED worker => WorkerTypeOK'
    BY Frame DEF TypeOK
  <2>2. Outdate(n) => WorkerTypeOK'
    BY OutdateType
  <2> QED
    BY <2>1, <2>2 DEF CreateInferenceService, EditInferenceService,
                      AnnotateInferenceService, DeleteInferenceService
<1>5. IsvcTypeOK'
  <2>1. ASSUME NEW spec \in Specs[n], NEW second \in {clock, clock + 1},
               CreateInferenceService(n, spec, second)
        PROVE  IsvcTypeOK'
    <3> DEFINE new == [uid |-> Uid(n, serial + 1), created |-> second,
                       generation |-> 1, spec |-> spec, status |-> NoStatus]
    <3>1. new \in Isvcs /\ new.uid.name = n
      <4>1. NoStatus \in Status
        BY DEF NoStatus, Status, Reasons
      <4>2. Uid(n, serial + 1) \in Uids /\ Uid(n, serial + 1).name = n
        BY DEF TypeOK, CounterTypeOK, Uid, Uids
      <4>3. spec \in AllSpecs /\ second \in Nat
        BY DEF AllSpecs, TypeOK, CounterTypeOK
      <4> QED
        BY <4>1, <4>2, <4>3 DEF Isvcs
    <3>2. isvc' = [isvc EXCEPT ![n] = new]
      BY <2>1 DEF CreateInferenceService
    <3> HIDE DEF new
    <3> QED
      BY <3>1, <3>2 DEF TypeOK, IsvcTypeOK, IsvcNamed
  <2>2. ASSUME NEW spec \in Specs[n], EditInferenceService(n, spec) PROVE IsvcTypeOK'
    <3> DEFINE new == [isvc[n] EXCEPT !.spec = spec, !.generation = isvc[n].generation + 1]
    <3>1. isvc[n] \in Isvcs /\ isvc[n].uid.name = n /\ spec \in AllSpecs
      BY <2>2 DEF EditInferenceService, TypeOK, IsvcTypeOK, IsvcNamed, AllSpecs
    <3>2. isvc[n].generation + 1 \in Nat
      BY <3>1 DEF Isvcs
    <3>3. new \in Isvcs /\ new.uid = isvc[n].uid
      BY <3>1, <3>2 DEF Isvcs
    <3>4. isvc' = [isvc EXCEPT ![n] = new]
      BY <2>2 DEF EditInferenceService
    <3> HIDE DEF new
    <3> QED
      BY <3>1, <3>3, <3>4 DEF TypeOK, IsvcTypeOK, IsvcNamed
  <2>3. CASE AnnotateInferenceService(n)
    BY <2>3, Frame DEF TypeOK, AnnotateInferenceService
  <2>4. CASE DeleteInferenceService(n)
    BY <2>4 DEF TypeOK, IsvcTypeOK, IsvcNamed, DeleteInferenceService
  <2> QED
    BY <2>1, <2>2, <2>3, <2>4
<1> QED
  BY <1>1, <1>2, <1>3, <1>4, <1>5 DEF TypeOK

\* A Deployment is replaced by one of its name.
LEMMA ChildChange ==
  ASSUME TypeOK, NEW d \in DeploymentNames, NEW new \in Deployments \cup {None},
         new # None /\ new.owner # None => new.owner.name = d,
         deployment' = [deployment EXCEPT ![d] = new], UNCHANGED <<service, configMap>>
  PROVE  ChildTypeOK'
BY DEF TypeOK, ChildTypeOK, DeploymentNamed

\* A change that is only to be delivered keeps the queues' type.
LEMMA EventType ==
  ASSUME TypeOK, UNCHANGED queue, NEW n \in Names,
         \/ UNCHANGED events
         \/ events' = [events EXCEPT !.deployment = @ \cup {n}]
         \/ events' = [events EXCEPT !.service = @ \cup {n}]
  PROVE  QueueTypeOK'
BY DEF TypeOK, QueueTypeOK

\* Users change the inputs of a render.
LEMMA InputChangeTypeOK ==
  ASSUME TypeOK,
         \/ \E t \in TenantSpecs \cup {None} : ChangeTenant(t)
         \/ \E m \in Models, spec \in ModelSpecs \cup {None} : ChangeModel(m, spec)
         \/ \E c \in Claims : RetirePod(c)
  PROVE  TypeOK'
<1>1. IsvcTypeOK' /\ ChildTypeOK' /\ CacheTypeOK' /\ WorkerTypeOK'
  BY Frame DEF TypeOK, ChangeTenant, ChangeModel, RetirePod
<1>2. CounterTypeOK'
  BY OperationType DEF ChangeTenant, ChangeModel, RetirePod
<1>3. InputTypeOK' /\ QueueTypeOK'
  <2>1. ASSUME NEW t \in TenantSpecs \cup {None}, ChangeTenant(t)
        PROVE  InputTypeOK' /\ QueueTypeOK'
    BY <2>1 DEF TypeOK, InputTypeOK, QueueTypeOK, ChangeTenant
  <2>2. ASSUME NEW m \in Models, NEW spec \in ModelSpecs \cup {None}, ChangeModel(m, spec)
        PROVE  InputTypeOK' /\ QueueTypeOK'
    BY <2>2 DEF TypeOK, InputTypeOK, QueueTypeOK, ChangeModel
  <2>3. ASSUME NEW c \in Claims, RetirePod(c)
        PROVE  InputTypeOK' /\ QueueTypeOK'
    BY <2>3 DEF TypeOK, InputTypeOK, QueueTypeOK, RetirePod
  <2> QED
    BY <2>1, <2>2, <2>3
<1> QED
  BY <1>1, <1>2, <1>3 DEF TypeOK

\* A Deployment or a Service goes.
LEMMA RemovalTypeOK ==
  ASSUME TypeOK,
         \/ \E n \in Names : \/ DriftDeployment(n) \/ CollectDeployment(n)
                             \/ DriftService(n) \/ CollectService(n)
         \/ \E d \in DeploymentNames : RetireDeployment(d)
  PROVE  TypeOK'
<1>1. IsvcTypeOK' /\ InputTypeOK' /\ CacheTypeOK' /\ WorkerTypeOK'
  BY Frame DEF TypeOK, DriftDeployment, CollectDeployment, DriftService, CollectService,
               RetireDeployment
<1>2. CounterTypeOK'
  BY OperationType, Frame DEF TypeOK, envVars, DriftDeployment, CollectDeployment, DriftService,
     CollectService, RetireDeployment
<1>3. QueueTypeOK'
  BY EventType, Frame DEF TypeOK, DriftDeployment, CollectDeployment, DriftService,
     CollectService, RetireDeployment
<1>4. ChildTypeOK'
  <2>1. ASSUME NEW d \in DeploymentNames, deployment' = [deployment EXCEPT ![d] = None],
               UNCHANGED <<service, configMap>>
        PROVE  ChildTypeOK'
    BY <2>1, ChildChange
  <2>2. ASSUME NEW n \in Names, service' = [service EXCEPT ![n] = None],
               UNCHANGED <<deployment, configMap>>
        PROVE  ChildTypeOK'
    BY <2>2 DEF TypeOK, ChildTypeOK, DeploymentNamed
  <2> QED
    BY <2>1, <2>2 DEF DeploymentNames, DriftDeployment, CollectDeployment, DriftService,
                      CollectService, RetireDeployment
<1> QED
  BY <1>1, <1>2, <1>3, <1>4 DEF TypeOK

\* The Deployment controller changes a Deployment's status only.
LEMMA StatusOfDeployment ==
  ASSUME TypeOK, NEW n \in Names, RollOut(n) \/ BecomeAvailable(n) \/ FailPod(n)
  PROVE  \E new \in Deployments : /\ deployment' = [deployment EXCEPT ![n] = new]
                                  /\ deployment[n] # None
                                  /\ new.owner = deployment[n].owner
                                  /\ new.template = deployment[n].template
<1>1. deployment[n] \in Deployments /\ deployment[n] # None
  BY DEF TypeOK, ChildTypeOK, DeploymentNames, RollOut, BecomeAvailable, FailPod
<1>2. CASE RollOut(n)
  <2> DEFINE new == [deployment[n] EXCEPT !.rolledOut = TRUE, !.available = FALSE]
  <2>1. /\ new \in Deployments /\ new.owner = deployment[n].owner
        /\ new.template = deployment[n].template
    BY <1>1 DEF Deployments
  <2>2. deployment' = [deployment EXCEPT ![n] = new]
    BY <1>2 DEF RollOut
  <2> QED
    BY <1>1, <2>1, <2>2
<1>3. CASE BecomeAvailable(n)
  <2> DEFINE new == [deployment[n] EXCEPT !.available = TRUE]
  <2>1. /\ new \in Deployments /\ new.owner = deployment[n].owner
        /\ new.template = deployment[n].template
    BY <1>1 DEF Deployments
  <2>2. deployment' = [deployment EXCEPT ![n] = new]
    BY <1>3 DEF BecomeAvailable
  <2> QED
    BY <1>1, <2>1, <2>2
<1>4. CASE FailPod(n)
  <2> DEFINE new == [deployment[n] EXCEPT !.available = FALSE]
  <2>1. /\ new \in Deployments /\ new.owner = deployment[n].owner
        /\ new.template = deployment[n].template
    BY <1>1 DEF Deployments
  <2>2. deployment' = [deployment EXCEPT ![n] = new]
    BY <1>4 DEF FailPod
  <2> QED
    BY <1>1, <2>1, <2>2
<1> QED
  BY <1>2, <1>3, <1>4

LEMMA RolloutTypeOK ==
  ASSUME TypeOK, NEW n \in Names, RollOut(n) \/ BecomeAvailable(n) \/ FailPod(n)
  PROVE  TypeOK'
<1>1. IsvcTypeOK' /\ InputTypeOK' /\ CacheTypeOK' /\ WorkerTypeOK'
  BY Frame DEF TypeOK, RollOut, BecomeAvailable, FailPod
<1>2. CounterTypeOK'
  BY OperationType, Frame DEF TypeOK, envVars, RollOut, BecomeAvailable, FailPod
<1>3. QueueTypeOK'
  BY EventType DEF RollOut, BecomeAvailable, FailPod
<1>4. ChildTypeOK'
  <2>1. PICK new \in Deployments : /\ deployment' = [deployment EXCEPT ![n] = new]
                                   /\ deployment[n] # None
                                   /\ new.owner = deployment[n].owner
    BY StatusOfDeployment
  <2>2. UNCHANGED <<service, configMap>>
    BY DEF RollOut, BecomeAvailable, FailPod
  <2>3. n \in DeploymentNames /\ (new.owner # None => new.owner.name = n)
    BY <2>1 DEF TypeOK, ChildTypeOK, DeploymentNamed, DeploymentNames
  <2> QED
    BY <2>1, <2>2, <2>3, ChildChange
<1> QED
  BY <1>1, <1>2, <1>3, <1>4 DEF TypeOK

\* The process restarts, or one of its calls fails.
LEMMA FailureTypeOK ==
  ASSUME TypeOK, Restart \/ ApiError
  PROVE  TypeOK'
<1>1. IsvcTypeOK' /\ InputTypeOK' /\ ChildTypeOK'
  BY Frame DEF TypeOK, Restart, ApiError
<1>2. CounterTypeOK'
  BY OperationType DEF Restart, ApiError
<1>3. CASE ApiError
  BY <1>1, <1>2, <1>3, RequeueType, Frame DEF TypeOK, ApiError, Idle
<1>4. CASE Restart
  <2>1. WorkerTypeOK'
    BY <1>4 DEF Restart, WorkerTypeOK
  <2>2. QueueTypeOK'
    BY <1>4 DEF Restart, QueueTypeOK, NoEvents
  <2>3. CacheTypeOK'
    BY <1>4 DEF TypeOK, IsvcTypeOK, InputTypeOK, ChildTypeOK, CacheTypeOK, IsvcNamed,
                DeploymentNamed, Restart
  <2> QED
    BY <1>1, <1>2, <2>1, <2>2, <2>3 DEF TypeOK
<1> QED
  BY <1>3, <1>4

(***************************************************************************)
(* The two facts about freshness are preserved.                            *)
(***************************************************************************)

\* A step that leaves the CRs and their cache alone, and forgets no event.
LEMMA CacheFrame ==
  ASSUME CacheFresh, UNCHANGED isvc, cache'.isvc = cache.isvc,
         events.isvc \subseteq events'.isvc
  PROVE  CacheFresh'
BY DEF CacheFresh

\* A step that leaves the CRs and the worker's copy alone.
LEMMA CopyFrame ==
  ASSUME CopyFresh, UNCHANGED isvc,
         worker' # Idle => /\ worker # Idle /\ worker'.name = worker.name
                           /\ worker'.isvc = worker.isvc /\ worker'.fresh = worker.fresh
  PROVE  CopyFresh'
BY DEF CopyFresh

\* The worker keeps its copy from the second call of Reconcile to the last.
LEMMA CopyKept ==
  ASSUME TypeOK,
         \/ GetTenant \/ GetModel \/ ListSiblings \/ ListDeployments \/ ListPods
         \/ ApplyConfigMap \/ ApplyDeployment \/ ApplyService
  PROVE  /\ UNCHANGED <<isvc, cache>> /\ events'.isvc = events.isvc
         /\ worker # Idle
         /\ worker' # Idle => /\ worker'.name = worker.name /\ worker'.isvc = worker.isvc
                              /\ worker'.fresh = worker.fresh
<1>1. worker # Idle
  BY DEF Idle, GetTenant, GetModel, ListSiblings, ListDeployments, ListPods, ApplyConfigMap,
         ApplyDeployment, ApplyService
<1>2. worker \in Busy
  BY <1>1 DEF TypeOK, WorkerTypeOK
<1>3. UNCHANGED <<isvc, cache>> /\ events'.isvc = events.isvc
  BY DEF TypeOK, QueueTypeOK, GetTenant, GetModel, ListSiblings, ListDeployments, ListPods,
         ApplyConfigMap, ApplyDeployment, ApplyService
<1>4. /\ worker'.name = worker.name /\ worker'.isvc = worker.isvc /\ worker'.fresh = worker.fresh
      \/ worker' = Idle
  <2>1. CASE GetTenant
    BY <1>2, <2>1 DEF GetTenant, Fail, Busy
  <2>2. CASE GetModel
    BY <1>2, <2>2 DEF GetModel, Fail, Busy
  <2>3. CASE ListSiblings \/ ListDeployments \/ ListPods
    BY <1>2, <2>3 DEF ListSiblings, ListDeployments, ListPods, Fail, Busy
  <2>4. CASE ApplyConfigMap
    BY <1>2, <2>4 DEF ApplyConfigMap, Fail, Busy
  <2>5. CASE ApplyDeployment
    BY <1>2, <2>5 DEF ApplyDeployment, Requeue, Busy
  <2>6. CASE ApplyService
    BY <1>2, <2>6 DEF ApplyService, Requeue, Busy
  <2> QED
    BY <2>1, <2>2, <2>3, <2>4, <2>5, <2>6
<1> QED
  BY <1>1, <1>3, <1>4

LEMMA ReconcileFresh ==
  ASSUME TypeInv, Reconcile
  PROVE  CacheFresh' /\ CopyFresh'
<1> USE DEF TypeInv
<1>1. ASSUME NEW n \in Names, GetInferenceService(n) PROVE CacheFresh' /\ CopyFresh'
  <2>1. CacheFresh'
    BY <1>1, CacheFrame DEF GetInferenceService
  <2>2. CASE SeenIsvc[n] = None
    BY <1>1, <2>1, <2>2 DEF GetInferenceService, CopyFresh
  <2>3. CASE SeenIsvc[n] # None
    <3>1. /\ worker'.name = n /\ worker'.isvc = SeenIsvc[n]
          /\ worker'.fresh = ("isvc" \notin Lag \/ n \notin events.isvc)
          /\ UNCHANGED isvc
      BY <1>1, <2>3 DEF GetInferenceService, Idle
    <3>2. worker'.fresh => SeenIsvc[n] = isvc[n]
      BY <3>1 DEF CacheFresh, SeenIsvc
    <3> QED
      BY <2>1, <3>1, <3>2 DEF CopyFresh
  <2> QED
    BY <2>2, <2>3
<1>2. ASSUME \/ GetTenant \/ GetModel \/ ListSiblings \/ ListDeployments \/ ListPods
             \/ ApplyConfigMap \/ ApplyDeployment \/ ApplyService
      PROVE  CacheFresh' /\ CopyFresh'
  BY <1>2, CopyKept, CacheFrame, CopyFrame
<1>3. CASE UpdateStatus
  <2>1. worker' = Idle /\ UNCHANGED cache /\ worker # Idle /\ worker \in Busy
    BY <1>3, NewStatusType DEF UpdateStatus, Requeue
  <2>2. CopyFresh'
    BY <2>1 DEF CopyFresh
  <2>3. CASE UNCHANGED <<isvc, events>>
    BY <2>1, <2>2, <2>3, CacheFrame
  <2>4. CASE /\ worker.fresh
             /\ isvc' = [isvc EXCEPT ![worker.name].status = NewStatus(worker)]
             /\ NewStatus(worker) = worker.isvc.status /\ UNCHANGED events
    <3>1. isvc[worker.name] = worker.isvc /\ worker.isvc \in Isvcs
      BY <2>1, <2>4 DEF CopyFresh, Busy
    <3>2. [isvc[worker.name] EXCEPT !.status = NewStatus(worker)] = isvc[worker.name]
      BY <2>4, <3>1 DEF Isvcs
    <3>3. isvc' = isvc
      BY <2>4, <3>2 DEF TypeOK, IsvcTypeOK
    <3> QED
      BY <2>1, <2>2, <2>4, <3>3, CacheFrame
  <2>5. CASE /\ isvc' = [isvc EXCEPT ![worker.name].status = NewStatus(worker)]
             /\ events' = [events EXCEPT !.isvc = @ \cup {worker.name}]
    <3>1. \A n \in Names : n \notin events'.isvc => n \notin events.isvc /\ isvc'[n] = isvc[n]
      BY <2>5 DEF TypeOK, IsvcTypeOK, QueueTypeOK
    <3> QED
      BY <2>1, <2>2, <3>1 DEF CacheFresh
  <2> QED
    BY <1>3, <2>3, <2>4, <2>5 DEF UpdateStatus
<1> QED
  BY <1>1, <1>2, <1>3 DEF Reconcile

LEMMA UserFresh ==
  ASSUME TypeInv, NEW n \in Names,
         \/ \E spec \in Specs[n], second \in {clock, clock + 1} :
              CreateInferenceService(n, spec, second)
         \/ \E spec \in Specs[n] : EditInferenceService(n, spec)
         \/ AnnotateInferenceService(n)
         \/ DeleteInferenceService(n)
  PROVE  CacheFresh' /\ CopyFresh'
<1> USE DEF TypeInv
<1>1. /\ UNCHANGED cache
      /\ events' = [events EXCEPT !.isvc = @ \cup {n}]
      /\ \A o \in Names \ {n} : isvc'[o] = isvc[o]
  BY DEF TypeOK, IsvcTypeOK, CreateInferenceService, EditInferenceService,
         AnnotateInferenceService, DeleteInferenceService
<1>2. CacheFresh'
  <2>1. \A o \in Names : o \notin events'.isvc => o \notin events.isvc /\ o # n
    BY <1>1 DEF TypeOK, QueueTypeOK
  <2> QED
    BY <1>1, <2>1 DEF CacheFresh
<1>3. worker # Idle => worker.name \in Names
  BY DEF TypeOK, WorkerTypeOK, Busy
<1>4. CASE Outdate(n)
  BY <1>1, <1>2, <1>3, <1>4, OutdateType DEF CopyFresh
<1>5. CASE isvc[n] = None /\ UNCHANGED worker
  <2>1. worker # Idle /\ worker.fresh => worker.name # n
    BY <1>5 DEF CopyFresh, TypeOK, WorkerTypeOK
  <2> QED
    BY <1>1, <1>2, <1>3, <1>5, <2>1 DEF CopyFresh
<1> QED
  BY <1>4, <1>5 DEF CreateInferenceService, EditInferenceService,
                    AnnotateInferenceService, DeleteInferenceService

LEMMA InformFresh ==
  ASSUME TypeInv, Inform
  PROVE  CacheFresh' /\ CopyFresh'
<1> USE DEF TypeInv
<1>1. UNCHANGED <<isvc, worker>>
  BY DEF Inform, InformIsvc, InformTenant, InformModel, InformDeployment, InformService, InformPod
<1>2. CopyFresh'
  BY <1>1, CopyFrame
<1>3. CASE InformIsvc
  <2>1. "isvc" \in Lag => cache'.isvc = isvc
    BY <1>3 DEF InformIsvc, Refresh, TypeOK, CacheTypeOK
  <2> QED
    BY <1>1, <1>2, <2>1 DEF CacheFresh
<1>4. CASE InformTenant \/ InformModel \/ InformDeployment \/ InformService \/ InformPod
  <2>1. cache'.isvc = cache.isvc
    BY <1>4 DEF InformTenant, InformModel, InformDeployment, InformService, InformPod, Refresh,
                TypeOK, CacheTypeOK
  <2>2. events'.isvc = events.isvc
    BY <1>4 DEF InformTenant, InformModel, InformDeployment, InformService, InformPod,
                TypeOK, QueueTypeOK
  <2> QED
    BY <1>1, <1>2, <2>1, <2>2, CacheFrame
<1> QED
  BY <1>3, <1>4 DEF Inform

\* Everything that happens to other objects than the CRs.
LEMMA OtherFresh ==
  ASSUME TypeInv,
         \/ \E n \in Names : DriftDeployment(n) \/ DriftService(n)
         \/ \E t \in TenantSpecs \cup {None} : ChangeTenant(t)
         \/ \E m \in Models, spec \in ModelSpecs \cup {None} : ChangeModel(m, spec)
         \/ \E d \in DeploymentNames : RetireDeployment(d)
         \/ \E c \in Claims : RetirePod(c)
         \/ Kubernetes
  PROVE  CacheFresh' /\ CopyFresh'
<1> USE DEF TypeInv
<1>1. UNCHANGED <<isvc, worker, cache>>
  BY DEF DriftDeployment, DriftService, ChangeTenant, ChangeModel, RetireDeployment, RetirePod,
         Kubernetes, CollectDeployment, CollectService, RollOut, BecomeAvailable, FailPod
<1>2. events'.isvc = events.isvc
  BY DEF TypeOK, QueueTypeOK, DriftDeployment, DriftService, ChangeTenant, ChangeModel,
         RetireDeployment, RetirePod, Kubernetes, CollectDeployment, CollectService, RollOut,
         BecomeAvailable, FailPod
<1> QED
  BY <1>1, <1>2, CacheFrame, CopyFrame

LEMMA FailureFresh ==
  ASSUME TypeInv, Restart \/ ApiError
  PROVE  CacheFresh' /\ CopyFresh'
<1> USE DEF TypeInv
<1>1. worker' = Idle /\ UNCHANGED isvc
  BY DEF Restart, ApiError, Requeue
<1>2. CopyFresh'
  BY <1>1 DEF CopyFresh
<1>3. CASE ApiError
  BY <1>1, <1>2, <1>3, CacheFrame DEF ApiError
<1>4. CASE Restart
  BY <1>1, <1>2, <1>4 DEF Restart, CacheFresh
<1> QED
  BY <1>3, <1>4

\* The inductive step.
LEMMA TypeInvStep ==
  ASSUME TypeInv, [Next]_vars
  PROVE  TypeInv'
<1>1. CASE Reconcile
  <2>1. TypeOK'
    BY <1>1, ReadTypeOK, ApplyTypeOK, UpdateStatusTypeOK DEF Reconcile, TypeInv
  <2> QED
    BY <1>1, <2>1, ReconcileFresh DEF TypeInv
<1>2. CASE Inform
  BY <1>2, InformTypeOK, InformFresh DEF TypeInv
<1>3. CASE User
  BY <1>3, UserIsvcTypeOK, UserFresh, InputChangeTypeOK, RemovalTypeOK, OtherFresh
     DEF User, TypeInv
<1>4. CASE Kubernetes
  BY <1>4, RemovalTypeOK, RolloutTypeOK, OtherFresh DEF Kubernetes, TypeInv
<1>5. CASE Restart \/ ApiError
  BY <1>5, FailureTypeOK, FailureFresh DEF TypeInv
<1>6. CASE UNCHANGED vars
  <2>1. TypeOK'
    BY <1>6, Frame DEF TypeInv, TypeOK, vars, inputVars, childVars, envVars
  <2> QED
    BY <1>6, <2>1 DEF TypeInv, CacheFresh, CopyFresh, vars
<1> QED
  BY <1>1, <1>2, <1>3, <1>4, <1>5, <1>6 DEF Next

LEMMA TypeInvInvariant == Spec => []TypeInv
<1>1. Init => TypeInv
  <2>1. Init => CacheFresh /\ CopyFresh
    BY DEF Init, CacheFresh, CopyFresh
  <2> QED
    BY <2>1, InitTypeOK DEF TypeInv
<1> QED
  BY <1>1, TypeInvStep, PTL DEF Spec

(***************************************************************************)
(* TypeOK is an invariant for every set of names, models, specs and claims *)
(* and any lag of the informers: no call of Reconcile works on a tenant or *)
(* a model that was not read and validated first, and a status update only *)
(* reaches the object that was read.                                       *)
(***************************************************************************)
THEOREM TypeCorrect == Spec => []TypeOK
BY TypeInvInvariant, PTL DEF TypeInv

(***************************************************************************)
(* Optimistic concurrency, as an action property: no step writes into a    *)
(* status what was found about another version of the object, or about     *)
(* another object of the name.  CopyFresh is what it rests on: Status()    *)
(* .Update does not look at the object it overwrites.                      *)
(***************************************************************************)
LEMMA StatusWrite ==
  ASSUME TypeInv, UpdateStatus, NEW n \in Names
  PROVE  WritesCurrentStatus(n)
<1>1. PICK o : o = worker.name
  OBVIOUS
<1>2. TypeOK /\ worker \in Busy /\ worker # Idle
  BY NewStatusType DEF TypeInv, UpdateStatus
<1>3. CASE ~worker.fresh
  BY <1>3 DEF UpdateStatus, WritesCurrentStatus
<1>4. CASE worker.fresh
  <2> DEFINE new == NewStatus(worker)
  <2>1. isvc' = [isvc EXCEPT ![o].status = new]
    BY <1>1, <1>4 DEF UpdateStatus
  <2>2. isvc[o] = worker.isvc /\ worker.isvc \in Isvcs /\ o \in Names
    BY <1>1, <1>2, <1>4 DEF TypeInv, CopyFresh, Busy
  <2>3. isvc'[o] = [isvc[o] EXCEPT !.status = new] /\ \A p \in Names \ {o} : isvc'[p] = isvc[p]
    BY <1>2, <2>1, <2>2 DEF TypeOK, IsvcTypeOK
  <2>4. new.observed = worker.isvc.generation
    BY <2>2 DEF NewStatus, ReadyStatus, FailedStatus, Isvcs, Status
  <2> HIDE DEF new
  <2> QED
    BY <2>2, <2>3, <2>4 DEF WritesCurrentStatus, Isvcs
<1> QED
  BY <1>3, <1>4

LEMMA OthersKeepStatus ==
  ASSUME TypeInv, User \/ Kubernetes \/ Inform \/ Restart \/ ApiError, NEW n \in Names
  PROVE  WritesCurrentStatus(n)
<1>1. CASE UNCHANGED isvc
  BY <1>1 DEF WritesCurrentStatus
<1>2. ASSUME NEW o \in Names, NEW spec, NEW second, CreateInferenceService(o, spec, second)
      PROVE  WritesCurrentStatus(n)
  BY <1>2 DEF CreateInferenceService, WritesCurrentStatus, TypeInv, TypeOK, IsvcTypeOK
<1>3. ASSUME NEW o \in Names, NEW spec, EditInferenceService(o, spec)
      PROVE  WritesCurrentStatus(n)
  <2>1. isvc[o] \in Isvcs /\ \A p \in Names \ {o} : isvc'[p] = isvc[p]
    BY <1>3 DEF EditInferenceService, TypeInv, TypeOK, IsvcTypeOK
  <2>2. isvc'[o] = [isvc[o] EXCEPT !.spec = spec, !.generation = isvc[o].generation + 1]
    BY <1>3 DEF EditInferenceService, TypeInv, TypeOK, IsvcTypeOK
  <2>3. isvc'[o].status = isvc[o].status
    BY <2>1, <2>2 DEF Isvcs
  <2> QED
    BY <2>1, <2>3 DEF WritesCurrentStatus
<1>4. ASSUME NEW o \in Names, DeleteInferenceService(o) PROVE WritesCurrentStatus(n)
  BY <1>4 DEF DeleteInferenceService, WritesCurrentStatus, TypeInv, TypeOK, IsvcTypeOK
<1>5. Kubernetes \/ Inform \/ Restart \/ ApiError => UNCHANGED isvc
  BY DEF Kubernetes, CollectDeployment, CollectService, RollOut, BecomeAvailable, FailPod,
         Inform, InformIsvc, InformTenant, InformModel, InformDeployment, InformService,
         InformPod, Restart, ApiError
<1> QED
  BY <1>1, <1>2, <1>3, <1>4, <1>5 DEF User, AnnotateInferenceService, DriftDeployment,
     DriftService, ChangeTenant, ChangeModel, RetireDeployment, RetirePod

LEMMA StatusWriteStep ==
  ASSUME TypeInv, [Next]_vars, NEW n \in Names
  PROVE  WritesCurrentStatus(n)
<1>1. CASE Reconcile /\ ~UpdateStatus
  <2>1. UNCHANGED isvc
    BY <1>1, CopyKept DEF Reconcile, GetInferenceService, TypeInv
  <2> QED
    BY <2>1 DEF WritesCurrentStatus
<1>2. CASE UNCHANGED vars
  BY <1>2 DEF vars, WritesCurrentStatus
<1> QED
  BY <1>1, <1>2, StatusWrite, OthersKeepStatus DEF Next

\* Every change of a status is about the very version of the object that it is
\* written to: the Conflict of Status().Update is enough to keep the reports of
\* edited, deleted and re-created CRs apart.
THEOREM StatusesAreCurrent == Spec => StatusIsCurrent
<1>1. TypeInv /\ [Next]_vars => [\A n \in Names : WritesCurrentStatus(n)]_vars
  BY StatusWriteStep
<1> QED
  BY <1>1, TypeInvInvariant, PTL DEF Spec, StatusIsCurrent

-----------------------------------------------------------------------------
(***************************************************************************)
(* Exclusive claims.  DeploymentsExclusive is not inductive: an apply      *)
(* keeps it only because of what ListDeployments saw two calls earlier.    *)
(* GuardHolds carries that over: from the list to the apply, no Deployment *)
(* but the CR's own mounts the claim.  Only this worker applies            *)
(* Deployments, so nothing invalidates it in between.                      *)
(***************************************************************************)
Guarded == {"listPods", "applyConfigMap", "applyDeployment"}

GuardHolds ==
  worker.pc \in Guarded =>
    \A d \in DeploymentNames : \/ deployment[d] = None
                               \/ IsControlledBy(deployment[d], worker.isvc.uid)
                               \/ ~podSpecMountsClaim(deployment[d].template,
                                                      worker.isvc.spec.claim)

\* Nobody writes Deployments by hand any more, so the cache has those there are.
HandWrittenSeen ==
  "deployment" \in Lag =>
    \A d \in DeploymentNames :
      deployment[d] # None /\ deployment[d].owner = None =>
        /\ cache.deployment[d] # None /\ cache.deployment[d].owner = None
        /\ cache.deployment[d].template = deployment[d].template

ExclusiveInv == TypeInv /\ DeploymentsExclusive /\ GuardHolds /\ HandWrittenSeen

\* When the guard lists the Deployments, it finds a conflict if the operator itself
\* has put a Deployment on the claim for another CR.
OwnAppliesListed ==
  ListDeployments =>
    \A d \in DeploymentNames :
      /\ deployment[d] # None /\ deployment[d].owner # None
      /\ ~IsControlledBy(deployment[d], worker.isvc.uid)
      /\ podSpecMountsClaim(deployment[d].template, worker.isvc.spec.claim)
      => DeploymentConflict(worker.isvc, SeenDeployment)

\* No Deployment appears, changes hands or changes its template.
KeepsMounts ==
  \A d \in DeploymentNames :
    deployment'[d] # None => /\ deployment[d] # None
                             /\ deployment'[d].owner = deployment[d].owner
                             /\ deployment'[d].template = deployment[d].template

LEMMA ExclusiveFrame ==
  ASSUME DeploymentsExclusive, KeepsMounts
  PROVE  DeploymentsExclusive'
BY DEF DeploymentsExclusive, KeepsMounts

LEMMA GuardFrame ==
  ASSUME GuardHolds, KeepsMounts,
         worker'.pc \in Guarded => worker.pc \in Guarded /\ worker'.isvc = worker.isvc
  PROVE  GuardHolds'
BY DEF GuardHolds, KeepsMounts, IsControlledBy

\* Removing a Deployment keeps the others' mounts; so does changing its status.
LEMMA RemovalKeepsMounts ==
  ASSUME TypeOK, NEW d \in DeploymentNames, deployment' = [deployment EXCEPT ![d] = None]
  PROVE  KeepsMounts
BY DEF TypeOK, ChildTypeOK, KeepsMounts

LEMMA RolloutKeepsMounts ==
  ASSUME TypeOK, NEW n \in Names, RollOut(n) \/ BecomeAvailable(n) \/ FailPod(n)
  PROVE  KeepsMounts
<1>1. PICK new \in Deployments : /\ deployment' = [deployment EXCEPT ![n] = new]
                                 /\ deployment[n] # None
                                 /\ new.owner = deployment[n].owner
                                 /\ new.template = deployment[n].template
  BY StatusOfDeployment
<1> QED
  BY <1>1 DEF TypeOK, ChildTypeOK, KeepsMounts

\* Everybody but the operator keeps the mounts and the worker's place.
LEMMA OthersKeepMounts ==
  ASSUME TypeOK, User \/ Kubernetes
  PROVE  /\ KeepsMounts
         /\ worker'.pc \in Guarded => worker.pc \in Guarded /\ worker'.isvc = worker.isvc
<1>1. ASSUME UNCHANGED deployment PROVE KeepsMounts
  BY <1>1 DEF KeepsMounts
<1>2. CASE \/ \E n \in Names : \/ DriftDeployment(n) \/ CollectDeployment(n)
           \/ \E d \in DeploymentNames : RetireDeployment(d)
  BY <1>2, RemovalKeepsMounts DEF DriftDeployment, CollectDeployment, RetireDeployment,
                                  DeploymentNames
<1>3. CASE \/ \E n \in Names : \/ DriftService(n) \/ CollectService(n)
           \/ \E t \in TenantSpecs \cup {None} : ChangeTenant(t)
           \/ \E m \in Models, spec \in ModelSpecs \cup {None} : ChangeModel(m, spec)
           \/ \E c \in Claims : RetirePod(c)
  BY <1>1, <1>3 DEF DriftService, CollectService, ChangeTenant, ChangeModel, RetirePod, childVars
<1>4. CASE \E n \in Names : RollOut(n) \/ BecomeAvailable(n) \/ FailPod(n)
  BY <1>4, RolloutKeepsMounts DEF RollOut, BecomeAvailable, FailPod
<1>5. ASSUME NEW n \in Names,
             \/ \E spec \in Specs[n], second \in {clock, clock + 1} :
                  CreateInferenceService(n, spec, second)
             \/ \E spec \in Specs[n] : EditInferenceService(n, spec)
             \/ AnnotateInferenceService(n)
             \/ DeleteInferenceService(n)
      PROVE  /\ KeepsMounts
             /\ worker'.pc \in Guarded => worker.pc \in Guarded /\ worker'.isvc = worker.isvc
  <2>1. UNCHANGED deployment /\ (Outdate(n) \/ UNCHANGED worker)
    BY <1>5 DEF CreateInferenceService, EditInferenceService, AnnotateInferenceService,
                DeleteInferenceService, childVars
  <2>2. worker' = Idle => worker'.pc \notin Guarded
    BY DEF Idle, Guarded
  <2> QED
    BY <1>1, <2>1, <2>2, OutdateType
<1> QED
  BY <1>2, <1>3, <1>4, <1>5 DEF User, Kubernetes

LEMMA CacheStep ==
  ASSUME TypeOK, [Next]_vars
  PROVE  /\ cache'.isvc = cache.isvc \/ (cache'.isvc = isvc /\ UNCHANGED isvc)
         /\ \/ cache'.deployment = cache.deployment
            \/ cache'.deployment = deployment /\ UNCHANGED deployment
         /\ cache'.pod = cache.pod \/ (cache'.pod = pods /\ UNCHANGED pods)
<1>1. CASE User \/ Kubernetes \/ Reconcile \/ ApiError \/ UNCHANGED vars
  <2>1. UNCHANGED cache
    BY <1>1 DEF User, CreateInferenceService, EditInferenceService, AnnotateInferenceService,
       DeleteInferenceService, DriftDeployment, DriftService, ChangeTenant, ChangeModel,
       RetireDeployment, RetirePod, Kubernetes, CollectDeployment, CollectService, RollOut,
       BecomeAvailable, FailPod, Reconcile, GetInferenceService, GetTenant, GetModel,
       ListSiblings, ListDeployments, ListPods, ApplyConfigMap, ApplyDeployment, ApplyService,
       UpdateStatus, ApiError, vars
  <2> QED
    BY <2>1
<1>2. CASE Inform
  <2>1. UNCHANGED <<isvc, deployment, pods>>
    BY <1>2 DEF Inform, InformIsvc, InformTenant, InformModel, InformDeployment, InformService,
           InformPod, childVars, inputVars
  <2>2. cache' = cache \/ \E kind \in Kinds : \E objects :
          /\ cache' = [cache EXCEPT ![kind] = objects]
          /\ kind = "isvc" => objects = isvc
          /\ kind = "deployment" => objects = deployment
          /\ kind = "pod" => objects = pods
    BY <1>2 DEF Inform, InformIsvc, InformTenant, InformModel, InformDeployment, InformService,
           InformPod, Refresh, Kinds
  <2> QED
    BY <2>1, <2>2 DEF TypeOK, CacheTypeOK, Kinds
<1>3. CASE Restart
  BY <1>3 DEF Restart, childVars, inputVars
<1> QED
  BY <1>1, <1>2, <1>3 DEF Next

\* The apply: the worker's Deployment becomes one on the claim of the copy.
Places ==
  /\ worker.pc = "applyDeployment" /\ worker # Idle /\ worker.name \in Names
  /\ \E new \in Deployments :
       /\ deployment' = [deployment EXCEPT ![worker.name] = new]
       /\ new.owner = worker.isvc.uid /\ new.owner # None
       /\ \A c : podSpecMountsClaim(new.template, c) <=> c = worker.isvc.spec.claim

LEMMA ApplyPlaces ==
  ASSUME TypeOK, ApplyDeployment
  PROVE  Places
<1>1. worker.pc \in HasModel
  BY DEF ApplyDeployment, HasModel, HasTenant
<1>2. PICK n \in Names : n = worker.name
  BY <1>1, ApplyingWorker
<1>3. deployment[n] \in Deployments \cup {None}
  BY DEF TypeOK, ChildTypeOK, DeploymentNames
<1>4. PICK new \in Deployments : new = Applied(deployment[n])
  BY <1>1, <1>3, AppliedType
<1>5. deployment' = [deployment EXCEPT ![n] = new]
  BY <1>2, <1>4 DEF ApplyDeployment
<1>6. new.owner = worker.isvc.uid /\ new.owner # None
  BY <1>1, <1>3, <1>4, AppliedType, ApplyingWorker, NoneAssumption DEF Isvcs
<1>7. \A c : podSpecMountsClaim(new.template, c) <=> c = worker.isvc.spec.claim
  BY <1>1, <1>3, <1>4, AppliedType, RenderedClaim
<1> QED
  BY <1>1, <1>2, <1>5, <1>6, <1>7, ApplyingWorker DEF Places, ApplyDeployment

LEMMA DeploymentStep ==
  ASSUME TypeOK, [Next]_vars
  PROVE  KeepsMounts \/ Places
<1>1. CASE User \/ Kubernetes
  BY <1>1, OthersKeepMounts
<1>2. CASE UNCHANGED deployment
  BY <1>2 DEF KeepsMounts
<1>3. CASE ApplyDeployment
  BY <1>2, <1>3, ApplyPlaces
<1>4. CASE Reconcile
  BY <1>2, <1>3, <1>4 DEF Reconcile, GetInferenceService, GetTenant, GetModel, ListSiblings,
     ListDeployments, ListPods, ApplyConfigMap, ApplyService, UpdateStatus, childVars
<1>5. CASE Inform \/ Restart \/ ApiError \/ UNCHANGED vars
  BY <1>2, <1>5 DEF Inform, InformIsvc, InformTenant, InformModel, InformDeployment,
     InformService, InformPod, Restart, ApiError, childVars, vars
<1> QED
  BY <1>1, <1>4, <1>5 DEF Next

\* Hand-written Deployments only become fewer.
LEMMA HandWrittenStep ==
  ASSUME TypeOK, KeepsMounts \/ Places, NEW d \in DeploymentNames,
         deployment'[d] # None, deployment'[d].owner = None
  PROVE  /\ deployment[d] # None /\ deployment[d].owner = None
         /\ deployment'[d].template = deployment[d].template
<1>1. CASE KeepsMounts
  BY <1>1 DEF KeepsMounts
<1>2. CASE Places
  BY <1>2 DEF Places, TypeOK, ChildTypeOK
<1> QED
  BY <1>1, <1>2

LEMMA HandWrittenSeenKept ==
  ASSUME TypeOK, HandWrittenSeen, [Next]_vars
  PROVE  HandWrittenSeen'
<1> SUFFICES ASSUME "deployment" \in Lag, NEW d \in DeploymentNames,
                    deployment'[d] # None, deployment'[d].owner = None
             PROVE  /\ cache'.deployment[d] # None /\ cache'.deployment[d].owner = None
                    /\ cache'.deployment[d].template = deployment'[d].template
  BY DEF HandWrittenSeen
<1>1. /\ deployment[d] # None /\ deployment[d].owner = None
      /\ deployment'[d].template = deployment[d].template
  BY DeploymentStep, HandWrittenStep
<1> QED
  BY <1>1, CacheStep DEF HandWrittenSeen

\* The list establishes the guard: it finds what others wrote by hand, however old
\* it is, and what the operator applied, by assumption.
LEMMA ListEstablishesGuard ==
  ASSUME OwnAppliesListed, TypeOK, HandWrittenSeen, ListDeployments
  PROVE  GuardHolds' /\ UNCHANGED deployment
<1>1. worker # Idle /\ worker \in Busy
  BY DEF ListDeployments, Idle, TypeOK, WorkerTypeOK
<1>2. UNCHANGED deployment
  BY DEF ListDeployments, childVars
<1>3. CASE DeploymentConflict(worker.isvc, SeenDeployment)
  <2>1. worker'.pc = "updateStatus"
    BY <1>1, <1>3 DEF ListDeployments, Fail, Busy
  <2> QED
    BY <1>2, <2>1 DEF GuardHolds, Guarded
<1>4. CASE ~DeploymentConflict(worker.isvc, SeenDeployment)
  <2>1. worker'.isvc = worker.isvc
    BY <1>1, <1>4 DEF ListDeployments, Busy
  <2>2. ASSUME NEW d \in DeploymentNames, deployment[d] # None,
               ~IsControlledBy(deployment[d], worker.isvc.uid),
               podSpecMountsClaim(deployment[d].template, worker.isvc.spec.claim)
        PROVE  FALSE
    <3>1. deployment[d].owner = None
      BY <1>4, <2>2 DEF OwnAppliesListed
    <3>2. /\ SeenDeployment[d] # None /\ SeenDeployment[d].owner = None
          /\ SeenDeployment[d].template = deployment[d].template
      BY <2>2, <3>1 DEF HandWrittenSeen, SeenDeployment
    <3> QED
      BY <1>4, <2>2, <3>2 DEF DeploymentConflict, IsControlledBy
  <2> QED
    BY <1>2, <2>1, <2>2 DEF GuardHolds
<1> QED
  BY <1>3, <1>4

\* It covers every Deployment under another name, which has another controller.
LEMMA GuardCoversOthers ==
  ASSUME TypeOK, GuardHolds, worker.pc \in Guarded, worker.isvc.uid.name = worker.name
  PROVE  \A e \in DeploymentNames \ {worker.name} :
           deployment[e] # None
             => ~podSpecMountsClaim(deployment[e].template, worker.isvc.spec.claim)
<1> SUFFICES ASSUME NEW e \in DeploymentNames \ {worker.name}, deployment[e] # None
             PROVE  ~podSpecMountsClaim(deployment[e].template, worker.isvc.spec.claim)
  OBVIOUS
<1>1. ~IsControlledBy(deployment[e], worker.isvc.uid)
  BY DEF TypeOK, ChildTypeOK, DeploymentNamed, IsControlledBy
<1> QED
  BY <1>1 DEF GuardHolds

\* The apply uses it: the new Deployment mounts its spec's claim only, and
\* nobody else mounts that.
LEMMA ApplyKeepsExclusive ==
  ASSUME ExclusiveInv, ApplyDeployment
  PROVE  DeploymentsExclusive' /\ GuardHolds'
<1> DEFINE n == worker.name
           old == deployment[n]
           claim == worker.isvc.spec.claim
<1>1. worker.pc \in HasModel /\ worker.pc \in Guarded /\ TypeOK /\ GuardHolds
  BY DEF ApplyDeployment, HasModel, HasTenant, Guarded, ExclusiveInv, TypeInv
<1>2. /\ n \in Names /\ n \in DeploymentNames /\ old \in Deployments \cup {None}
      /\ worker \in Busy /\ worker.isvc.uid.name = n
  BY <1>1, ApplyingWorker DEF TypeOK, ChildTypeOK, DeploymentNames
<1>3. /\ deployment' = [deployment EXCEPT ![n] = Applied(old)]
      /\ worker'.pc = "applyService"
  BY <1>2 DEF ApplyDeployment, Busy
<1>4. \A c : podSpecMountsClaim(Applied(old).template, c) <=> c = claim
  BY <1>1, <1>2, AppliedType, RenderedClaim
<1>5. \A e \in DeploymentNames \ {n} :
        deployment[e] # None => ~podSpecMountsClaim(deployment[e].template, claim)
  BY <1>1, <1>2, GuardCoversOthers
<1>6. /\ deployment'[n] = Applied(old)
      /\ \A e \in DeploymentNames \ {n} : deployment'[e] = deployment[e]
  BY <1>1, <1>2, <1>3 DEF TypeOK, ChildTypeOK
<1> HIDE DEF n, old, claim
<1>7. DeploymentsExclusive'
  BY <1>4, <1>5, <1>6 DEF ExclusiveInv, DeploymentsExclusive
<1>8. GuardHolds'
  BY <1>3 DEF GuardHolds, Guarded
<1> QED
  BY <1>7, <1>8

LEMMA ReconcileKeepsExclusive ==
  ASSUME OwnAppliesListed, ExclusiveInv, Reconcile
  PROVE  DeploymentsExclusive' /\ GuardHolds'
<1>1. TypeOK /\ DeploymentsExclusive /\ GuardHolds /\ HandWrittenSeen
  BY DEF ExclusiveInv, TypeInv
<1>2. ASSUME UNCHANGED deployment PROVE KeepsMounts
  BY <1>2 DEF KeepsMounts
<1>3. ASSUME NEW n \in Names, GetInferenceService(n) PROVE DeploymentsExclusive' /\ GuardHolds'
  <2>1. worker'.pc \notin Guarded /\ UNCHANGED deployment
    BY <1>3 DEF GetInferenceService, Idle, Guarded, childVars
  <2> QED
    BY <1>1, <1>2, <2>1, ExclusiveFrame, GuardFrame
<1>4. CASE GetTenant \/ GetModel \/ ListSiblings \/ ApplyService \/ UpdateStatus
  <2>1. worker # Idle
    BY <1>4 DEF GetTenant, GetModel, ListSiblings, ApplyService, UpdateStatus, Idle
  <2>2. worker \in Busy
    BY <1>1, <2>1 DEF TypeOK, WorkerTypeOK
  <2>3. UNCHANGED deployment
    BY <1>4 DEF GetTenant, GetModel, ListSiblings, ApplyService, UpdateStatus, childVars
  <2>4. worker'.pc \notin Guarded
    <3>1. CASE GetTenant
      BY <2>2, <3>1 DEF GetTenant, Fail, Guarded, Busy
    <3>2. CASE GetModel
      <4> DEFINE m == SeenModel[worker.isvc.spec.modelRef]
                 verdict == Invalid(worker.isvc.spec, m)
      <4>1. \/ worker' = [worker EXCEPT !.pc = "updateStatus", !.verdict = verdict]
            \/ worker' = [worker EXCEPT !.pc = "listSiblings", !.model = m]
        BY <3>2 DEF GetModel, Fail
      <4> HIDE DEF m, verdict
      <4> QED
        BY <2>2, <4>1 DEF Guarded, Busy
    <3>3. CASE ListSiblings
      <4>1. \/ worker' = [worker EXCEPT !.pc = "updateStatus", !.verdict = "TrustedStoreConflict"]
            \/ worker' = [worker EXCEPT !.pc = "listDeployments"]
        BY <3>3 DEF ListSiblings, Fail
      <4> QED
        BY <2>2, <4>1 DEF Guarded, Busy
    <3>4. CASE ApplyService
      <4>1. \/ worker' = Idle
            \/ worker' = [worker EXCEPT !.pc = "updateStatus", !.verdict = "Configured"]
        BY <3>4 DEF ApplyService, Requeue
      <4>2. Idle.pc \notin Guarded
        BY DEF Idle, Guarded
      <4> QED
        BY <2>2, <4>1, <4>2 DEF Guarded, Busy
    <3>5. CASE UpdateStatus
      BY <2>2, <3>5 DEF UpdateStatus, Requeue, Idle, Guarded
    <3> QED
      BY <1>4, <3>1, <3>2, <3>3, <3>4, <3>5
  <2> QED
    BY <1>1, <1>2, <2>3, <2>4, ExclusiveFrame, GuardFrame
<1>5. CASE ListDeployments
  BY <1>1, <1>2, <1>5, ListEstablishesGuard, ExclusiveFrame
<1>6. CASE ListPods \/ ApplyConfigMap
  <2>1. worker # Idle
    BY <1>6 DEF ListPods, ApplyConfigMap, Idle
  <2>2. worker \in Busy /\ worker.pc \in Guarded
    BY <1>1, <1>6, <2>1 DEF TypeOK, WorkerTypeOK, ListPods, ApplyConfigMap, Guarded
  <2>3. worker'.isvc = worker.isvc /\ UNCHANGED deployment
    BY <1>6, <2>2 DEF ListPods, ApplyConfigMap, Fail, Busy, childVars
  <2> QED
    BY <1>1, <1>2, <2>2, <2>3, ExclusiveFrame, GuardFrame
<1>7. CASE ApplyDeployment
  BY <1>7, ApplyKeepsExclusive
<1> QED
  BY <1>3, <1>4, <1>5, <1>6, <1>7 DEF Reconcile

LEMMA ExclusiveStep ==
  ASSUME ExclusiveInv, [Next]_vars, [OwnAppliesListed]_vars
  PROVE  ExclusiveInv'
<1>1. /\ TypeInv' /\ TypeOK /\ DeploymentsExclusive /\ GuardHolds
      /\ HandWrittenSeen /\ HandWrittenSeen'
  BY TypeInvStep, HandWrittenSeenKept DEF ExclusiveInv, TypeInv
<1>2. CASE Reconcile /\ OwnAppliesListed
  BY <1>1, <1>2, ReconcileKeepsExclusive DEF ExclusiveInv
<1>3. CASE User \/ Kubernetes
  BY <1>1, <1>3, OthersKeepMounts, ExclusiveFrame, GuardFrame DEF ExclusiveInv
<1>4. CASE Inform \/ Restart \/ ApiError \/ UNCHANGED vars
  <2>1. UNCHANGED deployment /\ (UNCHANGED worker \/ worker' = Idle)
    BY <1>4 DEF Inform, InformIsvc, InformTenant, InformModel, InformDeployment, InformService,
                InformPod, Restart, ApiError, Requeue, childVars, vars
  <2>2. KeepsMounts
    BY <2>1 DEF KeepsMounts
  <2>3. worker'.pc \in Guarded => worker.pc \in Guarded /\ worker'.isvc = worker.isvc
    BY <2>1 DEF Idle, Guarded
  <2> QED
    BY <1>1, <2>2, <2>3, ExclusiveFrame, GuardFrame DEF ExclusiveInv
<1> QED
  BY <1>2, <1>3, <1>4 DEF Next

LEMMA InitExclusiveInv == Init => ExclusiveInv
<1> SUFFICES ASSUME Init PROVE ExclusiveInv
  OBVIOUS
<1>1. TypeInv
  BY InitTypeOK DEF Init, TypeInv, CacheFresh, CopyFresh
<1>2. \A d \in DeploymentNames : deployment[d] # None => deployment[d].owner = None
  BY DEF Init
<1>3. worker.pc \notin Guarded
  BY DEF Init, Idle, Guarded
<1> QED
  BY <1>1, <1>2, <1>3 DEF ExclusiveInv, DeploymentsExclusive, GuardHolds, HandWrittenSeen, Init

(***************************************************************************)
(* One workload per claim, for any number of CRs, edits, deletions, equal  *)
(* timestamps, restarts and failed calls, and however stale the caches:    *)
(* the operator never makes two Deployments share a claim, and never joins *)
(* a hand-written one, unless some list of the guard did not have a        *)
(* Deployment that the operator itself had applied for another CR.  That   *)
(* is the one way to a shared claim, and the one that run                  *)
(* stale_deployments takes: the code does not exclude it.                  *)
(***************************************************************************)
THEOREM Exclusive == Spec /\ [][OwnAppliesListed]_vars => []DeploymentsExclusive
<1>1. Init => ExclusiveInv
  BY InitExclusiveInv
<1>2. ExclusiveInv /\ [Next]_vars /\ [OwnAppliesListed]_vars => ExclusiveInv'
  BY ExclusiveStep
<1>3. ExclusiveInv => DeploymentsExclusive
  BY DEF ExclusiveInv
<1> QED
  BY <1>1, <1>2, <1>3, PTL DEF Spec

=============================================================================

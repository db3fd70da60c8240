------------------------------- MODULE Cluster -------------------------------
(***************************************************************************)
(* What the InferenceService reconciler works on and with: the objects of  *)
(* one namespace on the API server, the informer caches and the workqueue  *)
(* of the operator process, and everybody else who changes those objects:  *)
(* users and Flux, the garbage collector, the Deployment controller.  The  *)
(* operator itself is InferenceServiceController.                          *)
(***************************************************************************)
EXTENDS Render, FiniteSets

CONSTANTS
  Names,             \* InferenceService names; < is the order of strings
  Specs,             \* Specs[n]: the specs a user may give the CR n
  Models,            \* BrukModel names
  ModelSpecs,        \* the specs a BrukModel may have
  TenantSpecs,       \* the specs the BrukTenant "cluster" may have
  Claims,            \* trusted-store PVCs
  HandWrittenNames,  \* names of Deployments that predate the operator
  Unservable,        \* CR names whose "<name>-svc" no Service may have
  Validation,        \* does the API server enforce the rules of the CRDs
  Lag,               \* kinds whose informer may be behind the API server
  Ops,               \* what the environment does in this instance
  MaxOps             \* bound on the number of environment operations

Kinds == {"isvc", "tenant", "model", "deployment", "pod"}

EnvironmentOps == {"edit", "annotate", "delete", "sameSecond", "tenant", "model",
                   "retire", "drift", "rollout", "fail", "restart", "apiError"}

ASSUME NamesAssumption  == Names \subseteq Nat
ASSUME BoundAssumption  == MaxOps \in Nat
ASSUME ValidationAssumption == Validation \in BOOLEAN
ASSUME LagAssumption    == Lag \subseteq Kinds
ASSUME OpsAssumption    == Ops \subseteq EnvironmentOps
ASSUME ModelRefAssumption == \A n \in Names : \A s \in Specs[n] : s.modelRef \in Models
ASSUME AbsentAssumption == None \notin TenantSpecs /\ None \notin ModelSpecs /\ None \notin Names

VARIABLES
  isvc,        \* API server: the InferenceService of each name, or None
  tenant,      \*   the BrukTenant "cluster", or None
  model,       \*   the BrukModel of each name, or None
  deployment,  \*   the Deployment of each name, or None
  service,     \*   the controller of each CR's "-svc" Service, or None
  configMap,   \*   whether the shared gai ConfigMap exists
  pods,        \*   the claims that standalone Pods mount
  cache,       \* informer caches: the objects as last delivered, per kind
  events,      \* watch events not yet delivered to the event handlers
  queue,       \* workqueue: the names waiting to be reconciled
  worker,      \* the reconcile in progress, or Idle
  clock,       \* creationTimestamps, in seconds
  serial,      \* number of uids handed out
  ops          \* environment operations so far

childVars == <<deployment, service, configMap>>
inputVars == <<tenant, model, pods>>
envVars   == <<clock, serial, ops>>
vars == <<isvc, tenant, model, deployment, service, configMap, pods,
          cache, events, queue, worker, clock, serial, ops>>

-----------------------------------------------------------------------------
(* Objects *)

DeploymentNames == Names \cup HandWrittenNames

\* A uid is never reused; it carries the name it was handed out for.
Uid(n, k) == [name |-> n, serial |-> k]

Failures == {"TenantConfigMissing", "ModelNotFound", "NotImplemented",
             "InvalidConfig", "TrustedStoreConflict"}

\* A condition is written as its reason: the reason determines the status.
NoStatus == [observed    |-> 0,
             configured  |-> "Unset",
             workload    |-> "Unset",
             ready       |-> "Unset",
             progressing |-> "Unset",
             applied     |-> None]

Idle == [pc |-> "idle", name |-> None, isvc |-> None, tenant |-> None,
         model |-> None, fresh |-> FALSE, verdict |-> "Unset", available |-> FALSE]

HandWritten(c) == [volumes |-> {Volume("trusted-image", "claim", c)}]

\* metav1.IsControlledBy
IsControlledBy(d, uid) == d.owner # None /\ d.owner = uid

NoEvents == [isvc |-> {}, tenant |-> FALSE, model |-> {}, deployment |-> {}, service |-> {}]

-----------------------------------------------------------------------------
(* Admission: ranges and CEL rules of the CRDs, for the fields modelled.  The *)
(* reconcilers do not rely on them: "a cluster without CEL validation, or a   *)
(* hand-applied CRD" has Validation = FALSE.                                  *)

EngineAdmitted(spec) ==
  /\ spec.quantization \in {None, "fp8"}
  /\ spec.maxModelLen \in 256 .. 1048576
  /\ spec.gpuPercent \in 1 .. 99

StoreAdmitted(spec) == spec.localVolume <=> spec.claim = None

InferenceServiceAdmitted(spec) ==
  Validation => /\ EngineAdmitted(spec) /\ StoreAdmitted(spec)
                /\ spec.failureThreshold # None => spec.failureThreshold \in 1 .. 1000

SourceAdmitted(source) == source # None

BrukModelAdmitted(spec) ==
  Validation => SourceAdmitted(spec.source) /\ spec.contextLength >= 256

BrukTenantAdmitted(spec) == Validation => spec.defaultImage # None /\ spec.initData # None

-----------------------------------------------------------------------------
(* Users and Flux *)

Operation(name) == name \in Ops /\ ops < MaxOps /\ ops' = ops + 1

\* A write to the CR n gives it a new resourceVersion.
Outdate(n) == worker' = IF worker.name = n THEN [worker EXCEPT !.fresh = FALSE] ELSE worker

CreateInferenceService(n, spec, second) ==
  /\ isvc[n] = None /\ InferenceServiceAdmitted(spec)
  /\ ops < MaxOps /\ ops' = ops + 1
  /\ second = clock => "sameSecond" \in Ops
  /\ clock' = second
  /\ serial' = serial + 1
  /\ isvc' = [isvc EXCEPT ![n] = [uid |-> Uid(n, serial + 1), created |-> second,
                                  generation |-> 1, spec |-> spec, status |-> NoStatus]]
  /\ events' = [events EXCEPT !.isvc = @ \cup {n}]
  /\ UNCHANGED <<childVars, inputVars, cache, queue, worker>>

\* modelRef is immutable; a spec change increments the generation.
EditInferenceService(n, spec) ==
  /\ Operation("edit")
  /\ isvc[n] # None /\ InferenceServiceAdmitted(spec)
  /\ spec # isvc[n].spec /\ spec.modelRef = isvc[n].spec.modelRef
  /\ isvc' = [isvc EXCEPT ![n] = [isvc[n] EXCEPT !.spec = spec,
                                                 !.generation = isvc[n].generation + 1]]
  /\ events' = [events EXCEPT !.isvc = @ \cup {n}]
  /\ Outdate(n)
  /\ UNCHANGED <<childVars, inputVars, cache, queue, clock, serial>>

\* kubectl annotate: metadata only.
AnnotateInferenceService(n) ==
  /\ Operation("annotate")
  /\ isvc[n] # None
  /\ events' = [events EXCEPT !.isvc = @ \cup {n}]
  /\ Outdate(n)
  /\ UNCHANGED <<isvc, childVars, inputVars, cache, queue, clock, serial>>

DeleteInferenceService(n) ==
  /\ Operation("delete")
  /\ isvc[n] # None
  /\ isvc' = [isvc EXCEPT ![n] = None]
  /\ events' = [events EXCEPT !.isvc = @ \cup {n}]
  /\ Outdate(n)
  /\ UNCHANGED <<childVars, inputVars, cache, queue, clock, serial>>

ChangeTenant(t) ==
  /\ Operation("tenant")
  /\ t # tenant /\ (t # None => BrukTenantAdmitted(t))
  /\ tenant' = t
  /\ events' = [events EXCEPT !.tenant = TRUE]
  /\ UNCHANGED <<isvc, model, pods, childVars, cache, queue, worker, clock, serial>>

ChangeModel(m, spec) ==
  /\ Operation("model")
  /\ spec # model[m] /\ (spec # None => BrukModelAdmitted(spec))
  /\ model' = [model EXCEPT ![m] = spec]
  /\ events' = [events EXCEPT !.model = @ \cup {m}]
  /\ UNCHANGED <<isvc, tenant, pods, childVars, cache, queue, worker, clock, serial>>

\* The adoption steps of operator/README.md: a hand-written workload goes.
RetireDeployment(d) ==
  /\ Operation("retire")
  /\ deployment[d] # None /\ deployment[d].owner = None
  /\ deployment' = [deployment EXCEPT ![d] = None]
  /\ UNCHANGED <<isvc, service, configMap, inputVars, cache, events, queue, worker, clock, serial>>

RetirePod(c) ==
  /\ Operation("retire")
  /\ c \in pods
  /\ pods' = pods \ {c}
  /\ UNCHANGED <<isvc, tenant, model, childVars, cache, events, queue, worker, clock, serial>>

\* Somebody deletes a child the operator owns.
DriftDeployment(n) ==
  /\ Operation("drift")
  /\ deployment[n] # None /\ deployment[n].owner # None
  /\ deployment' = [deployment EXCEPT ![n] = None]
  /\ events' = [events EXCEPT !.deployment = @ \cup {n}]
  /\ UNCHANGED <<isvc, service, configMap, inputVars, cache, queue, worker, clock, serial>>

DriftService(n) ==
  /\ Operation("drift")
  /\ service[n] # None
  /\ service' = [service EXCEPT ![n] = None]
  /\ events' = [events EXCEPT !.service = @ \cup {n}]
  /\ UNCHANGED <<isvc, deployment, configMap, inputVars, cache, queue, worker, clock, serial>>

User ==
  \/ \E n \in Names :
       \/ \E spec \in Specs[n], second \in {clock, clock + 1} :
            CreateInferenceService(n, spec, second)
       \/ \E spec \in Specs[n] : EditInferenceService(n, spec)
       \/ AnnotateInferenceService(n)
       \/ DeleteInferenceService(n)
       \/ DriftDeployment(n)
       \/ DriftService(n)
  \/ \E t \in TenantSpecs \cup {None} : ChangeTenant(t)
  \/ \E m \in Models, spec \in ModelSpecs \cup {None} : ChangeModel(m, spec)
  \/ \E d \in DeploymentNames : RetireDeployment(d)
  \/ \E c \in Claims : RetirePod(c)

-----------------------------------------------------------------------------
(* Kubernetes *)

Orphaned(n, owner) == owner # None /\ ~(isvc[n] # None /\ isvc[n].uid = owner)

\* The garbage collector deletes what a deleted CR controlled.
CollectDeployment(n) ==
  /\ deployment[n] # None /\ Orphaned(n, deployment[n].owner)
  /\ deployment' = [deployment EXCEPT ![n] = None]
  /\ events' = [events EXCEPT !.deployment = @ \cup {n}]
  /\ UNCHANGED <<isvc, service, configMap, inputVars, cache, queue, worker, envVars>>

CollectService(n) ==
  /\ Orphaned(n, service[n])
  /\ service' = [service EXCEPT ![n] = None]
  /\ events' = [events EXCEPT !.service = @ \cup {n}]
  /\ UNCHANGED <<isvc, deployment, configMap, inputVars, cache, queue, worker, envVars>>

\* The Deployment controller notices a new template: strategy Recreate stops
\* the old Pod first, so the Deployment is no longer Available.
RollOut(n) ==
  /\ "rollout" \in Ops
  /\ deployment[n] # None /\ ~deployment[n].rolledOut
  /\ deployment' = [deployment EXCEPT ![n] = [@ EXCEPT !.rolledOut = TRUE, !.available = FALSE]]
  /\ events' = [events EXCEPT !.deployment = @ \cup {n}]
  /\ UNCHANGED <<isvc, service, configMap, inputVars, cache, queue, worker, envVars>>

BecomeAvailable(n) ==
  /\ deployment[n] # None /\ deployment[n].rolledOut /\ ~deployment[n].available
  /\ deployment' = [deployment EXCEPT ![n].available = TRUE]
  /\ events' = [events EXCEPT !.deployment = @ \cup {n}]
  /\ UNCHANGED <<isvc, service, configMap, inputVars, cache, queue, worker, envVars>>

FailPod(n) ==
  /\ Operation("fail")
  /\ deployment[n] # None /\ deployment[n].owner # None /\ deployment[n].available
  /\ deployment' = [deployment EXCEPT ![n].available = FALSE]
  /\ events' = [events EXCEPT !.deployment = @ \cup {n}]
  /\ UNCHANGED <<isvc, service, configMap, inputVars, cache, queue, worker, clock, serial>>

Kubernetes ==
  \E n \in Names : \/ CollectDeployment(n) \/ CollectService(n)
                   \/ RollOut(n) \/ BecomeAvailable(n) \/ FailPod(n)

=============================================================================

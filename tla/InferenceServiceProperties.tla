--------------------- MODULE InferenceServiceProperties ---------------------
(***************************************************************************)
(* What the InferenceService reconciler is to guarantee: its type          *)
(* invariant, safety, convergence at rest, and liveness under FairSpec.    *)
(***************************************************************************)
EXTENDS InferenceServiceController

-----------------------------------------------------------------------------
(* Type correctness *)

Uids == [name : Names, serial : Nat]

AllSpecs == UNION {Specs[n] : n \in Names}

Reasons == Failures \cup {"Unset", "Configured", "WorkloadReady", "WorkloadPending", "Deploying"}

AppliedConfigs ==
  [initDataHash : {InitDataHash(t.initData) : t \in TenantSpecs},
   image        : {t.defaultImage : t \in TenantSpecs},
   servedName   : {ServedModelName(s.modelRef, m) : s \in AllSpecs, m \in ModelSpecs}]

Status == [observed : Nat, configured : Reasons, workload : Reasons, ready : Reasons,
           progressing : Reasons, applied : AppliedConfigs \cup {None}]

Isvcs == [uid : Uids, created : Nat, generation : Nat, spec : AllSpecs, status : Status]

Templates ==
  {Deployment(s, m, t) : s \in AllSpecs, m \in {x \in ModelSpecs : x.source # None},
                         t \in TenantSpecs}
  \cup {HandWritten(c) : c \in Claims}

Deployments == [owner : Uids \cup {None}, template : Templates,
                available : BOOLEAN, rolledOut : BOOLEAN]

\* What is absent is not an object.
ASSUME NoneAssumption == None \notin Uids /\ None \notin Isvcs /\ None \notin Deployments

\* An object keeps the name its uid was handed out under.
IsvcNamed(f) == \A n \in Names : f[n] # None => f[n].uid.name = n

DeploymentNamed(f) ==
  \A d \in DeploymentNames : f[d] # None /\ f[d].owner # None => f[d].owner.name = d

IsvcTypeOK == isvc \in [Names -> Isvcs \cup {None}] /\ IsvcNamed(isvc)

InputTypeOK ==
  /\ tenant \in TenantSpecs \cup {None}
  /\ model \in [Models -> ModelSpecs \cup {None}]
  /\ pods \subseteq Claims

ChildTypeOK ==
  /\ deployment \in [DeploymentNames -> Deployments \cup {None}] /\ DeploymentNamed(deployment)
  /\ service \in [Names -> Uids \cup {None}]
  /\ configMap \in BOOLEAN

CacheTypeOK ==
  /\ cache \in [isvc       : [Names -> Isvcs \cup {None}],
                tenant     : TenantSpecs \cup {None},
                model      : [Models -> ModelSpecs \cup {None}],
                deployment : [DeploymentNames -> Deployments \cup {None}],
                pod        : SUBSET Claims]
  /\ IsvcNamed(cache.isvc)
  /\ DeploymentNamed(cache.deployment)

QueueTypeOK ==
  /\ events \in [isvc : SUBSET Names, tenant : BOOLEAN, model : SUBSET Models,
                 deployment : SUBSET Names, service : SUBSET Names]
  /\ queue \subseteq Names

CounterTypeOK == clock \in Nat /\ serial \in Nat /\ ops \in 0 .. MaxOps

\* What Reconcile has in hand at each of its calls.
HasTenant == {"getModel", "listSiblings", "listDeployments", "listPods",
              "applyConfigMap", "applyDeployment", "applyService"}
HasModel  == HasTenant \ {"getModel"}

Busy == [pc : HasTenant \cup {"getTenant", "updateStatus"}, name : Names, isvc : Isvcs,
         tenant : TenantSpecs \cup {None}, model : ModelSpecs \cup {None},
         fresh : BOOLEAN, verdict : Failures \cup {"Unset", "Configured"},
         available : BOOLEAN]

WorkerTypeOK ==
  \/ worker = Idle
  \/ /\ worker \in Busy
     /\ worker.isvc # None /\ worker.isvc.uid.name = worker.name
     /\ worker.pc = "updateStatus" <=> worker.verdict # "Unset"
     /\ worker.pc \in HasTenant \/ worker.verdict = "Configured" => worker.tenant # None
     /\ worker.pc \in HasModel \/ worker.verdict = "Configured"
          => worker.model # None /\ worker.model.source # None

\* Every variable has a value of its kind, an object keeps the name it was made
\* under, and the worker holds what its place in Reconcile needs: no call uses a
\* tenant or a model that was not read and validated before it.
TypeOK == /\ IsvcTypeOK /\ InputTypeOK /\ ChildTypeOK /\ CacheTypeOK
          /\ QueueTypeOK /\ WorkerTypeOK /\ CounterTypeOK

-----------------------------------------------------------------------------
(* Safety *)

\* "One workload per claim: a second consumer would LUKS-format the store
\* again" (trustedStoreConflict): no Deployment of the operator's shares the
\* trusted-store claim it mounts with another Deployment.
DeploymentsExclusive ==
  \A d, e \in DeploymentNames :
    \/ d = e \/ deployment[d] = None \/ deployment[e] = None \/ deployment[d].owner = None
    \/ \A c \in Claims : ~( /\ podSpecMountsClaim(deployment[d].template, c)
                            /\ podSpecMountsClaim(deployment[e].template, c) )

\* The claims that are on the Deployments of CRs, and on what else there is.
Mounted(d) ==
  {c \in Claims : deployment[d] # None /\ podSpecMountsClaim(deployment[d].template, c)}

granted ==
  [n \in Names |-> IF deployment[n] # None /\ deployment[n].owner # None THEN Mounted(n) ELSE {}]

outside ==
  pods \cup UNION {Mounted(d) : d \in {e \in DeploymentNames :
                                         deployment[e] # None /\ deployment[e].owner = None}}

refused ==
  {n \in Names : isvc[n] # None /\ isvc[n].status.configured = "TrustedStoreConflict"}

Arbitration == INSTANCE ClaimArbitration WITH Services <- Names

\* The guard and the applies of Reconcile implement the arbitration of claims,
\* however far the caches are behind, for CRs that are created one per second, stay
\* and keep their claim: a CR's Deployment comes to mount a claim only while no other
\* CR's Deployment, no hand-written one and no standalone Pod has it, and the status of
\* a CR never turns to TrustedStoreConflict while its own Deployment has the claim.
ClaimsArbitrated == Arbitration!Spec

\* Somebody is about to reconcile n.
Wakeup(n) == n \in events.isvc \cup events.deployment \cup events.service \cup queue
             \/ worker.name = n

\* The configuration that a template carries, as a status reports it.
CarriedBy(template) == [initDataHash |-> InitDataHash(template.initData),
                        image        |-> template.image,
                        servedName   |-> template.args.servedName]

\* Template is what the spec comes to with a model and a tenant there may have been.
RenderedOf(spec, template) ==
  \E m \in ModelSpecs, t \in TenantSpecs :
    m.source # None /\ template = Deployment(spec, m, t)

\* "keeps status honest" (Reconcile, updateReadyStatus): Configured=True means that
\* the live Deployment and Service are this CR's, that the Deployment is the one
\* rendered of this spec (claim, resources, every engine argument) with some model
\* and tenant, and carries the image, initdata and model name that the status
\* reports, or that a reconcile is coming.
ConfiguredIsApplied ==
  \A n \in Names :
    isvc[n] # None /\ isvc[n].status.configured = "Configured" =>
      \/ /\ deployment[n] # None
         /\ IsControlledBy(deployment[n], isvc[n].uid)
         /\ RenderedOf(isvc[n].spec, deployment[n].template)
         /\ isvc[n].status.applied = CarriedBy(deployment[n].template)
         /\ service[n] = isvc[n].uid
      \/ Wakeup(n)

\* A step that changes the status of the CR n writes what was found about the object
\* as it is.
WritesCurrentStatus(n) ==
  /\ isvc[n] # None /\ isvc'[n] # None
  /\ isvc'[n].uid = isvc[n].uid /\ isvc'[n].status # isvc[n].status
  => /\ worker.isvc = isvc[n]
     /\ isvc'[n].generation = isvc[n].generation /\ isvc'[n].spec = isvc[n].spec
     /\ isvc'[n].status.observed = isvc[n].generation

\* failConfigured and updateReadyStatus write the status several calls after the
\* read it is about.  A status only ever changes to one found about the object as
\* it is: not about a version that was edited since, or one that was deleted and
\* made again under the same name.
StatusIsCurrent == [][\A n \in Names : WritesCurrentStatus(n)]_vars

\* What Reconcile would conclude about n from the live objects.
Verdict(n) ==
  LET i == isvc[n]
      m == model[i.spec.modelRef]
  IN  CASE tenant = None -> "TenantConfigMissing"
        [] tenant # None /\ Invalid(i.spec, m) # "Configured" -> Invalid(i.spec, m)
        [] tenant # None /\ Invalid(i.spec, m) = "Configured"
             /\ (\/ SiblingConflict(n, i, isvc)
                 \/ DeploymentConflict(i, deployment)
                 \/ i.spec.claim \in pods) -> "TrustedStoreConflict"
        [] OTHER -> IF renderError(m, tenant) THEN "InvalidConfig" ELSE "Configured"

Converged(n) ==
  isvc[n] # None =>
    LET i == isvc[n]
        m == model[i.spec.modelRef]
    IN  /\ i.status.observed = i.generation
        /\ i.status.configured = Verdict(n)
        /\ Verdict(n) = "Configured" =>
             /\ deployment[n] # None
             /\ IsControlledBy(deployment[n], i.uid)
             /\ deployment[n].template = Deployment(i.spec, m, tenant)
             /\ service[n] = i.uid
             /\ i.spec.weightsCache => configMap
             /\ i.status = ReadyStatus(i, m, tenant, deployment[n].available)

\* Nothing is queued, in progress or on its way to the operator.
AtRest ==
  /\ worker = Idle /\ queue = {} /\ events = NoEvents
  /\ ~Behind("isvc", isvc) /\ ~Behind("tenant", tenant) /\ ~Behind("model", model)
  /\ ~Behind("deployment", deployment) /\ ~Behind("pod", pods)

\* SetupWithManager watches enough: when the operator is at rest, every status
\* and every child is what Reconcile would make it of the live objects.
ConvergedAtRest == AtRest => \A n \in Names : Converged(n)

\* "Failure modes set Configured=False with a specific reason" (Reconcile): whoever
\* wins a contended claim, and whichever calls fail or find a stale copy, no
\* generation of a CR is forgotten: at rest, every status is of the current one.
GenerationObservedAtRest ==
  AtRest => \A n \in Names :
    isvc[n] # None => isvc[n].status.observed = isvc[n].generation

\* Nothing that concerns the CR n is queued or on its way.
NothingComing(n) ==
  /\ n \notin events.isvc \cup events.deployment \cup events.service \cup queue
  /\ ~events.tenant /\ isvc[n].spec.modelRef \notin events.model

\* A call of Reconcile for a converged CR changes no object that is watched.
WritesNothingNew(n) ==
  /\ Reconcile /\ worker.name = n
  /\ isvc[n] # None /\ Converged(n) /\ NothingComing(n)
  => UNCHANGED <<isvc, deployment, service, events>>

\* For and Owns have no predicates (SetupWithManager), so whatever Reconcile writes
\* wakes it again.  It does not chase itself: once a CR is converged, and there is
\* nothing more to hear of, what is left of a reconcile of it, started whenever,
\* applies and updates to what is there already.
ReconcileIsIdempotent == [][\A n \in Names : WritesNothingNew(n)]_vars

\* ADR-0007, the one-pod-per-PVC rule: a CR loses its claim to an older sibling,
\* an unmanaged Deployment or a standalone Pod.  So when the operator is at
\* rest, a claim that CRs contend for and nothing else holds has a winner.
ClaimHasWinner ==
  AtRest => \A n \in Names :
    isvc[n] # None /\ isvc[n].status.configured = "TrustedStoreConflict" =>
      LET c == isvc[n].spec.claim
      IN  \/ c \in pods
          \/ \E d \in DeploymentNames :
               /\ deployment[d] # None /\ deployment[d].owner = None
               /\ podSpecMountsClaim(deployment[d].template, c)
          \/ \E o \in Names : /\ isvc[o] # None /\ isvc[o].spec.claim = c
                              /\ isvc[o].status.configured # "TrustedStoreConflict"

\* updateReadyStatus, "rollout complete": a status that reports the initdata the
\* Deployment carries, and Progressing=False because the workload is ready,
\* describes Pods of that template.
ReadyMeansRolledOut ==
  \A n \in Names :
    isvc[n] # None /\ deployment[n] # None =>
      LET status == isvc[n].status
      IN  /\ status.progressing = "WorkloadReady"
          /\ deployment[n].owner = isvc[n].uid
          /\ status.applied.initDataHash = InitDataHash(deployment[n].template.initData)
          => deployment[n].rolledOut

-----------------------------------------------------------------------------
(* Liveness *)

\* The remedy docs/handoffs give for a stale TrustedStoreConflict: once nothing
\* live conflicts and the caches have caught up, annotating the CR is enough.
NudgeRecovers ==
  \A n \in Names :
    /\ isvc[n] # None /\ n \in events.isvc /\ Verdict(n) = "Configured"
    /\ ~Behind("deployment", deployment) /\ ~Behind("pod", pods)
    ~> isvc[n] = None \/ isvc[n].status.configured = "Configured"

\* Once users and failures stop, every CR converges and stays converged.
EventuallyConverged == <>[](\A n \in Names : Converged(n))

\* "Failure modes set Configured=False with a specific reason" (Reconcile): the
\* status catches up with every generation of a CR.
StatusRecorded ==
  \A n \in Names :
    isvc[n] # None /\ isvc[n].status.observed # isvc[n].generation
      ~> isvc[n] = None \/ isvc[n].status.observed = isvc[n].generation

=============================================================================

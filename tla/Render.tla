------------------------------- MODULE Render -------------------------------
(***************************************************************************)
(* The pure renderer, operator/internal/render/render.go: what Deployment  *)
(* the operator derives from an InferenceService spec, the BrukModel it    *)
(* names and the cluster's BrukTenant.  The same inputs give the same      *)
(* Deployment, so everything here is an operator without state.            *)
(*                                                                         *)
(* A record stands for each input, with the fields the code reads:         *)
(*   spec   an InferenceServiceSpec                                        *)
(*   model  a BrukModelSpec; source is None or the huggingFace record      *)
(*   cfg    a render.Config, taken from the BrukTenantSpec                 *)
(* Boilerplate that is the same in every rendered object (runtime class,   *)
(* probe period, content of the gai ConfigMap) is left out.                *)
(***************************************************************************)
EXTENDS Naturals, Sequences

CONSTANT None   \* an unset optional field: a nil pointer or an empty string

-----------------------------------------------------------------------------

ServedModelName(name, model) ==
  IF model.servedName # None THEN model.servedName ELSE name

\* The 12 hexadecimal digits kept of the sha256 are taken to be injective.
InitDataHash(initData) == <<"sha256", initData>>

\* The field as it is, set or not.
requestOrLimit_Unresolved(pair) == pair.request

requestOrLimit(pair) == IF pair.request # None THEN pair.request ELSE pair.limit

\* "0.%d"
utilizationDigits_Unpadded(p) == IF p < 10 THEN <<p>> ELSE <<p \div 10, p % 10>>

\* "0.%02d" as the digits after the point; the schema bounds p to 1 .. 99.
utilizationDigits(p) == <<p \div 10, p % 10>>

engineArgs(spec, model) ==
  [model        |-> model.source.repo,
   servedName   |-> ServedModelName(spec.modelRef, model),
   quantization |-> spec.quantization,
   maxModelLen  |-> spec.maxModelLen,
   utilization  |-> utilizationDigits(spec.gpuPercent)]

\* The Secret HF_TOKEN is read from; the other variable is a constant.
engineEnv(model) == [HF_TOKEN |-> model.source.tokenSecretRef]

-----------------------------------------------------------------------------
(* Volumes.  "ref" is what the source names: a claim, a ConfigMap, a limit. *)

Volume(name, source, ref) == [name |-> name, source |-> source, ref |-> ref]

GaiConfigMapName == "gai-ipv4-first"

\* Without the ConfigMap behind the gai mount.
volumes_NoGai(spec) ==
  { Volume("dshm", "memory", "8Gi"), Volume("trusted-image", "claim", spec.claim) }
  \cup IF spec.weightsCache THEN { Volume("models", "emptyDir", spec.cacheLimit) } ELSE {}

volumes(spec) ==
  { Volume("dshm", "memory", "8Gi"), Volume("trusted-image", "claim", spec.claim) }
  \cup IF spec.weightsCache
         THEN { Volume("models", "emptyDir", spec.cacheLimit),
                Volume("gai", "configMap", GaiConfigMapName) }
         ELSE {}

volumeMounts(spec) ==
  {"dshm"} \cup IF spec.weightsCache THEN {"models", "gai"} ELSE {}

volumeDevices == {"trusted-image"}

failureThreshold(spec) ==
  CASE spec.failureThreshold # None -> spec.failureThreshold
    [] spec.failureThreshold = None /\ spec.weightsCache -> 240
    [] OTHER -> 120

\* How a new template replaces the old Pod: RollingUpdate starts the new one first.
strategy_RollingUpdate == "RollingUpdate"

strategy == "Recreate"

-----------------------------------------------------------------------------
(* What depends on the name of the InferenceService alone: how a client    *)
(* comes from the endpoint in the status to the Pod.                       *)

servingPort == 8000

\* Labels of the Deployment and of its Pods, and its selector.
labels(name) == [app |-> name]

ServiceName(name) == <<name, "-svc">>

Service(name) ==
  [name |-> ServiceName(name), selector |-> [app |-> name],
   port |-> servingPort, targetPort |-> servingPort]

EndpointURL(name) == [host |-> ServiceName(name), port |-> servingPort]

-----------------------------------------------------------------------------

\* The three errors Deployment returns, ResolveImage's included.
renderError(model, cfg) ==
  model.source = None \/ cfg.defaultImage = None \/ cfg.initData = None

\* The pod template; a Deployment's other fields do not depend on the inputs.
Deployment(spec, model, cfg) ==
  [image            |-> cfg.defaultImage,
   initData         |-> cfg.initData,
   args             |-> engineArgs(spec, model),
   env              |-> engineEnv(model),
   memory           |-> <<spec.memory.limit, requestOrLimit(spec.memory)>>,
   cpu              |-> <<spec.cpu.limit, requestOrLimit(spec.cpu)>>,
   volumes          |-> volumes(spec),
   mounts           |-> volumeMounts(spec),
   devices          |-> volumeDevices,
   port             |-> servingPort,
   failureThreshold |-> failureThreshold(spec)]

\* inferenceservice_controller.go: does a pod template use the claim.
podSpecMountsClaim(template, claim) ==
  \E v \in template.volumes : v.source = "claim" /\ v.ref = claim

=============================================================================

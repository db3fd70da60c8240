---------------------------- MODULE RenderProofs ----------------------------
(***************************************************************************)
(* The properties of the renderer, for all inputs it can be called with.   *)
(* The run tries them on sequences of edits with a few values per field;   *)
(* here names, quantities, blobs and thresholds are arbitrary.             *)
(***************************************************************************)
EXTENDS MCRender, TLAPS

Pairs(V) == [limit : V, request : V]

ServiceSpecs(V) ==
  [modelRef : V, quantization : V, maxModelLen : Nat, gpuPercent : 1 .. 99,
   memory : Pairs(V), cpu : Pairs(V),
   claim : V, localVolume : {FALSE}, weightsCache : BOOLEAN,
   cacheLimit : V, failureThreshold : V]

\* What passes the checks before the render, with values from V: the percentage is
\* in the range of the schema, the volume is no local one, there is a source, and
\* a cache that is not there has no limit (WeightsCacheSpec).
Inputs(V) ==
  { x \in [spec  : ServiceSpecs(V),
           model : [source : [repo : V, revision : V, tokenSecretRef : V],
                    servedName : V, contextLength : Nat],
           cfg   : [defaultImage : V, initData : V]] :
      x.spec.weightsCache \/ x.spec.cacheLimit = None }

\* The input the run starts from is one of them.
LEMMA FirstAdmitted ==
  First \in Inputs({None, "m", "64Gi", "8", "c1", "r", "image", "blob"})
BY DEF First, Inputs, ServiceSpecs, Pairs

-----------------------------------------------------------------------------

(***************************************************************************)
(* --gpu-memory-utilization is the percentage as a decimal fraction, for   *)
(* every percentage that the schema admits, single digits included.        *)
(***************************************************************************)
THEOREM Exact ==
  ASSUME NEW V, after \in Inputs(V)
  PROVE  UtilizationExact
<1> DEFINE p == after.spec.gpuPercent
<1>1. p \in 1 .. 99
  BY DEF Inputs, ServiceSpecs
<1>2. Template(after).args.utilization = <<p \div 10, p % 10>>
  BY DEF Template, Deployment, engineArgs, utilizationDigits
<1> HIDE DEF p
<1>3. /\ p \div 10 \in 0 .. 9 /\ p % 10 \in 0 .. 9
      /\ (p \div 10) * 10 + (p % 10) = p
  BY <1>1
<1> QED
  BY <1>2, <1>3 DEF UtilizationExact, p

LEMMA VolumeFields ==
  ASSUME NEW name, NEW source, NEW ref
  PROVE  /\ Volume(name, source, ref).name = name
         /\ Volume(name, source, ref).source = source
         /\ Volume(name, source, ref).ref = ref
BY DEF Volume

\* The volumes of a Pod, one by one.
LEMMA VolumesOf ==
  ASSUME NEW spec, spec.weightsCache \in BOOLEAN, NEW v
  PROVE  v \in volumes(spec)
           <=> \/ v = Volume("dshm", "memory", "8Gi")
               \/ v = Volume("trusted-image", "claim", spec.claim)
               \/ spec.weightsCache /\ v = Volume("models", "emptyDir", spec.cacheLimit)
               \/ spec.weightsCache /\ v = Volume("gai", "configMap", GaiConfigMapName)
BY DEF volumes

(***************************************************************************)
(* Whatever the inputs, the rendered Pod is complete: each mount and each  *)
(* device has its volume, no volume is left over, and the endpoint in the  *)
(* status leads to this Pod and no other.                                  *)
(***************************************************************************)
THEOREM Complete ==
  ASSUME NEW V, after \in Inputs(V)
  PROVE  PodIsComplete
<1> DEFINE t == Template(after)
<1>1. after.spec.weightsCache \in BOOLEAN
  BY DEF Inputs, ServiceSpecs
<1>2. /\ t.volumes = volumes(after.spec) /\ t.mounts = volumeMounts(after.spec)
      /\ t.devices = {"trusted-image"} /\ t.port = servingPort
  BY DEF Template, Deployment, volumeDevices
<1>3. \A v, w \in volumes(after.spec) : v.name = w.name => v = w
  BY <1>1, VolumesOf, VolumeFields
<1>4. \A m \in volumeMounts(after.spec) :
        \E v \in volumes(after.spec) : v.name = m /\ v.source # "claim"
  BY <1>1, VolumesOf, VolumeFields DEF volumeMounts
<1>5. \E v \in volumes(after.spec) : v.name = "trusted-image" /\ v.source = "claim"
  BY <1>1, VolumesOf, VolumeFields
<1>6. \A v \in volumes(after.spec) :
        /\ v.name \in volumeMounts(after.spec) \cup {"trusted-image"}
        /\ v.source = "configMap" => v.ref = GaiConfigMapName /\ after.spec.weightsCache
  BY <1>1, VolumesOf, VolumeFields DEF volumeMounts
<1>7. ASSUME NEW a \in {"a", "b"}, NEW b \in {"a", "b"}
      PROVE  LET url == EndpointURL(a)  svc == Service(b)
             IN  ( /\ url.host = svc.name /\ url.port = svc.port
                   /\ svc.targetPort = t.port /\ Selects(svc, labels(b)) ) <=> a = b
  <2>1. Selects(Service(b), labels(b))
    BY DEF Selects, Service, labels
  <2>2. ServiceName(a) = ServiceName(b) <=> a = b
    BY DEF ServiceName
  <2> QED
    BY <1>2, <2>1, <2>2 DEF EndpointURL, Service
<1> HIDE DEF t
<1> QED
  BY <1>2, <1>3, <1>4, <1>5, <1>6, <1>7 DEF PodIsComplete, t

-----------------------------------------------------------------------------
(* Rolls: each part of the template determines the inputs it is made of. *)

\* Volumes tell the claim, whether there is a cache, and its limit.
LEMMA VolumesTell ==
  ASSUME NEW V, NEW r \in ServiceSpecs(V), NEW s \in ServiceSpecs(V),
         r.weightsCache \/ r.cacheLimit = None,
         s.weightsCache \/ s.cacheLimit = None
  PROVE  volumes(r) = volumes(s)
           <=> /\ r.claim = s.claim /\ r.weightsCache = s.weightsCache
               /\ r.cacheLimit = s.cacheLimit
<1>1. r.weightsCache \in BOOLEAN /\ s.weightsCache \in BOOLEAN
  BY DEF ServiceSpecs
<1>3. ASSUME volumes(r) = volumes(s)
      PROVE  /\ r.claim = s.claim /\ r.weightsCache = s.weightsCache
             /\ r.cacheLimit = s.cacheLimit
  <2>1. r.claim = s.claim
    <3>1. Volume("trusted-image", "claim", r.claim) \in volumes(s)
      BY <1>1, <1>3, VolumesOf
    <3> QED
      BY <1>1, <3>1, VolumesOf, VolumeFields
  <2>2. r.weightsCache => s.weightsCache /\ r.cacheLimit = s.cacheLimit
    <3>1. r.weightsCache => Volume("models", "emptyDir", r.cacheLimit) \in volumes(r)
      BY DEF volumes
    <3>2. r.weightsCache => Volume("models", "emptyDir", r.cacheLimit) \in volumes(s)
      BY <1>3, <3>1
    <3> QED
      BY <1>1, <3>2, VolumesOf, VolumeFields
  <2>3. s.weightsCache => r.weightsCache
    <3>1. s.weightsCache => Volume("models", "emptyDir", s.cacheLimit) \in volumes(s)
      BY DEF volumes
    <3>2. s.weightsCache => Volume("models", "emptyDir", s.cacheLimit) \in volumes(r)
      BY <1>3, <3>1
    <3> QED
      BY <1>1, <3>2, VolumesOf, VolumeFields
  <2> QED
    BY <1>1, <2>1, <2>2, <2>3
<1>4. ASSUME r.claim = s.claim, r.weightsCache = s.weightsCache,
             r.cacheLimit = s.cacheLimit
      PROVE  volumes(r) = volumes(s)
  BY <1>4 DEF volumes
<1> QED
  BY <1>3, <1>4

\* Digits tell the percentage.
LEMMA DigitsTell ==
  ASSUME NEW p \in 1 .. 99, NEW q \in 1 .. 99
  PROVE  utilizationDigits(p) = utilizationDigits(q) <=> p = q
<1>1. p = (p \div 10) * 10 + (p % 10) /\ q = (q \div 10) * 10 + (q % 10)
  OBVIOUS
<1>2. utilizationDigits(p) = utilizationDigits(q)
        => p \div 10 = q \div 10 /\ p % 10 = q % 10
  BY DEF utilizationDigits
<1> QED
  BY <1>1, <1>2

\* A pair of limit and request tells what it resolves to.
LEMMA PairTells ==
  ASSUME NEW V, NEW p \in Pairs(V), NEW q \in Pairs(V)
  PROVE  <<p.limit, requestOrLimit(p)>> = <<q.limit, requestOrLimit(q)>>
           <=> Resolved(p) = Resolved(q)
<1>1. /\ Resolved(p) = [limit |-> p.limit, request |-> requestOrLimit(p)]
      /\ Resolved(q) = [limit |-> q.limit, request |-> requestOrLimit(q)]
  BY DEF Pairs, Resolved, requestOrLimit
<1> QED
  BY <1>1

\* The fields in which the effects of two inputs can differ.
LEMMA EffectFields ==
  ASSUME NEW V, NEW x \in Inputs(V), NEW y \in Inputs(V)
  PROVE  Effective(x) = Effective(y)
           <=> /\ ServedModelName(x.spec.modelRef, x.model)
                    = ServedModelName(y.spec.modelRef, y.model)
               /\ x.spec.quantization = y.spec.quantization
               /\ x.spec.maxModelLen = y.spec.maxModelLen
               /\ x.spec.gpuPercent = y.spec.gpuPercent
               /\ Resolved(x.spec.memory) = Resolved(y.spec.memory)
               /\ Resolved(x.spec.cpu) = Resolved(y.spec.cpu)
               /\ x.spec.claim = y.spec.claim
               /\ x.spec.weightsCache = y.spec.weightsCache
               /\ x.spec.cacheLimit = y.spec.cacheLimit
               /\ failureThreshold(x.spec) = failureThreshold(y.spec)
               /\ x.model.source.repo = y.model.source.repo
               /\ x.model.source.revision = y.model.source.revision
               /\ x.model.source.tokenSecretRef = y.model.source.tokenSecretRef
               /\ x.cfg = y.cfg
<1> DEFINE E(z) == [modelRef |-> ServedModelName(z.spec.modelRef, z.model),
                    quantization |-> z.spec.quantization,
                    maxModelLen |-> z.spec.maxModelLen,
                    gpuPercent |-> z.spec.gpuPercent,
                    memory |-> Resolved(z.spec.memory),
                    cpu |-> Resolved(z.spec.cpu),
                    claim |-> z.spec.claim, localVolume |-> FALSE,
                    weightsCache |-> z.spec.weightsCache,
                    cacheLimit |-> z.spec.cacheLimit,
                    failureThreshold |-> failureThreshold(z.spec)]
<1>1. ASSUME NEW z \in Inputs(V)
      PROVE  Effective(z).spec = E(z)
  <2>1. z.spec \in ServiceSpecs(V)
    BY DEF Inputs
  <2> QED
    BY <2>1 DEF Effective, ServiceSpecs
<1>2. Effective(x) = Effective(y)
        <=> E(x) = E(y) /\ x.model.source = y.model.source /\ x.cfg = y.cfg
  <2> HIDE DEF E
  <2>1. Effective(x).spec = E(x) /\ Effective(y).spec = E(y)
    BY <1>1
  <2> QED
    BY <2>1 DEF Effective
<1>3. x.model.source = y.model.source
        <=> /\ x.model.source.repo = y.model.source.repo
            /\ x.model.source.revision = y.model.source.revision
            /\ x.model.source.tokenSecretRef = y.model.source.tokenSecretRef
  <2>1. /\ x.model.source \in [repo : V, revision : V, tokenSecretRef : V]
        /\ y.model.source \in [repo : V, revision : V, tokenSecretRef : V]
    BY DEF Inputs
  <2> QED
    BY <2>1
<1> QED
  BY <1>2, <1>3

(***************************************************************************)
(* A Pod rolls for what it is to follow and for nothing else: two inputs   *)
(* that are the same after defaults give the same template, and two that   *)
(* give the same template are the same after defaults, once they are put   *)
(* at the same revision of the weights: no other field that is accepted is *)
(* lost on the way to the Pod.  A default made explicit and an edit of the *)
(* catalog never restart a guest.                                          *)
(***************************************************************************)
THEOREM RollsExactly ==
  ASSUME NEW V, before \in Inputs(V), after \in Inputs(V)
  PROVE  RollsOnlyForEffect
<1> DEFINE x == before
           y == after
<1>1. /\ x.spec \in ServiceSpecs(V) /\ y.spec \in ServiceSpecs(V)
      /\ x.spec.weightsCache \/ x.spec.cacheLimit = None
      /\ y.spec.weightsCache \/ y.spec.cacheLimit = None
      /\ x.cfg \in [defaultImage : V, initData : V]
      /\ y.cfg \in [defaultImage : V, initData : V]
  BY DEF Inputs
<1>2. /\ x.spec.gpuPercent \in 1 .. 99 /\ y.spec.gpuPercent \in 1 .. 99
      /\ x.spec.memory \in Pairs(V) /\ y.spec.memory \in Pairs(V)
      /\ x.spec.cpu \in Pairs(V) /\ y.spec.cpu \in Pairs(V)
  BY <1>1 DEF ServiceSpecs
<1>3. Template(x) = Template(y)
        <=> /\ x.cfg.defaultImage = y.cfg.defaultImage /\ x.cfg.initData = y.cfg.initData
            /\ engineArgs(x.spec, x.model) = engineArgs(y.spec, y.model)
            /\ engineEnv(x.model) = engineEnv(y.model)
            /\ <<x.spec.memory.limit, requestOrLimit(x.spec.memory)>>
                 = <<y.spec.memory.limit, requestOrLimit(y.spec.memory)>>
            /\ <<x.spec.cpu.limit, requestOrLimit(x.spec.cpu)>>
                 = <<y.spec.cpu.limit, requestOrLimit(y.spec.cpu)>>
            /\ volumes(x.spec) = volumes(y.spec)
            /\ volumeMounts(x.spec) = volumeMounts(y.spec)
            /\ failureThreshold(x.spec) = failureThreshold(y.spec)
  BY DEF Template, Deployment
<1>4. engineArgs(x.spec, x.model) = engineArgs(y.spec, y.model)
        <=> /\ x.model.source.repo = y.model.source.repo
            /\ ServedModelName(x.spec.modelRef, x.model)
                 = ServedModelName(y.spec.modelRef, y.model)
            /\ x.spec.quantization = y.spec.quantization
            /\ x.spec.maxModelLen = y.spec.maxModelLen
            /\ utilizationDigits(x.spec.gpuPercent) = utilizationDigits(y.spec.gpuPercent)
  BY DEF engineArgs
<1>5. engineEnv(x.model) = engineEnv(y.model)
        <=> x.model.source.tokenSecretRef = y.model.source.tokenSecretRef
  BY DEF engineEnv
<1>6. x.cfg = y.cfg
        <=> x.cfg.defaultImage = y.cfg.defaultImage /\ x.cfg.initData = y.cfg.initData
  BY <1>1
<1>7. utilizationDigits(x.spec.gpuPercent) = utilizationDigits(y.spec.gpuPercent)
        <=> x.spec.gpuPercent = y.spec.gpuPercent
  BY <1>2, DigitsTell
<1>8. /\ <<x.spec.memory.limit, requestOrLimit(x.spec.memory)>>
           = <<y.spec.memory.limit, requestOrLimit(y.spec.memory)>>
         <=> Resolved(x.spec.memory) = Resolved(y.spec.memory)
      /\ <<x.spec.cpu.limit, requestOrLimit(x.spec.cpu)>>
           = <<y.spec.cpu.limit, requestOrLimit(y.spec.cpu)>>
         <=> Resolved(x.spec.cpu) = Resolved(y.spec.cpu)
  BY <1>2, PairTells
<1>9. volumes(x.spec) = volumes(y.spec)
        <=> /\ x.spec.claim = y.spec.claim /\ x.spec.weightsCache = y.spec.weightsCache
            /\ x.spec.cacheLimit = y.spec.cacheLimit
  BY <1>1, VolumesTell
<1>10. x.spec.weightsCache = y.spec.weightsCache
         => volumeMounts(x.spec) = volumeMounts(y.spec)
  BY DEF volumeMounts
<1>11. Template(x) # Template(y) => Effective(x) # Effective(y)
  BY <1>3, <1>4, <1>5, <1>6, <1>7, <1>8, <1>9, <1>10, EffectFields
<1>12. Repinned \in Inputs(V)
  BY DEF Repinned, Inputs
<1>13. /\ Repinned.spec = x.spec /\ Repinned.cfg = x.cfg
       /\ Repinned.model.source.repo = x.model.source.repo
       /\ Repinned.model.source.revision = y.model.source.revision
       /\ Repinned.model.source.tokenSecretRef = x.model.source.tokenSecretRef
       /\ ServedModelName(Repinned.spec.modelRef, Repinned.model)
            = ServedModelName(x.spec.modelRef, x.model)
  BY DEF Repinned, Inputs, ServedModelName
<1>14. Template(x) = Template(y) => Effective(Repinned) = Effective(y)
  BY <1>3, <1>4, <1>5, <1>6, <1>7, <1>8, <1>9, <1>12, <1>13, EffectFields
<1> QED
  BY <1>11, <1>14 DEF RollsOnlyForEffect

=============================================================================

------------------------------ MODULE MCRender ------------------------------
(***************************************************************************)
(* The renderer under one edit after another: `before` and `after` are the *)
(* inputs of two renders in a row, which differ in one field.  Both pass   *)
(* the checks that come before the render.                                 *)
(***************************************************************************)
EXTENDS Render

VARIABLES before, after

vars == <<before, after>>

First ==
  [spec  |-> [modelRef |-> "m", quantization |-> None, maxModelLen |-> 256, gpuPercent |-> 90,
              memory |-> [limit |-> "64Gi", request |-> None],
              cpu |-> [limit |-> "8", request |-> None],
              claim |-> "c1", localVolume |-> FALSE, weightsCache |-> FALSE,
              cacheLimit |-> None, failureThreshold |-> None],
   model |-> [source |-> [repo |-> "r", revision |-> None, tokenSecretRef |-> None],
              servedName |-> None, contextLength |-> 512],
   cfg   |-> [defaultImage |-> "image", initData |-> "blob"]]

\* One field of the inputs has another value.
Edits(x) ==
  UNION { {[x EXCEPT !.spec.modelRef = m]             : m \in {"m", "n"}},
          {[x EXCEPT !.spec.gpuPercent = p]           : p \in {9, 90, 99}},
          {[x EXCEPT !.spec.maxModelLen = n]          : n \in {256, 512}},
          {[x EXCEPT !.spec.memory.request = r]       : r \in {None, "32Gi", "64Gi"}},
          {[x EXCEPT !.spec.cpu.request = r]          : r \in {None, "8"}},
          {[x EXCEPT !.spec.claim = c]                : c \in {"c1", "c2"}},
          {[x EXCEPT !.spec.weightsCache = b, !.spec.cacheLimit = None] : b \in BOOLEAN},
          {[x EXCEPT !.spec.weightsCache = TRUE, !.spec.cacheLimit = "100Gi"]},
          {[x EXCEPT !.spec.failureThreshold = f]     : f \in {None, 120, 240}},
          {[x EXCEPT !.cfg.initData = b]              : b \in {"blob", "new blob"}},
          {[x EXCEPT !.model.source.revision = r]     : r \in {None, "commit"}},
          {[x EXCEPT !.model.source.tokenSecretRef = r] : r \in {None, "hf-token"}},
          {[x EXCEPT !.model.servedName = s]          : s \in {None, "m"}},
          {[x EXCEPT !.model.contextLength = n]       : n \in {512, 1024}} }
  \ {x}

Init == before = First /\ after = First

Next == before' = after /\ after' \in Edits(after)

Spec == Init /\ [][Next]_vars

Template(x) == Deployment(x.spec, x.model, x.cfg)

-----------------------------------------------------------------------------
(* Properties *)

\* The Service's selector matches the labels.
Selects(service, podLabels) ==
  \A key \in DOMAIN service.selector :
    key \in DOMAIN podLabels /\ podLabels[key] = service.selector[key]

\* The pod that Deployment renders can be scheduled: volume names are distinct,
\* what is mounted is a volume that is not the block claim, and the one device
\* is the claim; the gai ConfigMap is used only where Reconcile creates it.  And
\* it can be reached: the URL in a CR's status leads over this CR's Service to the
\* port of this CR's Pods, and to no other's.
PodIsComplete ==
  LET t == Template(after)
  IN  /\ \A v, w \in t.volumes : v.name = w.name => v = w
      /\ \A m \in t.mounts : \E v \in t.volumes : v.name = m /\ v.source # "claim"
      /\ \A d \in t.devices : \E v \in t.volumes : v.name = d /\ v.source = "claim"
      /\ \A v \in t.volumes :
           /\ v.name \in t.mounts \cup t.devices
           /\ v.source = "configMap" => v.ref = GaiConfigMapName /\ after.spec.weightsCache
      /\ \A a, b \in {"a", "b"} :
           LET url == EndpointURL(a)  svc == Service(b)
           IN  ( /\ url.host = svc.name /\ url.port = svc.port
                 /\ svc.targetPort = t.port /\ Selects(svc, labels(b)) ) <=> a = b

\* "rendered as --gpu-memory-utilization=<n/100>" (EngineSpec): the digits after
\* the point, read as a decimal fraction, are the percentage.
UtilizationExact ==
  LET digits == Template(after).args.utilization
  IN  /\ Len(digits) \in 1 .. 2 /\ \A i \in DOMAIN digits : digits[i] \in 0 .. 9
      /\ digits[1] * 10 + (IF Len(digits) = 2 THEN digits[2] ELSE 0) = after.spec.gpuPercent

\* An optional request that is not set is the limit.
Resolved(pair) == [pair EXCEPT !.request = IF @ = None THEN pair.limit ELSE @]

\* What an edit can be for: the inputs with their defaults resolved.  Of the model's
\* name it is what the model is served as, and the catalog is for nobody's Pod.
Effective(x) ==
  [spec   |-> [x.spec EXCEPT !.modelRef = ServedModelName(x.spec.modelRef, x.model),
                             !.memory = Resolved(@),
                             !.cpu = Resolved(@),
                             !.failureThreshold = failureThreshold(x.spec)],
   source |-> x.model.source,
   cfg    |-> x.cfg]

\* The inputs before the edit, at the revision they have after it.
Repinned == [before EXCEPT !.model.source.revision = after.model.source.revision]

\* A template change restarts a confidential guest for 20 minutes or more
\* (strategy Recreate): Deployment changes the pod only when something has changed
\* that it is to follow, not for a catalog edit or a default made explicit.  And of
\* all that it is to follow it misses one thing: engineArgs and engineEnv do not read
\* the revision, which "pins a Hugging Face commit for deterministic weights"
\* (HuggingFaceSource).
RollsOnlyForEffect ==
  /\ Template(before) # Template(after) => Effective(before) # Effective(after)
  /\ Template(before) = Template(after) => Effective(Repinned) = Effective(after)

=============================================================================

-------------------------- MODULE AppendOnlyProofs --------------------------
(***************************************************************************)
(* What the order of creation is worth.  Exclusive, in                     *)
(* InferenceServiceProofs, assumes that the list of Deployments has what   *)
(* the operator itself applied.  Here every cache may be behind, and the   *)
(* guard's other list, of the siblings, does the work: when CRs are        *)
(* created one per second, are not deleted and do not move to another      *)
(* claim, only the oldest CR of a claim passes.                            *)
(*   ExclusiveByAge  no Deployment of the operator's shares its claim;     *)
(*   HasWinner       the oldest CR of a claim that nothing else holds is   *)
(*                   not refused;                                          *)
(*   Arbitrates      the reconciler implements ClaimArbitration.           *)
(***************************************************************************)
EXTENDS ConvergenceProofs, WellFoundedInduction

-----------------------------------------------------------------------------
(* The premise, and the invariant *)

\* CRs are created one per second, stay, and keep their claim.
AppendOnly ==
  /\ "delete" \notin Ops /\ "sameSecond" \notin Ops
  /\ \A n \in Names : \A s, t \in Specs[n] : s.claim = t.claim

SpecsKnown ==
  /\ SpecsOwn(isvc) /\ SpecsOwn(cache.isvc)
  /\ worker # Idle => worker.isvc.spec \in Specs[worker.name]

\* No two CRs have one creationTimestamp.
Stamped ==
  \A n \in Names : isvc[n] # None =>
    /\ isvc[n].created <= clock
    /\ \A o \in Names \ {n} : isvc[o] # None => isvc[o].created # isvc[n].created

\* i is a copy, of whatever age, of the live CR n.
CopyOf(i, n) == isvc[n] # None /\ i.uid = isvc[n].uid /\ i.created = isvc[n].created

\* The cache is a snapshot: with a CR it has every older one.
Snapshot ==
  \A n \in Names : cache.isvc[n] # None =>
    /\ CopyOf(cache.isvc[n], n)
    /\ \A o \in Names : isvc[o] # None /\ isvc[o].created < isvc[n].created
                          => cache.isvc[o] # None

CopyListed == worker # Idle => /\ CopyOf(worker.isvc, worker.name)
                               /\ SeenIsvc[worker.name] # None

Older(o, n) == /\ isvc[o] # None /\ isvc[o].spec.claim = isvc[n].spec.claim
               /\ isvc[o].created < isvc[n].created

Eldest(n) == \A o \in Names : ~Older(o, n)

HandWrittenOn(d, c) == /\ deployment[d] # None /\ deployment[d].owner = None
                       /\ podSpecMountsClaim(deployment[d].template, c)

Unclaimed(n) == \A d \in DeploymentNames : ~HandWrittenOn(d, isvc[n].spec.claim)

\* What the worker knows after the list of siblings, and after that of Deployments.
Passed ==
  /\ worker.pc \in Guarded \cup {"listDeployments"} => Eldest(worker.name)
  /\ worker.pc \in Guarded => Unclaimed(worker.name)

\* A Deployment of the operator's is that of the oldest CR of the claim it mounts.
OwnedByEldest(n, d) ==
  d # None /\ d.owner # None =>
    /\ isvc[n] # None /\ d.owner = isvc[n].uid /\ Eldest(n)
    /\ \A c : podSpecMountsClaim(d.template, c) => c = isvc[n].spec.claim

Owned ==
  \A n \in Names :
    /\ OwnedByEldest(n, deployment[n]) /\ OwnedByEldest(n, cache.deployment[n])
    /\ deployment[n] # None /\ deployment[n].owner # None => Unclaimed(n)

AppendOnlyInv ==
  /\ TypeInv /\ SpecsKnown /\ Stamped /\ Snapshot /\ CopyListed
  /\ Passed /\ HandWrittenSeen /\ Owned

-----------------------------------------------------------------------------
(* How CRs change: they are added, with a later timestamp, and stay *)

Grows ==
  /\ SpecsOwn(isvc') /\ clock <= clock'
  /\ \A n \in Names : isvc[n] # None => CopyOf(isvc'[n], n) /\ isvc'[n] # None
  /\ \A n \in Names : isvc[n] = None /\ isvc'[n] # None =>
       isvc'[n].created = clock' /\ clock < clock'
  /\ \A n, o \in Names : isvc[n] = None /\ isvc'[n] # None /\ isvc[o] = None /\ isvc'[o] # None
                           => n = o

LEMMA SameGrows ==
  ASSUME TypeOK, SpecsOwn(isvc), UNCHANGED <<isvc, clock>>
  PROVE  Grows
BY DEF Grows, CopyOf, TypeOK, CounterTypeOK

LEMMA CreateGrows ==
  ASSUME AppendOnly, TypeOK, SpecsOwn(isvc),
         NEW n \in Names, NEW spec \in Specs[n], NEW second \in {clock, clock + 1},
         CreateInferenceService(n, spec, second)
  PROVE  Grows
<1> DEFINE new == [uid |-> Uid(n, serial + 1), created |-> second,
                   generation |-> 1, spec |-> spec, status |-> NoStatus]
<1>1. isvc' = [isvc EXCEPT ![n] = new] /\ new.spec = spec /\ new.created = second
  BY DEF CreateInferenceService
<1>2. isvc[n] = None /\ clock' = second /\ second = clock + 1 /\ clock \in Nat
  BY DEF CreateInferenceService, AppendOnly, TypeOK, CounterTypeOK
<1>3. clock <= clock' /\ clock < clock'
  BY <1>2
<1> HIDE DEF new
<1>4. isvc'[n] = new /\ \A o \in Names \ {n} : isvc'[o] = isvc[o]
  BY <1>1 DEF TypeOK, IsvcTypeOK
<1>5. SpecsOwn(isvc')
  BY <1>1, <1>4 DEF SpecsOwn
<1> QED
  BY <1>1, <1>2, <1>3, <1>4, <1>5 DEF Grows, CopyOf

\* A CR gets another spec of its own, or another status.
LEMMA ChangeGrows ==
  ASSUME TypeOK, SpecsOwn(isvc), NEW n \in Names, isvc[n] # None,
         NEW new \in Isvcs, new.spec \in Specs[n],
         new.uid = isvc[n].uid, new.created = isvc[n].created,
         isvc' = [isvc EXCEPT ![n] = new], UNCHANGED clock
  PROVE  Grows
<1>1. isvc'[n] = new /\ \A o \in Names \ {n} : isvc'[o] = isvc[o]
  BY DEF TypeOK, IsvcTypeOK
<1>2. clock <= clock'
  BY DEF TypeOK, CounterTypeOK
<1> QED
  BY <1>1, <1>2, NoneAssumption DEF Grows, CopyOf, SpecsOwn

LEMMA EditGrows ==
  ASSUME TypeOK, SpecsOwn(isvc), NEW n \in Names, NEW spec \in Specs[n],
         EditInferenceService(n, spec)
  PROVE  Grows
<1>1. isvc[n] \in Isvcs /\ isvc[n] # None /\ UNCHANGED clock
  BY DEF EditInferenceService, TypeOK, IsvcTypeOK
<1> DEFINE new == [isvc[n] EXCEPT !.spec = spec, !.generation = isvc[n].generation + 1]
<1>2. /\ isvc' = [isvc EXCEPT ![n] = new] /\ new.spec = spec
      /\ new.uid = isvc[n].uid /\ new.created = isvc[n].created
  BY <1>1 DEF EditInferenceService, Isvcs
<1>3. new \in Isvcs
  <2>1. spec \in AllSpecs
    BY DEF AllSpecs
  <2>2. isvc[n].generation + 1 \in Nat
    BY <1>1 DEF Isvcs
  <2> QED
    BY <1>1, <2>1, <2>2 DEF Isvcs
<1> HIDE DEF new
<1> QED
  BY <1>1, <1>2, <1>3, ChangeGrows

\* The status update reaches the CR it is about.
LEMMA UpdateGrows ==
  ASSUME TypeInv, SpecsOwn(isvc), UpdateStatus
  PROVE  Grows
<1> USE DEF TypeInv
<1>1. UNCHANGED clock /\ worker # Idle /\ worker.name \in Names /\ worker.isvc \in Isvcs
  BY NewStatusType DEF UpdateStatus, Busy, envVars
<1>2. CASE ~worker.fresh
  BY <1>1, <1>2, SameGrows DEF UpdateStatus
<1>3. CASE worker.fresh
  <2>1. PICK n \in Names : n = worker.name
    BY <1>1
  <2>2. isvc[n] = worker.isvc /\ isvc[n] \in Isvcs /\ isvc[n] # None
    BY <1>1, <1>3, <2>1, NoneAssumption DEF CopyFresh
  <2> DEFINE new == [isvc[n] EXCEPT !.status = NewStatus(worker)]
  <2>3. /\ isvc' = [isvc EXCEPT ![n] = new] /\ new.spec = isvc[n].spec
        /\ new.uid = isvc[n].uid /\ new.created = isvc[n].created
    BY <1>3, <2>1, <2>2 DEF UpdateStatus, Isvcs
  <2>4. new \in Isvcs
    BY <2>2, NewStatusType DEF UpdateStatus, Isvcs
  <2> HIDE DEF new
  <2> QED
    BY <1>1, <2>2, <2>3, <2>4, ChangeGrows DEF SpecsOwn
<1> QED
  BY <1>2, <1>3

LEMMA StepGrows ==
  ASSUME AppendOnly, TypeInv, SpecsOwn(isvc), [Next]_vars
  PROVE  Grows
<1>1. TypeOK
  BY DEF TypeInv
<1>2. CASE UNCHANGED <<isvc, clock>>
  BY <1>1, <1>2, SameGrows
<1>3. ~\E n \in Names : DeleteInferenceService(n)
  BY DEF AppendOnly, DeleteInferenceService, Operation
<1>4. CASE User
  BY <1>1, <1>2, <1>3, <1>4, CreateGrows, EditGrows DEF User, AnnotateInferenceService,
     DriftDeployment, DriftService, ChangeTenant, ChangeModel, RetireDeployment, RetirePod
<1>5. CASE Kubernetes
  BY <1>2, <1>5 DEF Kubernetes, CollectDeployment, CollectService, RollOut, BecomeAvailable,
     FailPod, envVars
<1>6. CASE Reconcile
  BY <1>2, <1>6, UpdateGrows DEF Reconcile, GetInferenceService, GetTenant, GetModel,
     ListSiblings, ListDeployments, ListPods, ApplyConfigMap, ApplyDeployment, ApplyService, envVars
<1>7. CASE Inform \/ Restart \/ ApiError \/ UNCHANGED vars
  BY <1>2, <1>7 DEF Inform, InformIsvc, InformTenant, InformModel, InformDeployment,
     InformService, InformPod, Restart, ApiError, envVars, vars
<1> QED
  BY <1>4, <1>5, <1>6, <1>7 DEF Next

\* The order of age among CRs is for good.
LEMMA OlderKept ==
  ASSUME AppendOnly, TypeOK, TypeOK', SpecsOwn(isvc), Stamped, Grows,
         NEW n \in Names, isvc[n] # None
  PROVE  /\ isvc'[n] # None /\ isvc'[n].spec.claim = isvc[n].spec.claim
         /\ isvc'[n].uid = isvc[n].uid /\ isvc'[n].created = isvc[n].created
         /\ \A o \in Names : Older(o, n)' <=> Older(o, n)
         /\ Eldest(n)' <=> Eldest(n)
<1>1. ASSUME NEW o \in Names, isvc[o] # None
      PROVE  /\ isvc'[o] # None /\ isvc'[o].spec.claim = isvc[o].spec.claim
             /\ isvc'[o].uid = isvc[o].uid /\ isvc'[o].created = isvc[o].created
  BY <1>1 DEF Grows, CopyOf, SpecsOwn, AppendOnly
<1>2. ASSUME NEW o \in Names PROVE Older(o, n)' <=> Older(o, n)
  <2>1. CASE isvc[o] # None
    BY <1>1, <2>1 DEF Older
  <2>2. CASE isvc[o] = None /\ isvc'[o] # None
    <3>1. isvc'[o].created = clock' /\ clock < clock' /\ isvc[n].created <= clock
      BY <2>2 DEF Grows, Stamped
    <3>2. isvc[n].created \in Nat /\ clock \in Nat /\ clock' \in Nat
      BY DEF TypeOK, IsvcTypeOK, Isvcs, CounterTypeOK
    <3>3. ~(isvc'[o].created < isvc'[n].created)
      BY <1>1, <3>1, <3>2
    <3> QED
      BY <2>2, <3>3 DEF Older
  <2>3. CASE isvc[o] = None /\ isvc'[o] = None
    BY <2>3 DEF Older
  <2> QED
    BY <2>1, <2>2, <2>3
<1> QED
  BY <1>1, <1>2 DEF Eldest

LEMMA StampedKept ==
  ASSUME TypeOK, TypeOK', Stamped, Grows
  PROVE  Stamped'
<1> SUFFICES ASSUME NEW n \in Names, isvc'[n] # None
             PROVE  /\ isvc'[n].created <= clock'
                    /\ \A o \in Names \ {n} :
                         isvc'[o] # None => isvc'[o].created # isvc'[n].created
  BY DEF Stamped
<1>1. clock \in Nat /\ clock' \in Nat
  BY DEF TypeOK, CounterTypeOK
<1>2. ASSUME NEW o \in Names, isvc[o] # None
      PROVE  /\ isvc'[o].created = isvc[o].created /\ isvc[o].created \in Nat
             /\ isvc[o].created <= clock
  BY <1>2 DEF Grows, CopyOf, Stamped, TypeOK, IsvcTypeOK, Isvcs
<1>3. ASSUME NEW o \in Names, isvc[o] = None, isvc'[o] # None
      PROVE  isvc'[o].created = clock' /\ clock < clock'
  BY <1>3 DEF Grows
<1>4. isvc'[n].created <= clock'
  BY <1>1, <1>2, <1>3 DEF Grows
<1>5. ASSUME NEW o \in Names \ {n}, isvc'[o] # None
      PROVE  isvc'[o].created # isvc'[n].created
  <2>1. CASE isvc[o] # None /\ isvc[n] # None
    BY <1>2, <2>1 DEF Stamped
  <2>2. CASE isvc[o] = None /\ isvc[n] = None
    BY <1>5, <2>2 DEF Grows
  <2>3. CASE isvc[o] # None /\ isvc[n] = None
    BY <1>1, <1>2, <1>3, <2>3
  <2>4. CASE isvc[o] = None /\ isvc[n] # None
    BY <1>1, <1>2, <1>3, <1>5, <2>4
  <2> QED
    BY <2>1, <2>2, <2>3, <2>4
<1> QED
  BY <1>4, <1>5

-----------------------------------------------------------------------------
(* How the worker changes *)

\* The calls between the guard and the end of the applies it is for.
Applying == {"applyConfigMap", "applyDeployment"}

\* The worker takes up a request.
Takes ==
  \E n \in Names : /\ SeenIsvc[n] # None
                   /\ worker'.name = n /\ worker'.isvc = SeenIsvc[n]
                   /\ worker'.pc = "getTenant" /\ worker'.verdict = "Unset"
                   /\ UNCHANGED <<isvc, cache>>

\* It goes on with one; what it comes to know, it has just read.
Carries ==
  /\ worker # Idle /\ worker'.name = worker.name /\ worker'.isvc = worker.isvc
  /\ worker'.pc = "listDeployments" =>
       worker.pc = "listDeployments" \/ ~SiblingConflict(worker.name, worker.isvc, SeenIsvc)
  /\ worker'.pc \in Guarded =>
       \/ worker.pc \in Guarded
       \/ /\ worker.pc = "listDeployments"
          /\ ~DeploymentConflict(worker.isvc, SeenDeployment)
  /\ worker'.pc \in Applying =>
       worker.pc \in Applying \/ worker.isvc.spec.claim \notin SeenPods
  /\ worker'.verdict = "TrustedStoreConflict" => worker.pc # "applyDeployment"
  /\ worker'.verdict = "TrustedStoreConflict" =>
       \/ worker.verdict = "TrustedStoreConflict"
       \/ SiblingConflict(worker.name, worker.isvc, SeenIsvc)
       \/ DeploymentConflict(worker.isvc, SeenDeployment)
       \/ worker.isvc.spec.claim \in SeenPods

LEMMA SameWorkCarries ==
  ASSUME TypeOK, TypeOK', SameWork
  PROVE  worker' = Idle \/ Carries
<1>1. worker' # Idle => worker # Idle
  BY SameWorkBusy DEF TypeOK
<1>2. worker.pc = "applyDeployment" => worker.verdict = "Unset"
  BY DEF TypeOK, WorkerTypeOK, Idle
<1> QED
  BY <1>1, <1>2 DEF SameWork, Carries, Applying

LEMMA ReadCarries ==
  ASSUME TypeOK, GetTenant \/ GetModel \/ ListSiblings
  PROVE  Carries
<1>1. worker # Idle
  BY DEF Idle, GetTenant, GetModel, ListSiblings
<1>2. worker \in Busy /\ (worker.pc # "updateStatus" => worker.verdict = "Unset")
  BY <1>1 DEF TypeOK, WorkerTypeOK
<1>3. CASE GetTenant
  BY <1>1, <1>2, <1>3 DEF GetTenant, Fail, Busy, Carries, Guarded, Applying
<1>4. CASE GetModel
  <2> DEFINE m == SeenModel[worker.isvc.spec.modelRef]
             verdict == Invalid(worker.isvc.spec, m)
  <2>1. \/ worker' = [worker EXCEPT !.pc = "updateStatus", !.verdict = verdict]
        \/ worker' = [worker EXCEPT !.pc = "listSiblings", !.model = m]
    BY <1>4 DEF GetModel, Fail
  <2>2. verdict # "TrustedStoreConflict"
    BY DEF Invalid
  <2> HIDE DEF m, verdict
  <2>3. worker.verdict = "Unset"
    BY <1>2, <1>4 DEF GetModel
  <2>4. /\ worker'.name = worker.name /\ worker'.isvc = worker.isvc
        /\ worker'.pc \in {"updateStatus", "listSiblings"}
        /\ worker'.verdict # "TrustedStoreConflict"
    BY <1>2, <2>1, <2>2, <2>3 DEF Fail, Busy
  <2> QED
    BY <1>1, <2>4 DEF Carries, Guarded, Applying
<1>5. CASE ListSiblings
  BY <1>1, <1>2, <1>5 DEF ListSiblings, Fail, Busy, Carries, Guarded, Applying
<1> QED
  BY <1>3, <1>4, <1>5

LEMMA GuardCarries ==
  ASSUME TypeOK, ListDeployments \/ ListPods \/ ApplyConfigMap
  PROVE  Carries
<1>1. worker # Idle
  BY DEF Idle, ListDeployments, ListPods, ApplyConfigMap
<1>2. worker \in Busy /\ (worker.pc # "updateStatus" => worker.verdict = "Unset")
  BY <1>1 DEF TypeOK, WorkerTypeOK
<1>3. CASE ListDeployments
  BY <1>1, <1>2, <1>3 DEF ListDeployments, Fail, Busy, Carries, Guarded, Applying
<1>4. CASE ListPods
  BY <1>1, <1>2, <1>4 DEF ListPods, Fail, Busy, Carries, Guarded, Applying
<1>5. CASE ApplyConfigMap
  BY <1>1, <1>2, <1>5 DEF ApplyConfigMap, Fail, Busy, Carries, Guarded, Applying
<1> QED
  BY <1>3, <1>4, <1>5

LEMMA ApplyCarries ==
  ASSUME TypeOK, ApplyDeployment \/ ApplyService
  PROVE  worker' = Idle \/ Carries
<1>1. worker # Idle
  BY DEF Idle, ApplyDeployment, ApplyService
<1>2. worker \in Busy /\ (worker.pc # "updateStatus" => worker.verdict = "Unset")
  BY <1>1 DEF TypeOK, WorkerTypeOK
<1>3. CASE ApplyDeployment
  <2>1. worker' = [worker EXCEPT !.pc = "applyService",
                                 !.available = Applied(deployment[worker.name]).available]
    BY <1>3 DEF ApplyDeployment
  <2> QED
    BY <1>1, <1>2, <1>3, <2>1 DEF ApplyDeployment, Busy, Carries, Guarded, Applying
<1>4. CASE ApplyService
  <2>1. \/ worker' = Idle
        \/ worker' = [worker EXCEPT !.pc = "updateStatus", !.verdict = "Configured"]
    BY <1>4 DEF ApplyService, Requeue
  <2> QED
    BY <1>1, <1>2, <1>4, <2>1 DEF Busy, Carries, Guarded, Applying
<1> QED
  BY <1>3, <1>4

LEMMA WorkerStep ==
  ASSUME TypeInv, TypeInv', [Next]_vars
  PROVE  worker' = Idle \/ Takes \/ Carries
<1> USE DEF TypeInv
<1>1. CASE User \/ Kubernetes
  BY <1>1, ChangesAreEvents, SameWorkCarries
<1>2. CASE Inform \/ UNCHANGED vars
  <2>1. UNCHANGED worker
    BY <1>2 DEF Inform, InformIsvc, InformTenant, InformModel, InformDeployment, InformService,
           InformPod, vars
  <2> QED
    BY <2>1, SameWorkCarries DEF SameWork
<1>3. CASE Restart \/ ApiError \/ UpdateStatus
  BY <1>3 DEF Restart, ApiError, UpdateStatus, Requeue
<1>4. ASSUME NEW n \in Names, GetInferenceService(n) PROVE worker' = Idle \/ Takes
  <2>1. CASE SeenIsvc[n] = None
    BY <1>4, <2>1 DEF GetInferenceService
  <2>2. CASE SeenIsvc[n] # None
    BY <1>4, <2>2 DEF GetInferenceService, Takes, Idle
  <2> QED
    BY <2>1, <2>2
<1>5. CASE Reconcile
  BY <1>3, <1>4, <1>5, ReadCarries, GuardCarries, ApplyCarries DEF Reconcile
<1> QED
  BY <1>1, <1>2, <1>3, <1>5 DEF Next

-----------------------------------------------------------------------------
(* The guard's lists, from whatever cache, decide by the live CRs *)

\* What the worker's copy has in common with the CR.
LEMMA CopyClaim ==
  ASSUME AppendOnly, TypeOK, SpecsKnown, CopyListed, worker # Idle
  PROVE  /\ worker.name \in Names /\ isvc[worker.name] # None
         /\ worker.isvc.uid = isvc[worker.name].uid
         /\ worker.isvc.created = isvc[worker.name].created
         /\ worker.isvc.spec.claim = isvc[worker.name].spec.claim
<1>1. worker.name \in Names
  BY DEF TypeOK, WorkerTypeOK, Busy
<1> QED
  BY <1>1 DEF CopyListed, CopyOf, SpecsKnown, SpecsOwn, AppendOnly

\* What a read of CRs has in common with the live ones.
LEMMA SeenClaim ==
  ASSUME AppendOnly, TypeOK, SpecsKnown, Snapshot, NEW n \in Names, SeenIsvc[n] # None
  PROVE  /\ CopyOf(SeenIsvc[n], n) /\ SeenIsvc[n].spec \in Specs[n]
         /\ SeenIsvc[n].spec.claim = isvc[n].spec.claim
         /\ \A o \in Names : isvc[o] # None /\ isvc[o].created < isvc[n].created
                               => SeenIsvc[o] # None
<1>1. CASE "isvc" \in Lag
  BY <1>1 DEF SeenIsvc, Snapshot, CopyOf, SpecsKnown, SpecsOwn, AppendOnly
<1>2. CASE "isvc" \notin Lag
  BY <1>2 DEF SeenIsvc, CopyOf, SpecsKnown, SpecsOwn
<1> QED
  BY <1>1, <1>2

LEMMA SiblingsDecide ==
  ASSUME AppendOnly, TypeOK, SpecsKnown, Stamped, Snapshot, CopyListed, worker # Idle
  PROVE  SiblingConflict(worker.name, worker.isvc, SeenIsvc) <=> ~Eldest(worker.name)
<1>1. PICK n \in Names : n = worker.name
  BY CopyClaim
<1>2. /\ isvc[n] # None /\ worker.isvc.created = isvc[n].created
      /\ worker.isvc.spec.claim = isvc[n].spec.claim /\ SeenIsvc[n] # None
  BY <1>1, CopyClaim DEF CopyListed
<1>3. ASSUME NEW o \in Names, isvc[o] # None
      PROVE  isvc[o].created \in Nat /\ isvc[n].created \in Nat
  BY <1>2, <1>3 DEF TypeOK, IsvcTypeOK, Isvcs
<1>4. ASSUME NEW o \in Names \ {n}, SeenIsvc[o] # None,
             SeenIsvc[o].spec.claim = worker.isvc.spec.claim,
             precedes(SeenIsvc[o], o, worker.isvc, n)
      PROVE  Older(o, n)
  <2>1. /\ isvc[o] # None /\ SeenIsvc[o].created = isvc[o].created
        /\ SeenIsvc[o].spec.claim = isvc[o].spec.claim
    BY <1>4, SeenClaim DEF CopyOf
  <2>2. isvc[o].created # isvc[n].created
    BY <1>2, <2>1 DEF Stamped
  <2> QED
    BY <1>2, <1>4, <2>1, <2>2 DEF precedes, Older
<1>5. ASSUME NEW o \in Names, Older(o, n)
      PROVE  /\ o # n /\ SeenIsvc[o] # None
             /\ SeenIsvc[o].spec.claim = worker.isvc.spec.claim
             /\ precedes(SeenIsvc[o], o, worker.isvc, n)
  <2>1. isvc[o] # None /\ isvc[o].created < isvc[n].created
    BY <1>5 DEF Older
  <2>2. isvc[o].created # isvc[n].created
    BY <1>3, <2>1
  <2>3. SeenIsvc[o] # None
    BY <1>2, <2>1, SeenClaim
  <2>4. /\ SeenIsvc[o].created = isvc[o].created
        /\ SeenIsvc[o].spec.claim = isvc[o].spec.claim
    BY <2>3, SeenClaim DEF CopyOf
  <2> QED
    BY <1>2, <1>5, <2>1, <2>2, <2>3, <2>4 DEF Older, precedes
<1> QED
  BY <1>1, <1>4, <1>5 DEF SiblingConflict, Eldest

LEMMA DeploymentsDecide ==
  ASSUME AppendOnly, TypeOK, SpecsKnown, CopyListed, HandWrittenSeen, worker # Idle,
         ~DeploymentConflict(worker.isvc, SeenDeployment)
  PROVE  Unclaimed(worker.name)
<1> SUFFICES ASSUME NEW d \in DeploymentNames, HandWrittenOn(d, isvc[worker.name].spec.claim)
             PROVE  FALSE
  BY DEF Unclaimed
<1>1. podSpecMountsClaim(deployment[d].template, worker.isvc.spec.claim)
  BY CopyClaim DEF HandWrittenOn
<1>2. /\ SeenDeployment[d] # None /\ SeenDeployment[d].owner = None
      /\ SeenDeployment[d].template = deployment[d].template
  BY DEF HandWrittenOn, HandWrittenSeen, SeenDeployment
<1> QED
  BY <1>1, <1>2 DEF DeploymentConflict, IsControlledBy

-----------------------------------------------------------------------------
(* Every step keeps the invariant *)

LEMMA SpecsKnownKept ==
  ASSUME AppendOnly, AppendOnlyInv, [Next]_vars, TypeInv', Grows
  PROVE  SpecsKnown'
<1> USE DEF AppendOnlyInv, TypeInv
<1>1. SpecsOwn(isvc')
  BY DEF Grows
<1>2. SpecsOwn(cache'.isvc)
  BY CacheStep DEF SpecsKnown
<1>3. worker' # Idle => worker'.isvc.spec \in Specs[worker'.name]
  <2>1. CASE Takes
    BY <2>1, SeenClaim DEF Takes
  <2>2. CASE Carries
    BY <2>2 DEF Carries, SpecsKnown
  <2> QED
    BY <2>1, <2>2, WorkerStep
<1> QED
  BY <1>1, <1>2, <1>3 DEF SpecsKnown

LEMMA SnapshotKept ==
  ASSUME AppendOnly, AppendOnlyInv, [Next]_vars, TypeInv', Grows
  PROVE  Snapshot'
<1> USE DEF AppendOnlyInv, TypeInv
<1>1. CASE cache'.isvc = isvc /\ UNCHANGED isvc
  BY <1>1 DEF Snapshot, CopyOf
<1>2. CASE cache'.isvc = cache.isvc
  <2> SUFFICES ASSUME NEW n \in Names, cache.isvc[n] # None
               PROVE  /\ isvc'[n] # None /\ cache.isvc[n].uid = isvc'[n].uid
                      /\ cache.isvc[n].created = isvc'[n].created
                      /\ \A o \in Names :
                           isvc'[o] # None /\ isvc'[o].created < isvc'[n].created
                             => cache.isvc[o] # None
    BY <1>2 DEF Snapshot, CopyOf
  <2>1. /\ isvc[n] # None /\ cache.isvc[n].uid = isvc[n].uid
        /\ cache.isvc[n].created = isvc[n].created
        /\ isvc'[n] # None /\ isvc'[n].uid = isvc[n].uid /\ isvc'[n].created = isvc[n].created
    BY DEF Snapshot, CopyOf, Grows
  <2>2. ASSUME NEW o \in Names, isvc'[o] # None, isvc'[o].created < isvc'[n].created
        PROVE  cache.isvc[o] # None
    <3>1. CASE isvc[o] # None
      BY <2>1, <2>2, <3>1 DEF Snapshot, Grows, CopyOf
    <3>2. CASE isvc[o] = None
      <4>1. isvc'[o].created = clock' /\ clock < clock' /\ isvc[n].created <= clock
        BY <2>1, <2>2, <3>2 DEF Grows, Stamped
      <4>2. clock \in Nat /\ clock' \in Nat /\ isvc[n].created \in Nat
        BY <2>1 DEF TypeOK, CounterTypeOK, IsvcTypeOK, Isvcs
      <4> QED
        BY <2>1, <2>2, <4>1, <4>2
    <3> QED
      BY <3>1, <3>2
  <2> QED
    BY <2>1, <2>2
<1> QED
  BY <1>1, <1>2, CacheStep

LEMMA CopyListedKept ==
  ASSUME AppendOnly, AppendOnlyInv, [Next]_vars, TypeInv', Grows
  PROVE  CopyListed'
<1> USE DEF AppendOnlyInv, TypeInv
<1>1. ASSUME NEW n \in Names, isvc[n] # None, SeenIsvc[n] # None PROVE SeenIsvc'[n] # None
  BY <1>1, CacheStep DEF SeenIsvc, Grows
<1>2. CASE Takes
  <2>1. PICK n \in Names : /\ SeenIsvc[n] # None
                           /\ worker'.name = n /\ worker'.isvc = SeenIsvc[n]
                           /\ UNCHANGED <<isvc, cache>>
    BY <1>2 DEF Takes
  <2>2. CopyOf(SeenIsvc[n], n)
    BY <2>1, SeenClaim
  <2> QED
    BY <1>1, <2>1, <2>2 DEF CopyListed, CopyOf
<1>3. CASE Carries
  <2>1. PICK n \in Names : n = worker.name
    BY <1>3, CopyClaim DEF Carries
  <2>2. CopyOf(worker.isvc, n) /\ SeenIsvc[n] # None /\ isvc[n] # None
    BY <1>3, <2>1 DEF Carries, CopyListed, CopyOf
  <2>3. SeenIsvc'[n] # None /\ CopyOf(isvc'[n], n) /\ isvc'[n] # None
    BY <1>1, <2>2 DEF Grows
  <2>4. worker'.name = n /\ worker'.isvc = worker.isvc
    BY <1>3, <2>1 DEF Carries
  <2> QED
    BY <2>2, <2>3, <2>4 DEF CopyListed, CopyOf
<1> QED
  BY <1>2, <1>3, WorkerStep DEF CopyListed

\* A claim that no hand-written Deployment mounts is not taken by one later.
LEMMA UnclaimedKept ==
  ASSUME AppendOnly, AppendOnlyInv, [Next]_vars, TypeInv', Grows,
         NEW n \in Names, isvc[n] # None, Unclaimed(n)
  PROVE  Unclaimed(n)'
<1> USE DEF AppendOnlyInv, TypeInv
<1>1. isvc'[n].spec.claim = isvc[n].spec.claim
  BY OlderKept DEF SpecsKnown
<1>2. ASSUME NEW d \in DeploymentNames, HandWrittenOn(d, isvc[n].spec.claim)'
      PROVE  FALSE
  <2>1. deployment'[d] # None /\ deployment'[d].owner = None
    BY <1>2 DEF HandWrittenOn
  <2>2. /\ deployment[d] # None /\ deployment[d].owner = None
        /\ deployment'[d].template = deployment[d].template
    BY <2>1, DeploymentStep, HandWrittenStep
  <2> QED
    BY <1>1, <1>2, <2>2 DEF Unclaimed, HandWrittenOn
<1> QED
  BY <1>2 DEF Unclaimed

LEMMA PassedKept ==
  ASSUME AppendOnly, AppendOnlyInv, [Next]_vars, TypeInv', Grows
  PROVE  Passed'
<1> USE DEF AppendOnlyInv, TypeInv
<1>1. CASE worker' = Idle \/ Takes
  BY <1>1 DEF Takes, Passed, Idle, Guarded
<1>2. CASE Carries
  <2>1. PICK n \in Names : n = worker.name /\ n = worker'.name
    BY <1>2, CopyClaim DEF Carries
  <2>2. isvc[n] # None /\ worker # Idle
    BY <1>2, <2>1, CopyClaim DEF Carries
  <2>3. ASSUME worker'.pc \in Guarded \cup {"listDeployments"} PROVE Eldest(n)'
    <3>1. Eldest(n)
      <4>1. \/ worker.pc \in Guarded \cup {"listDeployments"}
            \/ ~SiblingConflict(n, worker.isvc, SeenIsvc)
        BY <1>2, <2>1, <2>3 DEF Carries
      <4> QED
        BY <2>1, <2>2, <4>1, SiblingsDecide DEF Passed
    <3> QED
      BY <2>2, <3>1, OlderKept DEF SpecsKnown
  <2>4. ASSUME worker'.pc \in Guarded PROVE Unclaimed(n)'
    <3>1. Unclaimed(n)
      BY <1>2, <2>1, <2>2, <2>4, DeploymentsDecide DEF Carries, Passed
    <3> QED
      BY <2>2, <3>1, UnclaimedKept
  <2> QED
    BY <2>1, <2>3, <2>4 DEF Passed
<1> QED
  BY <1>1, <1>2, WorkerStep

\* What is the oldest CR's stays so.
LEMMA OwnedByEldestKept ==
  ASSUME AppendOnly, AppendOnlyInv, [Next]_vars, TypeInv', Grows,
         NEW n \in Names, NEW d, NEW e, OwnedByEldest(n, d),
         e # None => d # None /\ e.owner = d.owner /\ e.template = d.template
  PROVE  /\ e # None /\ e.owner # None =>
              /\ isvc'[n] # None /\ e.owner = isvc'[n].uid /\ Eldest(n)'
              /\ \A c : podSpecMountsClaim(e.template, c) => c = isvc'[n].spec.claim
<1> USE DEF AppendOnlyInv, TypeInv
<1> SUFFICES ASSUME e # None, e.owner # None
             PROVE  /\ isvc'[n] # None /\ e.owner = isvc'[n].uid /\ Eldest(n)'
                    /\ \A c : podSpecMountsClaim(e.template, c) => c = isvc'[n].spec.claim
  OBVIOUS
<1>1. /\ isvc[n] # None /\ e.owner = isvc[n].uid /\ Eldest(n)
      /\ \A c : podSpecMountsClaim(e.template, c) => c = isvc[n].spec.claim
  BY DEF OwnedByEldest
<1> QED
  BY <1>1, OlderKept DEF SpecsKnown

LEMMA OwnedKept ==
  ASSUME AppendOnly, AppendOnlyInv, [Next]_vars, TypeInv', Grows
  PROVE  Owned'
<1> USE DEF AppendOnlyInv, TypeInv
<1> SUFFICES ASSUME NEW n \in Names
             PROVE  /\ OwnedByEldest(n, deployment[n])'
                    /\ OwnedByEldest(n, cache.deployment[n])'
                    /\ deployment'[n] # None /\ deployment'[n].owner # None => Unclaimed(n)'
  BY DEF Owned
<1>1. OwnedByEldest(n, cache.deployment[n])'
  <2>1. PICK d : d = cache'.deployment[n] /\ OwnedByEldest(n, d)
    BY CacheStep DEF Owned
  <2> QED
    BY <2>1, OwnedByEldestKept DEF OwnedByEldest
<1>2. CASE deployment'[n] # None =>
             /\ deployment[n] # None /\ deployment'[n].owner = deployment[n].owner
             /\ deployment'[n].template = deployment[n].template
  <2>1. PICK d : d = deployment'[n]
    OBVIOUS
  <2>2. OwnedByEldest(n, deployment[n])'
    BY <1>2, <2>1, OwnedByEldestKept DEF OwnedByEldest, Owned
  <2>3. ASSUME deployment'[n] # None, deployment'[n].owner # None PROVE Unclaimed(n)'
    <3>1. isvc[n] # None /\ Unclaimed(n)
      BY <1>2, <2>3 DEF Owned, OwnedByEldest
    <3> QED
      BY <3>1, UnclaimedKept
  <2> QED
    BY <1>1, <2>2, <2>3
<1>3. CASE Places /\ n = worker.name
  <2>1. PICK new \in Deployments :
          /\ deployment' = [deployment EXCEPT ![n] = new]
          /\ new.owner = worker.isvc.uid /\ new.owner # None
          /\ \A c : podSpecMountsClaim(new.template, c) <=> c = worker.isvc.spec.claim
    BY <1>3 DEF Places
  <2>2. deployment'[n] = new
    BY <2>1 DEF TypeOK, ChildTypeOK, DeploymentNames
  <2>3. Eldest(n) /\ Unclaimed(n)
    BY <1>3 DEF Places, Passed, Guarded
  <2>4. /\ isvc[n] # None /\ worker.isvc.uid = isvc[n].uid
        /\ worker.isvc.spec.claim = isvc[n].spec.claim
    BY <1>3, CopyClaim DEF Places
  <2>5. /\ isvc'[n] # None /\ isvc'[n].spec.claim = isvc[n].spec.claim
        /\ isvc'[n].uid = isvc[n].uid /\ Eldest(n)'
    BY <2>3, <2>4, OlderKept DEF SpecsKnown
  <2>6. Unclaimed(n)'
    BY <2>3, <2>4, UnclaimedKept
  <2> QED
    BY <1>1, <2>1, <2>2, <2>4, <2>5, <2>6 DEF OwnedByEldest
<1>4. CASE Places /\ n # worker.name
  BY <1>2, <1>4 DEF Places, TypeOK, ChildTypeOK
<1>5. CASE KeepsMounts
  BY <1>2, <1>5 DEF KeepsMounts, DeploymentNames
<1> QED
  BY <1>3, <1>4, <1>5, DeploymentStep

LEMMA AppendOnlyStep ==
  ASSUME AppendOnly, AppendOnlyInv, [Next]_vars
  PROVE  AppendOnlyInv'
<1>1. TypeInv /\ TypeInv' /\ TypeOK /\ TypeOK' /\ SpecsOwn(isvc)
  BY TypeInvStep DEF AppendOnlyInv, TypeInv, SpecsKnown
<1>2. Grows
  BY <1>1, StepGrows
<1>3. Stamped'
  BY <1>1, <1>2, StampedKept DEF AppendOnlyInv
<1>4. HandWrittenSeen'
  BY <1>1, HandWrittenSeenKept DEF AppendOnlyInv
<1> QED
  BY <1>1, <1>2, <1>3, <1>4, SpecsKnownKept, SnapshotKept, CopyListedKept, PassedKept,
     OwnedKept DEF AppendOnlyInv

LEMMA InitAppendOnly == Init => AppendOnlyInv
<1> SUFFICES ASSUME Init PROVE AppendOnlyInv
  OBVIOUS
<1>1. TypeInv
  BY InitTypeOK DEF Init, TypeInv, CacheFresh, CopyFresh
<1>2. /\ \A d \in DeploymentNames : deployment[d] # None => deployment[d].owner = None
      /\ cache.deployment = deployment /\ cache.isvc = isvc
      /\ \A n \in Names : isvc[n] = None
      /\ worker = Idle
  BY DEF Init
<1>3. SpecsKnown /\ Stamped /\ Snapshot /\ CopyListed
  BY <1>2 DEF SpecsKnown, SpecsOwn, Stamped, Snapshot, CopyListed
<1>4. Passed
  BY <1>2 DEF Passed, Idle, Guarded
<1>5. HandWrittenSeen /\ Owned
  BY <1>2 DEF HandWrittenSeen, Owned, OwnedByEldest, DeploymentNames
<1> QED
  BY <1>1, <1>3, <1>4, <1>5 DEF AppendOnlyInv

LEMMA OneEldest ==
  ASSUME TypeOK, Stamped, NEW n \in Names, NEW o \in Names, isvc[n] # None, isvc[o] # None,
         isvc[n].spec.claim = isvc[o].spec.claim, Eldest(n), Eldest(o)
  PROVE  n = o
<1>1. isvc[n].created \in Nat /\ isvc[o].created \in Nat
  BY DEF TypeOK, IsvcTypeOK, Isvcs
<1>2. /\ ~(isvc[n].created < isvc[o].created) /\ ~(isvc[o].created < isvc[n].created)
  BY DEF Eldest, Older
<1> QED
  BY <1>1, <1>2 DEF Stamped

\* Two Deployments of the operator's on a claim would be those of two oldest CRs.
LEMMA AgeExcludes ==
  ASSUME AppendOnlyInv
  PROVE  DeploymentsExclusive
<1> USE DEF AppendOnlyInv, TypeInv
<1> SUFFICES ASSUME NEW d \in DeploymentNames, NEW e \in DeploymentNames, NEW c \in Claims,
                    d # e, deployment[d] # None, deployment[e] # None,
                    deployment[d].owner # None,
                    podSpecMountsClaim(deployment[d].template, c),
                    podSpecMountsClaim(deployment[e].template, c)
             PROVE  FALSE
  BY DEF DeploymentsExclusive
<1>1. ASSUME NEW x \in DeploymentNames, deployment[x] # None, deployment[x].owner # None
      PROVE  x \in Names
  BY <1>1 DEF TypeOK, ChildTypeOK, DeploymentNamed, Deployments, Uids
<1>2. d \in Names /\ isvc[d] # None /\ Eldest(d) /\ c = isvc[d].spec.claim /\ Unclaimed(d)
  BY <1>1 DEF Owned, OwnedByEldest
<1>3. CASE deployment[e].owner = None
  BY <1>2, <1>3 DEF Unclaimed, HandWrittenOn
<1>4. CASE deployment[e].owner # None
  <2>1. e \in Names /\ isvc[e] # None /\ Eldest(e) /\ c = isvc[e].spec.claim
    BY <1>1, <1>4 DEF Owned, OwnedByEldest
  <2> QED
    BY <1>2, <2>1, OneEldest
<1> QED
  BY <1>3, <1>4

LEMMA AppendOnlyInvariant ==
  ASSUME AppendOnly
  PROVE  Spec => []AppendOnlyInv
<1>1. AppendOnlyInv /\ [Next]_vars => AppendOnlyInv'
  BY AppendOnlyStep
<1> QED
  BY <1>1, InitAppendOnly, PTL DEF Spec

(***************************************************************************)
(* One workload per claim, however far every cache is behind: with CRs     *)
(* that are created one per second and are neither deleted nor moved to    *)
(* another claim, the operator never makes two Deployments share a claim   *)
(* and never joins a hand-written one.  Edits, deleted children, retired   *)
(* hand-written workloads, restarts and failed calls may happen.  Without  *)
(* the premise on timestamps it is false: run stale_deployments.           *)
(***************************************************************************)
THEOREM ExclusiveByAge ==
  ASSUME AppendOnly
  PROVE  Spec => []DeploymentsExclusive
BY AppendOnlyInvariant, AgeExcludes, PTL

-----------------------------------------------------------------------------
(***************************************************************************)
(* Who is refused, and why.  Here nothing that holds a claim goes away,    *)
(* and a hand-written Deployment that a CR can take over is not on the     *)
(* claim of a CR of another claim.  Then a CR with a verdict of conflict   *)
(* has a live reason for it, for good; and the oldest CR's can only be a   *)
(* hand-written workload.                                                  *)
(***************************************************************************)
NothingRetired ==
  /\ "retire" \notin Ops
  /\ \A n \in Names \cap HandWrittenNames, o \in Names :
       \A s \in Specs[n], t \in Specs[o] : s.claim = t.claim

\* A hand-written Deployment that the cache has on the claim of a CR is live.
SeenHandWritten ==
  \A d \in DeploymentNames, n \in Names : \A s \in Specs[n] :
    /\ cache.deployment[d] # None /\ cache.deployment[d].owner = None
    /\ podSpecMountsClaim(cache.deployment[d].template, s.claim)
    => HandWrittenOn(d, s.claim)

\* A Deployment without a controller has the name of a hand-written one.
HandWrittenNamed ==
  \A d \in DeploymentNames :
    deployment[d] # None /\ deployment[d].owner = None => d \in HandWrittenNames

\* What justifies a verdict of conflict about n.
Excuse(n) ==
  \/ isvc[n].spec.claim \in pods
  \/ \E d \in DeploymentNames : HandWrittenOn(d, isvc[n].spec.claim)
  \/ \E o \in Names : Older(o, n)

Refused ==
  /\ \A n \in Names : isvc[n] # None /\ isvc[n].status.configured = "TrustedStoreConflict"
                         => Excuse(n)
  /\ worker # Idle /\ worker.verdict = "TrustedStoreConflict" => Excuse(worker.name)

WinnerInv ==
  /\ AppendOnlyInv /\ cache.pod = pods
  /\ HandWrittenNamed /\ SeenHandWritten /\ Refused

LEMMA PodsKept ==
  ASSUME NothingRetired, TypeOK, [Next]_vars
  PROVE  UNCHANGED pods
<1>1. ~\E c \in Claims : RetirePod(c)
  BY DEF NothingRetired, RetirePod, Operation
<1> QED
  BY <1>1 DEF Next, User, Kubernetes, CreateInferenceService, EditInferenceService,
     AnnotateInferenceService, DeleteInferenceService, DriftDeployment, DriftService,
     ChangeTenant, ChangeModel, RetireDeployment, CollectDeployment,
     CollectService, RollOut, BecomeAvailable, FailPod, inputVars, Reconcile,
     GetInferenceService, GetTenant, GetModel, ListSiblings, ListDeployments, ListPods,
     ApplyConfigMap, ApplyDeployment, ApplyService, UpdateStatus, Inform, InformIsvc,
     InformTenant, InformModel, InformDeployment, InformService, InformPod, Restart, ApiError, vars

\* No one removes a hand-written Deployment by any other way than an apply.
LEMMA HandWrittenStays ==
  ASSUME NothingRetired, TypeOK, [Next]_vars, NEW d \in DeploymentNames,
         deployment[d] # None, deployment[d].owner = None
  PROVE  \/ /\ deployment'[d] # None /\ deployment'[d].owner = None
            /\ deployment'[d].template = deployment[d].template
         \/ Places /\ d = worker.name
<1>1. CASE UNCHANGED deployment
  BY <1>1
<1>2. ASSUME NEW n \in Names, RollOut(n) \/ BecomeAvailable(n) \/ FailPod(n)
      PROVE  /\ deployment'[d] # None /\ deployment'[d].owner = None
             /\ deployment'[d].template = deployment[d].template
  <2>1. PICK new \in Deployments : /\ deployment' = [deployment EXCEPT ![n] = new]
                                   /\ deployment[n] # None
                                   /\ new.owner = deployment[n].owner
                                   /\ new.template = deployment[n].template
    BY <1>2, StatusOfDeployment
  <2> QED
    BY <2>1, NoneAssumption DEF TypeOK, ChildTypeOK
<1>3. ASSUME NEW n \in Names, DriftDeployment(n) \/ CollectDeployment(n)
      PROVE  deployment'[d] = deployment[d]
  BY <1>3 DEF DriftDeployment, CollectDeployment, Orphaned, TypeOK, ChildTypeOK
<1>4. ~\E e \in DeploymentNames : RetireDeployment(e)
  BY DEF NothingRetired, RetireDeployment, Operation
<1>5. CASE User \/ Kubernetes
  BY <1>1, <1>2, <1>3, <1>4, <1>5 DEF User, Kubernetes, CreateInferenceService,
     EditInferenceService, AnnotateInferenceService, DeleteInferenceService, DriftService,
     ChangeTenant, ChangeModel, RetirePod, CollectService, childVars
<1>6. CASE Places
  BY <1>6 DEF Places, TypeOK, ChildTypeOK
<1>7. CASE ~(User \/ Kubernetes \/ Places)
  <2>1. UNCHANGED deployment
    <3>1. CASE ApplyDeployment
      BY <1>7, <3>1, ApplyPlaces
    <3> QED
      BY <1>7, <3>1 DEF Next, Reconcile, GetInferenceService, GetTenant, GetModel, ListSiblings,
         ListDeployments, ListPods, ApplyConfigMap, ApplyService, UpdateStatus, Inform,
         InformIsvc, InformTenant, InformModel, InformDeployment, InformService, InformPod,
         Restart, ApiError, childVars, vars
  <2> QED
    BY <1>1, <2>1
<1> QED
  BY <1>5, <1>6, <1>7

\* So one on the claim of a CR is there to stay: the guard keeps its name's CR
\* from taking it over.
LEMMA ClaimedStays ==
  ASSUME AppendOnly, NothingRetired, WinnerInv, [Next]_vars,
         NEW d \in DeploymentNames, NEW n \in Names, NEW s \in Specs[n],
         HandWrittenOn(d, s.claim)
  PROVE  HandWrittenOn(d, s.claim)'
<1> USE DEF WinnerInv, AppendOnlyInv, TypeInv
<1>1. deployment[d] # None /\ deployment[d].owner = None /\ d \in HandWrittenNames
  BY DEF HandWrittenOn, HandWrittenNamed
<1>2. CASE Places /\ d = worker.name
  <2>1. d \in Names /\ worker # Idle /\ Unclaimed(d)
    BY <1>2 DEF Places, Passed, Guarded
  <2>2. isvc[d] # None /\ isvc[d].spec \in Specs[d]
    BY <1>2, <2>1, CopyClaim DEF SpecsKnown, SpecsOwn
  <2>3. isvc[d].spec.claim = s.claim
    BY <1>1, <2>1, <2>2 DEF NothingRetired
  <2> QED
    BY <2>1, <2>3 DEF Unclaimed
<1> QED
  BY <1>1, <1>2, HandWrittenStays DEF HandWrittenOn

LEMMA SeenHandWrittenKept ==
  ASSUME AppendOnly, NothingRetired, WinnerInv, [Next]_vars
  PROVE  SeenHandWritten' /\ HandWrittenNamed'
<1> USE DEF WinnerInv, AppendOnlyInv, TypeInv
<1>1. HandWrittenNamed'
  BY DeploymentStep, HandWrittenStep DEF HandWrittenNamed
<1>2. CASE cache'.deployment = cache.deployment
  BY <1>1, <1>2, ClaimedStays DEF SeenHandWritten
<1>3. CASE cache'.deployment = deployment /\ UNCHANGED deployment
  BY <1>1, <1>3 DEF SeenHandWritten, HandWrittenOn
<1> QED
  BY <1>2, <1>3, CacheStep DEF WinnerInv

LEMMA ExcuseKept ==
  ASSUME AppendOnly, NothingRetired, WinnerInv, [Next]_vars, TypeOK', Grows,
         NEW n \in Names, isvc[n] # None, Excuse(n)
  PROVE  Excuse(n)'
<1> USE DEF WinnerInv, AppendOnlyInv, TypeInv
<1>1. isvc'[n].spec.claim = isvc[n].spec.claim /\ \A o \in Names : Older(o, n)' <=> Older(o, n)
  BY OlderKept DEF SpecsKnown
<1>2. CASE isvc[n].spec.claim \in pods
  BY <1>1, <1>2, PodsKept DEF Excuse
<1>3. ASSUME NEW d \in DeploymentNames, HandWrittenOn(d, isvc[n].spec.claim)
      PROVE  HandWrittenOn(d, isvc[n].spec.claim)'
  <2>1. PICK s \in Specs[n] : s = isvc[n].spec
    BY DEF SpecsKnown, SpecsOwn
  <2>2. HandWrittenOn(d, s.claim)'
    BY <1>3, <2>1, ClaimedStays
  <2> QED
    BY <1>1, <2>1, <2>2 DEF HandWrittenOn
<1>4. CASE \E d \in DeploymentNames : HandWrittenOn(d, isvc[n].spec.claim)
  BY <1>3, <1>4 DEF Excuse
<1>5. CASE \E o \in Names : Older(o, n)
  BY <1>1, <1>5 DEF Excuse
<1> QED
  BY <1>2, <1>4, <1>5 DEF Excuse

\* A Deployment that the list has of another CR on the claim is that of the oldest.
LEMMA OwnedRival ==
  ASSUME AppendOnlyInv, NEW n \in Names, isvc[n] # None, NEW d \in DeploymentNames,
         SeenDeployment[d] # None, SeenDeployment[d].owner # None,
         SeenDeployment[d].owner # isvc[n].uid,
         podSpecMountsClaim(SeenDeployment[d].template, isvc[n].spec.claim)
  PROVE  /\ d \in Names \ {n} /\ isvc[d] # None /\ Eldest(d)
         /\ isvc[d].spec.claim = isvc[n].spec.claim
<1> USE DEF AppendOnlyInv, TypeInv
<1>1. d \in Names
  <2>1. SeenDeployment[d] \in Deployments /\ SeenDeployment[d].owner.name = d
    BY DEF SeenDeployment, TypeOK, ChildTypeOK, CacheTypeOK, DeploymentNamed
  <2> QED
    BY <2>1 DEF Deployments, Uids
<1>2. OwnedByEldest(d, SeenDeployment[d])
  BY <1>1 DEF SeenDeployment, Owned
<1> QED
  BY <1>1, <1>2 DEF OwnedByEldest

\* The three lists of the guard refuse nobody without a live reason.
LEMMA ConflictExcused ==
  ASSUME AppendOnly, WinnerInv, worker # Idle,
         \/ SiblingConflict(worker.name, worker.isvc, SeenIsvc)
         \/ DeploymentConflict(worker.isvc, SeenDeployment)
         \/ worker.isvc.spec.claim \in SeenPods
  PROVE  Excuse(worker.name)
<1> USE DEF WinnerInv, AppendOnlyInv, TypeInv
<1>1. PICK n \in Names : n = worker.name
  BY CopyClaim
<1>2. /\ isvc[n] # None /\ worker.isvc.uid = isvc[n].uid
      /\ worker.isvc.spec.claim = isvc[n].spec.claim /\ isvc[n].spec \in Specs[n]
  BY <1>1, CopyClaim DEF SpecsKnown, SpecsOwn
<1>3. CASE SiblingConflict(worker.name, worker.isvc, SeenIsvc)
  BY <1>3, SiblingsDecide DEF Excuse, Eldest
<1>4. CASE worker.isvc.spec.claim \in SeenPods
  BY <1>1, <1>2, <1>4 DEF SeenPods, Excuse
<1>5. ASSUME NEW d \in DeploymentNames, SeenDeployment[d] # None,
             ~IsControlledBy(SeenDeployment[d], worker.isvc.uid),
             podSpecMountsClaim(SeenDeployment[d].template, worker.isvc.spec.claim)
      PROVE  Excuse(n)
  <2>1. CASE SeenDeployment[d].owner = None
    <3>1. HandWrittenOn(d, isvc[n].spec.claim)
      BY <1>2, <1>5, <2>1 DEF SeenDeployment, SeenHandWritten, HandWrittenOn
    <3> QED
      BY <3>1 DEF Excuse
  <2>2. CASE SeenDeployment[d].owner # None
    <3>1. d \in Names \ {n} /\ isvc[d] # None /\ Eldest(d) /\ isvc[d].spec.claim = isvc[n].spec.claim
      BY <1>2, <1>5, <2>2, OwnedRival DEF IsControlledBy
    <3>2. ~Eldest(n)
      BY <1>2, <3>1, OneEldest
    <3> QED
      BY <3>2 DEF Eldest, Excuse
  <2> QED
    BY <2>1, <2>2
<1> QED
  BY <1>1, <1>3, <1>4, <1>5 DEF DeploymentConflict

\* A status says conflict because it did or because the worker concluded it.
LEMMA StatusStep ==
  ASSUME AppendOnly, TypeInv, [Next]_vars, NEW n \in Names, isvc'[n] # None,
         isvc'[n].status.configured = "TrustedStoreConflict"
  PROVE  \/ isvc[n] # None /\ isvc[n].status.configured = "TrustedStoreConflict"
         \/ worker # Idle /\ worker.name = n /\ worker.verdict = "TrustedStoreConflict"
<1> USE DEF TypeInv
<1>1. CASE isvc'[n] = isvc[n]
  BY <1>1
<1>2. ASSUME NEW o \in Names, NEW spec \in Specs[o], NEW second, CreateInferenceService(o, spec, second)
      PROVE  isvc'[n] = isvc[n]
  <2> DEFINE new == [uid |-> Uid(o, serial + 1), created |-> second,
                     generation |-> 1, spec |-> spec, status |-> NoStatus]
  <2>1. isvc' = [isvc EXCEPT ![o] = new] /\ new.status.configured = "Unset"
    BY <1>2 DEF CreateInferenceService, NoStatus
  <2> HIDE DEF new
  <2> QED
    BY <2>1 DEF TypeOK, IsvcTypeOK
<1>3. ASSUME NEW o \in Names, NEW spec \in Specs[o], EditInferenceService(o, spec)
      PROVE  isvc[n] # None /\ isvc[n].status.configured = "TrustedStoreConflict"
  <2>1. isvc[o] \in Isvcs /\ isvc[o] # None
    BY <1>3 DEF EditInferenceService, TypeOK, IsvcTypeOK
  <2> DEFINE new == [isvc[o] EXCEPT !.spec = spec, !.generation = isvc[o].generation + 1]
  <2>2. isvc' = [isvc EXCEPT ![o] = new] /\ new.status = isvc[o].status
    BY <1>3, <2>1 DEF EditInferenceService, Isvcs
  <2> HIDE DEF new
  <2> QED
    BY <2>1, <2>2 DEF TypeOK, IsvcTypeOK
<1>4. ~\E o \in Names : DeleteInferenceService(o)
  BY DEF AppendOnly, DeleteInferenceService, Operation
<1>5. CASE UpdateStatus
  <2>1. PICK o \in Names : o = worker.name
    BY <1>5, NewStatusType DEF UpdateStatus, Busy
  <2>2. worker # Idle /\ worker \in Busy
    BY <1>5, NewStatusType DEF UpdateStatus
  <2>3. CASE ~worker.fresh \/ n # o
    BY <1>1, <1>5, <2>1, <2>3 DEF UpdateStatus, TypeOK, IsvcTypeOK
  <2>4. CASE worker.fresh /\ n = o
    <3>1. isvc[n] = worker.isvc /\ isvc[n] \in Isvcs
      BY <2>1, <2>2, <2>4 DEF CopyFresh, Busy
    <3>2. isvc'[n] = [isvc[n] EXCEPT !.status = NewStatus(worker)]
      BY <1>5, <2>1, <2>4 DEF UpdateStatus, TypeOK, IsvcTypeOK
    <3>3. NewStatus(worker).configured = "TrustedStoreConflict"
      BY <3>1, <3>2 DEF Isvcs
    <3>4. worker.isvc.status \in Status
      BY <3>1 DEF Isvcs
    <3>5. worker.verdict = "TrustedStoreConflict"
      BY <3>3, <3>4 DEF NewStatus, ReadyStatus, FailedStatus, Status
    <3> QED
      BY <2>1, <2>2, <2>4, <3>5
  <2> QED
    BY <2>3, <2>4
<1>6. CASE User
  BY <1>1, <1>2, <1>3, <1>4, <1>6 DEF User, AnnotateInferenceService, DriftDeployment,
     DriftService, ChangeTenant, ChangeModel, RetireDeployment, RetirePod
<1>7. CASE Reconcile
  BY <1>1, <1>5, <1>7 DEF Reconcile, GetInferenceService, GetTenant, GetModel, ListSiblings,
     ListDeployments, ListPods, ApplyConfigMap, ApplyDeployment, ApplyService
<1>8. CASE Kubernetes \/ Inform \/ Restart \/ ApiError \/ UNCHANGED vars
  BY <1>1, <1>8 DEF Kubernetes, CollectDeployment, CollectService, RollOut, BecomeAvailable,
     FailPod, Inform, InformIsvc, InformTenant, InformModel, InformDeployment, InformService,
     InformPod, Restart, ApiError, vars
<1> QED
  BY <1>6, <1>7, <1>8 DEF Next

LEMMA WinnerStep ==
  ASSUME AppendOnly, NothingRetired, WinnerInv, [Next]_vars
  PROVE  WinnerInv'
<1>1. AppendOnlyInv /\ AppendOnlyInv' /\ TypeInv /\ TypeInv' /\ TypeOK /\ TypeOK'
  BY AppendOnlyStep DEF WinnerInv, AppendOnlyInv, TypeInv
<1>2. Grows
  BY <1>1, StepGrows DEF AppendOnlyInv, SpecsKnown
<1>3. cache'.pod = pods'
  BY <1>1, CacheStep, PodsKept DEF WinnerInv
<1>4. ASSUME NEW n \in Names, isvc'[n] # None,
             isvc'[n].status.configured = "TrustedStoreConflict"
      PROVE  Excuse(n)'
  <2>1. \/ isvc[n] # None /\ isvc[n].status.configured = "TrustedStoreConflict"
        \/ worker # Idle /\ worker.name = n /\ worker.verdict = "TrustedStoreConflict"
    BY <1>1, <1>4, StatusStep
  <2>2. isvc[n] # None /\ Excuse(n)
    BY <1>1, <2>1, CopyClaim DEF WinnerInv, Refused, AppendOnlyInv
  <2> QED
    BY <1>1, <1>2, <2>2, ExcuseKept
<1>5. ASSUME worker' # Idle, worker'.verdict = "TrustedStoreConflict"
      PROVE  Excuse(worker.name)'
  <2>1. Carries
    BY <1>1, <1>5, WorkerStep DEF Takes
  <2>2. PICK n \in Names : n = worker.name /\ n = worker'.name
    BY <1>1, <2>1, CopyClaim DEF Carries, AppendOnlyInv
  <2>3. isvc[n] # None /\ Excuse(n)
    BY <1>1, <1>5, <2>1, <2>2, CopyClaim, ConflictExcused
       DEF Carries, WinnerInv, Refused, AppendOnlyInv
  <2>4. Excuse(n)'
    BY <1>1, <1>2, <2>3, ExcuseKept
  <2> QED
    BY <2>2, <2>4
<1> QED
  BY <1>1, <1>3, <1>4, <1>5, SeenHandWrittenKept DEF WinnerInv, Refused

LEMMA InitWinner == Init => WinnerInv
<1> SUFFICES ASSUME Init PROVE WinnerInv
  OBVIOUS
<1>1. AppendOnlyInv
  BY InitAppendOnly
<1>2. cache.pod = pods /\ SeenHandWritten
  BY DEF Init, SeenHandWritten, HandWrittenOn
<1>3. HandWrittenNamed
  BY DEF Init, HandWrittenNamed
<1>4. Refused
  BY DEF Init, Refused
<1> QED
  BY <1>1, <1>2, <1>3, <1>4 DEF WinnerInv

\* Of the CRs on a claim one is the oldest.
LEMMA OldestExists ==
  ASSUME TypeOK, NEW n \in Names, isvc[n] # None
  PROVE  \E o \in Names : /\ isvc[o] # None /\ isvc[o].spec.claim = isvc[n].spec.claim
                          /\ Eldest(o)
<1> DEFINE Rivals == {o \in Names : isvc[o] # None /\ isvc[o].spec.claim = isvc[n].spec.claim}
           T == {isvc[o].created : o \in Rivals}
<1>1. T \subseteq Nat
  BY DEF TypeOK, IsvcTypeOK, Isvcs
<1>2. T # {}
  OBVIOUS
<1>3. \E x \in T : \A y \in T : ~(<<y, x>> \in OpToRel(<, Nat))
  BY <1>1, <1>2, NatLessThanWellFounded, WFMin
<1>4. PICK o \in Rivals : \A y \in T : ~(<<y, isvc[o].created>> \in OpToRel(<, Nat))
  BY <1>3
<1>5. ASSUME NEW p \in Names, Older(p, o) PROVE FALSE
  <2>1. p \in Rivals /\ isvc[p].created < isvc[o].created
    BY <1>5 DEF Older
  <2>2. isvc[p].created \in T /\ isvc[p].created \in Nat /\ isvc[o].created \in Nat
    BY <1>1, <2>1
  <2>3. <<isvc[p].created, isvc[o].created>> \in OpToRel(<, Nat)
    BY <2>1, <2>2 DEF OpToRel
  <2> QED
    BY <1>4, <2>2, <2>3
<1> QED
  BY <1>4, <1>5 DEF Eldest

LEMMA EldestWins ==
  ASSUME WinnerInv
  PROVE  ClaimHasWinner
<1> USE DEF WinnerInv, AppendOnlyInv, TypeInv
<1> SUFFICES ASSUME NEW n \in Names, isvc[n] # None
             PROVE  \/ isvc[n].spec.claim \in pods
                    \/ \E d \in DeploymentNames :
                         /\ deployment[d] # None /\ deployment[d].owner = None
                         /\ podSpecMountsClaim(deployment[d].template, isvc[n].spec.claim)
                    \/ \E o \in Names :
                         /\ isvc[o] # None /\ isvc[o].spec.claim = isvc[n].spec.claim
                         /\ isvc[o].status.configured # "TrustedStoreConflict"
  BY DEF ClaimHasWinner
<1>1. PICK o \in Names : /\ isvc[o] # None /\ isvc[o].spec.claim = isvc[n].spec.claim
                         /\ Eldest(o)
  BY OldestExists
<1>2. CASE isvc[o].status.configured = "TrustedStoreConflict"
  BY <1>1, <1>2 DEF Refused, Excuse, Eldest, HandWrittenOn
<1> QED
  BY <1>1, <1>2

(***************************************************************************)
(* A claim that CRs contend for and nothing else holds has a winner, at    *)
(* rest or not: the guard never refuses everybody, whatever the caches     *)
(* say.  Besides AppendOnly this needs that nothing on a claim is retired  *)
(* (a refused CR is not told: run nudge); that CRs keep their claims is    *)
(* needed, too (run contested).                                            *)
(***************************************************************************)
THEOREM HasWinner ==
  ASSUME AppendOnly, NothingRetired
  PROVE  Spec => []ClaimHasWinner
<1>1. WinnerInv /\ [Next]_vars => WinnerInv'
  BY WinnerStep
<1> QED
  BY <1>1, InitWinner, EldestWins, PTL DEF Spec

-----------------------------------------------------------------------------
(***************************************************************************)
(* The refinement.  Besides the other Deployments it is about standalone   *)
(* Pods, and about refusals.  Whoever is not of the operator's only        *)
(* leaves, so a cache has at least those that are there: what the lists    *)
(* did not find is not there, then and later.                              *)
(***************************************************************************)

\* A hand-written Deployment that the list has.
SeenOn(d, c) == /\ SeenDeployment[d] # None /\ SeenDeployment[d].owner = None
                /\ podSpecMountsClaim(SeenDeployment[d].template, c)

NoneSeen(n)  == \A d \in DeploymentNames : ~SeenOn(d, isvc[n].spec.claim)
NoPodSeen(n) == isvc[n].spec.claim \notin SeenPods

Serving(n) == deployment[n] # None /\ deployment[n].owner # None

\* What the lists found, still holds; what is served, is served on that ground, and
\* the worker is not about to refuse it.
Granting ==
  /\ pods \subseteq cache.pod
  /\ worker.pc \in Guarded => NoneSeen(worker.name)
  /\ worker.pc \in Applying => NoPodSeen(worker.name)
  /\ \A n \in Names : Serving(n) => NoneSeen(n) /\ NoPodSeen(n)
  /\ worker # Idle /\ worker.verdict = "TrustedStoreConflict" => ~Serving(worker.name)

ArbitrationInv == AppendOnlyInv /\ Granting

LEMMA PodsShrink ==
  ASSUME [Next]_vars
  PROVE  pods' \subseteq pods
<1>1. ASSUME NEW c \in Claims, RetirePod(c) PROVE pods' \subseteq pods
  BY <1>1 DEF RetirePod
<1> QED
  BY <1>1 DEF Next, User, Kubernetes, CreateInferenceService, EditInferenceService,
     AnnotateInferenceService, DeleteInferenceService, DriftDeployment, DriftService,
     ChangeTenant, ChangeModel, RetireDeployment, CollectDeployment,
     CollectService, RollOut, BecomeAvailable, FailPod, inputVars, Reconcile,
     GetInferenceService, GetTenant, GetModel, ListSiblings, ListDeployments, ListPods,
     ApplyConfigMap, ApplyDeployment, ApplyService, UpdateStatus, Inform, InformIsvc,
     InformTenant, InformModel, InformDeployment, InformService, InformPod, Restart, ApiError, vars

LEMMA SeenShrinks ==
  ASSUME TypeOK, HandWrittenSeen, pods \subseteq cache.pod, [Next]_vars
  PROVE  /\ pods' \subseteq cache'.pod /\ SeenPods' \subseteq SeenPods
         /\ \A d \in DeploymentNames : \A c : SeenOn(d, c)' => SeenOn(d, c)
<1>1. pods' \subseteq cache'.pod /\ SeenPods' \subseteq SeenPods
  BY PodsShrink, CacheStep DEF SeenPods
<1>2. ASSUME NEW d \in DeploymentNames, NEW c, SeenOn(d, c)' PROVE SeenOn(d, c)
  <2>1. CASE "deployment" \in Lag
    BY <1>2, <2>1, CacheStep DEF SeenOn, SeenDeployment, HandWrittenSeen
  <2>2. CASE "deployment" \notin Lag
    BY <1>2, <2>2, DeploymentStep, HandWrittenStep DEF SeenOn, SeenDeployment
  <2> QED
    BY <2>1, <2>2
<1> QED
  BY <1>1, <1>2

\* A CR's claim does not change, so what was not seen on it is not seen later.
LEMMA UnseenKept ==
  ASSUME AppendOnly, AppendOnlyInv, Granting, [Next]_vars, TypeInv', Grows,
         NEW n \in Names, isvc[n] # None
  PROVE  /\ NoneSeen(n) => NoneSeen(n)'
         /\ NoPodSeen(n) => NoPodSeen(n)'
<1> USE DEF AppendOnlyInv, TypeInv
<1>1. isvc'[n].spec.claim = isvc[n].spec.claim
  BY OlderKept DEF SpecsKnown
<1>2. NoneSeen(n) => NoneSeen(n)'
  <2> SUFFICES ASSUME NEW d \in DeploymentNames, SeenOn(d, isvc[n].spec.claim)'
               PROVE  SeenOn(d, isvc[n].spec.claim)
    BY DEF NoneSeen
  <2>1. PICK c : c = isvc[n].spec.claim /\ c = isvc'[n].spec.claim
    BY <1>1
  <2>2. SeenOn(d, c)'
    BY <2>1 DEF SeenOn
  <2> QED
    BY <2>1, <2>2, SeenShrinks DEF Granting
<1>3. NoPodSeen(n) => NoPodSeen(n)'
  BY <1>1, SeenShrinks DEF NoPodSeen, Granting
<1> QED
  BY <1>2, <1>3

LEMMA ServingStep ==
  ASSUME TypeOK, [Next]_vars, NEW n \in Names, Serving(n)'
  PROVE  Serving(n) \/ (Places /\ n = worker.name)
<1>1. CASE KeepsMounts
  BY <1>1 DEF KeepsMounts, Serving, DeploymentNames
<1>2. CASE Places /\ n # worker.name
  BY <1>2 DEF Places, Serving, TypeOK, ChildTypeOK
<1> QED
  BY <1>1, <1>2, DeploymentStep

\* The guard does not refuse a CR that is served.
LEMMA ServedPasses ==
  ASSUME AppendOnly, AppendOnlyInv, Granting, worker # Idle, Serving(worker.name)
  PROVE  /\ ~SiblingConflict(worker.name, worker.isvc, SeenIsvc)
         /\ ~DeploymentConflict(worker.isvc, SeenDeployment)
         /\ worker.isvc.spec.claim \notin SeenPods
<1> USE DEF AppendOnlyInv, TypeInv
<1>1. PICK n \in Names : n = worker.name
  BY CopyClaim
<1>2. /\ isvc[n] # None /\ worker.isvc.uid = isvc[n].uid
      /\ worker.isvc.spec.claim = isvc[n].spec.claim
  BY <1>1, CopyClaim
<1>3. Eldest(n) /\ NoneSeen(n) /\ NoPodSeen(n)
  BY <1>1 DEF Serving, Owned, OwnedByEldest, Granting
<1>4. ASSUME NEW d \in DeploymentNames, SeenDeployment[d] # None,
             ~IsControlledBy(SeenDeployment[d], worker.isvc.uid),
             podSpecMountsClaim(SeenDeployment[d].template, worker.isvc.spec.claim)
      PROVE  FALSE
  <2>1. CASE SeenDeployment[d].owner = None
    BY <1>2, <1>3, <1>4, <2>1 DEF NoneSeen, SeenOn
  <2>2. CASE SeenDeployment[d].owner # None
    <3>1. d \in Names \ {n} /\ isvc[d] # None /\ Eldest(d) /\ isvc[d].spec.claim = isvc[n].spec.claim
      BY <1>2, <1>4, <2>2, OwnedRival DEF IsControlledBy
    <3> QED
      BY <1>2, <1>3, <3>1, OneEldest
  <2> QED
    BY <2>1, <2>2
<1> QED
  BY <1>1, <1>2, <1>3, <1>4, SiblingsDecide DEF NoPodSeen, DeploymentConflict

LEMMA GrantingStep ==
  ASSUME AppendOnly, ArbitrationInv, [Next]_vars
  PROVE  ArbitrationInv'
<1>1. AppendOnlyInv /\ AppendOnlyInv' /\ TypeInv /\ TypeInv' /\ TypeOK /\ TypeOK' /\ Granting
  BY AppendOnlyStep DEF ArbitrationInv, AppendOnlyInv, TypeInv
<1>2. Grows
  BY <1>1, StepGrows DEF AppendOnlyInv, SpecsKnown
<1>3. pods' \subseteq cache'.pod
  BY <1>1, SeenShrinks DEF Granting, AppendOnlyInv
<1>4. ASSUME NEW n \in Names, Serving(n)' PROVE NoneSeen(n)' /\ NoPodSeen(n)'
  <2>1. isvc[n] # None /\ NoneSeen(n) /\ NoPodSeen(n)
    <3>1. CASE Serving(n)
      BY <1>1, <3>1 DEF Serving, Granting, AppendOnlyInv, Owned, OwnedByEldest
    <3>2. CASE Places /\ n = worker.name
      BY <1>1, <3>2, CopyClaim DEF Places, Granting, Guarded, Applying, AppendOnlyInv
    <3> QED
      BY <1>1, <1>4, <3>1, <3>2, ServingStep
  <2> QED
    BY <1>1, <1>2, <2>1, UnseenKept
<1>5. CASE Carries
  <2>1. PICK n \in Names : n = worker.name /\ n = worker'.name
    BY <1>1, <1>5, CopyClaim DEF Carries, AppendOnlyInv
  <2>2. /\ isvc[n] # None /\ worker # Idle /\ worker.isvc.spec.claim = isvc[n].spec.claim
    BY <1>1, <1>5, <2>1, CopyClaim DEF Carries, AppendOnlyInv
  <2>3. ASSUME worker'.pc \in Guarded PROVE NoneSeen(n)
    <3>1. CASE worker.pc \in Guarded
      BY <1>1, <2>1, <3>1 DEF Granting
    <3>2. CASE ~DeploymentConflict(worker.isvc, SeenDeployment)
      BY <2>2, <3>2 DEF DeploymentConflict, NoneSeen, SeenOn, IsControlledBy
    <3> QED
      BY <1>5, <2>3, <3>1, <3>2 DEF Carries
  <2>4. ASSUME worker'.pc \in Applying PROVE NoPodSeen(n)
    BY <1>1, <1>5, <2>1, <2>2, <2>4 DEF Carries, Granting, NoPodSeen
  <2>5. ASSUME worker'.verdict = "TrustedStoreConflict", Serving(n)' PROVE FALSE
    <3>1. ~Serving(n)
      BY <1>1, <1>5, <2>1, <2>2, <2>5, ServedPasses DEF Carries, Granting
    <3>2. Places
      BY <1>1, <2>5, <3>1, ServingStep
    <3> QED
      BY <1>5, <2>5, <3>2 DEF Carries, Places
  <2>6. (worker'.pc \in Guarded => NoneSeen(n)') /\ (worker'.pc \in Applying => NoPodSeen(n)')
    BY <1>1, <1>2, <2>2, <2>3, <2>4, UnseenKept
  <2> QED
    BY <1>1, <1>3, <1>4, <2>1, <2>5, <2>6 DEF ArbitrationInv, Granting
<1>6. CASE worker' = Idle \/ Takes
  BY <1>1, <1>3, <1>4, <1>6 DEF ArbitrationInv, Granting, Takes, Idle, Guarded, Applying
<1> QED
  BY <1>1, <1>5, <1>6, WorkerStep

LEMMA InitArbitration == Init => ArbitrationInv /\ Arbitration!Init
<1> SUFFICES ASSUME Init PROVE ArbitrationInv /\ Arbitration!Init
  OBVIOUS
<1>1. /\ \A d \in DeploymentNames : deployment[d] # None => deployment[d].owner = None
      /\ cache.pod = pods /\ \A n \in Names : isvc[n] = None
      /\ worker = Idle
  BY DEF Init
<1>2. Granting
  BY <1>1 DEF Granting, Serving, DeploymentNames, Idle, Guarded, Applying
<1>3. AppendOnlyInv /\ pods \subseteq Claims
  BY InitAppendOnly DEF AppendOnlyInv, TypeInv, TypeOK, InputTypeOK
<1>4. Arbitration!Init
  BY <1>1, <1>3 DEF Arbitration!Init, granted, outside, refused, Mounted, DeploymentNames
<1> QED
  BY <1>2, <1>3, <1>4 DEF ArbitrationInv

\* The apply grants the CR its claim.
LEMMA ApplyGrants ==
  ASSUME AppendOnly, ArbitrationInv, [Next]_vars, ApplyDeployment
  PROVE  Arbitration!Next
<1> USE DEF ArbitrationInv, AppendOnlyInv, TypeInv
<1>1. Places /\ UNCHANGED <<isvc, pods>>
  BY ApplyPlaces DEF ApplyDeployment, inputVars
<1>2. PICK n \in Names : n = worker.name
  BY <1>1 DEF Places
<1>3. PICK new \in Deployments :
        /\ deployment' = [deployment EXCEPT ![n] = new] /\ new.owner # None
        /\ \A c : podSpecMountsClaim(new.template, c) <=> c = worker.isvc.spec.claim
  BY <1>1, <1>2 DEF Places
<1>4. /\ isvc[n] # None /\ worker.isvc.spec.claim = isvc[n].spec.claim
      /\ Eldest(n) /\ Unclaimed(n) /\ NoPodSeen(n)
  BY <1>1, <1>2, CopyClaim DEF Places, Passed, Granting, Guarded, Applying
<1>5. /\ deployment'[n] = new /\ new # None
      /\ \A d \in DeploymentNames \ {n} : deployment'[d] = deployment[d]
  BY <1>3, NoneAssumption DEF TypeOK, ChildTypeOK, DeploymentNames
<1> DEFINE claims == {c \in Claims : podSpecMountsClaim(new.template, c)}
<1>6. granted' = [granted EXCEPT ![n] = claims]
  <2>1. granted'[n] = claims
    BY <1>3, <1>5 DEF granted, Mounted
  <2>2. \A t \in Names \ {n} : granted'[t] = granted[t]
    BY <1>5 DEF granted, Mounted, DeploymentNames
  <2> QED
    BY <2>1, <2>2 DEF granted
<1>7. outside' \subseteq outside
  BY <1>1, <1>3, <1>5 DEF outside, Mounted
<1>8. claims \cap outside = {}
  <2>1. isvc[n].spec.claim \notin pods
    BY <1>4 DEF NoPodSeen, SeenPods, Granting
  <2>2. ASSUME NEW d \in DeploymentNames, deployment[d] # None, deployment[d].owner = None
        PROVE  isvc[n].spec.claim \notin Mounted(d)
    BY <1>4, <2>2 DEF Unclaimed, HandWrittenOn, Mounted
  <2> QED
    BY <1>3, <1>4, <2>1, <2>2 DEF outside
<1>9. ASSUME NEW t \in Names \ {n}, NEW c, c \in granted[t], c \in claims PROVE FALSE
  <2>1. Serving(t) /\ podSpecMountsClaim(deployment[t].template, c)
    BY <1>9 DEF granted, Mounted, Serving
  <2>2. isvc[t] # None /\ Eldest(t) /\ c = isvc[t].spec.claim
    BY <2>1 DEF Serving, Owned, OwnedByEldest
  <2> QED
    BY <1>3, <1>4, <1>9, <2>2, OneEldest
<1>10. UNCHANGED refused
  BY <1>1 DEF refused
<1>11. Arbitration!Free(n, claims)
  BY <1>8, <1>9 DEF Arbitration!Free
<1> HIDE DEF claims
<1>12. claims \in SUBSET Claims
  BY DEF claims
<1> QED
  BY <1>6, <1>7, <1>10, <1>11, <1>12 DEF Arbitration!Next, Arbitration!Grant

\* The status update refuses or reconsiders.
LEMMA UpdateRefuses ==
  ASSUME ArbitrationInv, UpdateStatus
  PROVE  Arbitration!Next \/ UNCHANGED <<granted, outside, refused>>
<1> USE DEF ArbitrationInv, AppendOnlyInv, TypeInv
<1>1. UNCHANGED <<deployment, pods>>
  BY DEF UpdateStatus, childVars, inputVars
<1>2. UNCHANGED <<granted, outside>>
  BY <1>1 DEF granted, outside, Mounted
<1>3. worker # Idle /\ worker \in Busy /\ worker.name \in Names
  BY NewStatusType DEF UpdateStatus, Busy
<1>4. CASE ~worker.fresh
  BY <1>2, <1>4 DEF UpdateStatus, refused
<1>5. CASE worker.fresh
  <2>1. PICK n \in Names : n = worker.name
    BY <1>3
  <2>2. isvc[n] = worker.isvc /\ isvc[n] \in Isvcs /\ isvc[n] # None
    BY <1>3, <1>5, <2>1, NoneAssumption DEF CopyFresh, Busy
  <2> DEFINE new == [isvc[n] EXCEPT !.status = NewStatus(worker)]
  <2>3. new.status = NewStatus(worker) /\ new \in Isvcs
    BY <2>2, NewStatusType DEF UpdateStatus, Isvcs
  <2>4. isvc' = [isvc EXCEPT ![n] = new]
    BY <1>5, <2>1, <2>2 DEF UpdateStatus
  <2> HIDE DEF new
  <2>5. isvc'[n] = new /\ new # None /\ \A o \in Names \ {n} : isvc'[o] = isvc[o]
    BY <2>3, <2>4, NoneAssumption DEF TypeOK, IsvcTypeOK
  <2>6. CASE NewStatus(worker).configured = "TrustedStoreConflict"
    <3>1. worker.isvc.status \in Status
      BY <2>2 DEF Isvcs
    <3>2. worker.verdict = "TrustedStoreConflict"
      BY <2>6, <3>1 DEF NewStatus, ReadyStatus, FailedStatus, Status
    <3>3. granted[n] = {}
      BY <1>3, <2>1, <3>2 DEF Granting, Serving, granted
    <3>4. refused' = refused \cup {n}
      BY <2>3, <2>5, <2>6 DEF refused
    <3> QED
      BY <1>2, <3>3, <3>4 DEF Arbitration!Next, Arbitration!Refuse
  <2>7. CASE NewStatus(worker).configured # "TrustedStoreConflict"
    <3>1. refused' = refused \ {n}
      BY <2>3, <2>5, <2>7 DEF refused
    <3> QED
      BY <1>2, <3>1 DEF Arbitration!Next, Arbitration!Reconsider
  <2> QED
    BY <2>6, <2>7
<1> QED
  BY <1>4, <1>5

\* A Deployment that goes gives up its claim, or leaves.
LEMMA RemovalReleases ==
  ASSUME TypeOK, NEW d \in DeploymentNames, deployment[d] # None,
         deployment' = [deployment EXCEPT ![d] = None], UNCHANGED <<isvc, pods>>
  PROVE  Arbitration!Next
<1>1. deployment'[d] = None /\ \A e \in DeploymentNames \ {d} : deployment'[e] = deployment[e]
  BY DEF TypeOK, ChildTypeOK
<1>2. UNCHANGED refused /\ outside' \subseteq outside
  BY <1>1 DEF refused, outside, Mounted
<1>3. CASE d \in Names
  <2>1. granted'[d] = {}
    BY <1>1, <1>3 DEF granted
  <2>2. \A n \in Names \ {d} : granted'[n] = granted[n]
    BY <1>1 DEF granted, Mounted, DeploymentNames
  <2>3. granted' = [granted EXCEPT ![d] = {}]
    BY <1>3, <2>1, <2>2 DEF granted
  <2>4. Arbitration!Free(d, {})
    BY DEF Arbitration!Free
  <2> QED
    BY <1>2, <1>3, <2>3, <2>4 DEF Arbitration!Next, Arbitration!Grant
<1>4. CASE d \notin Names
  <2>1. \A n \in Names : deployment'[n] = deployment[n]
    BY <1>1, <1>4 DEF DeploymentNames
  <2>2. UNCHANGED granted
    BY <2>1 DEF granted, Mounted
  <2> QED
    BY <1>2, <2>2 DEF Arbitration!Next, Arbitration!Leave
<1> QED
  BY <1>3, <1>4

\* The Deployment controller has no part in this.
LEMMA RolloutStutters ==
  ASSUME TypeOK, NEW n \in Names, RollOut(n) \/ BecomeAvailable(n) \/ FailPod(n)
  PROVE  UNCHANGED <<granted, outside, refused>>
<1>1. UNCHANGED <<isvc, pods>>
  BY DEF RollOut, BecomeAvailable, FailPod, inputVars
<1>2. PICK new \in Deployments : /\ deployment' = [deployment EXCEPT ![n] = new]
                                 /\ deployment[n] # None
                                 /\ new.owner = deployment[n].owner
                                 /\ new.template = deployment[n].template
  BY StatusOfDeployment
<1>3. \A d \in DeploymentNames : /\ deployment'[d] # None <=> deployment[d] # None
                                 /\ deployment'[d].owner = deployment[d].owner
                                 /\ deployment'[d].template = deployment[d].template
  BY <1>2, NoneAssumption DEF TypeOK, ChildTypeOK
<1>4. \A d \in DeploymentNames : Mounted(d)' = Mounted(d)
  BY <1>3 DEF Mounted
<1>5. UNCHANGED granted
  BY <1>3, <1>4 DEF granted, DeploymentNames
<1>6. UNCHANGED outside
  BY <1>1, <1>3, <1>4 DEF outside
<1> QED
  BY <1>1, <1>5, <1>6 DEF refused

\* A CR is created without a status, and keeps it when its spec changes.
LEMMA ChangeStutters ==
  ASSUME TypeOK, NEW n \in Names, NEW spec \in Specs[n],
         \/ \E second \in {clock, clock + 1} : CreateInferenceService(n, spec, second)
         \/ EditInferenceService(n, spec)
  PROVE  UNCHANGED <<granted, outside, refused>>
<1>1. UNCHANGED <<deployment, pods>>
  BY DEF CreateInferenceService, EditInferenceService, childVars, inputVars
<1>2. UNCHANGED <<granted, outside>>
  BY <1>1 DEF granted, outside, Mounted
<1>3. ASSUME NEW second \in {clock, clock + 1}, CreateInferenceService(n, spec, second)
      PROVE  UNCHANGED refused
  <2> DEFINE new == [uid |-> Uid(n, serial + 1), created |-> second,
                     generation |-> 1, spec |-> spec, status |-> NoStatus]
  <2>1. /\ isvc' = [isvc EXCEPT ![n] = new] /\ isvc[n] = None
        /\ new.status.configured = "Unset"
    BY <1>3 DEF CreateInferenceService, NoStatus
  <2> HIDE DEF new
  <2> QED
    BY <2>1 DEF refused, TypeOK, IsvcTypeOK
<1>4. CASE EditInferenceService(n, spec)
  <2>1. isvc[n] \in Isvcs /\ isvc[n] # None
    BY <1>4 DEF EditInferenceService, TypeOK, IsvcTypeOK
  <2> DEFINE new == [isvc[n] EXCEPT !.spec = spec, !.generation = isvc[n].generation + 1]
  <2>2. isvc' = [isvc EXCEPT ![n] = new] /\ new.status = isvc[n].status
    BY <1>4, <2>1 DEF EditInferenceService, Isvcs
  <2>3. new \in Isvcs
    <3>1. spec \in AllSpecs /\ isvc[n].generation + 1 \in Nat
      BY <2>1 DEF Isvcs, AllSpecs
    <3> QED
      BY <2>1, <3>1 DEF Isvcs
  <2> HIDE DEF new
  <2>4. isvc'[n] = new /\ new # None /\ \A o \in Names \ {n} : isvc'[o] = isvc[o]
    BY <2>2, <2>3, NoneAssumption DEF TypeOK, IsvcTypeOK
  <2> QED
    BY <1>2, <2>1, <2>2, <2>4 DEF refused
<1> QED
  BY <1>2, <1>3, <1>4

LEMMA ArbitrationNext ==
  ASSUME AppendOnly, ArbitrationInv, [Next]_vars
  PROVE  [Arbitration!Next]_<<granted, outside, refused>>
<1> USE DEF ArbitrationInv, AppendOnlyInv, TypeInv
<1>1. CASE UNCHANGED <<isvc, deployment, pods>>
  BY <1>1 DEF granted, outside, refused, Mounted
<1>2. ~\E n \in Names : DeleteInferenceService(n)
  BY DEF AppendOnly, DeleteInferenceService, Operation
<1>3. ASSUME NEW c \in Claims, RetirePod(c) PROVE Arbitration!Next
  <2>1. UNCHANGED <<isvc, deployment>> /\ pods' \subseteq pods
    BY <1>3 DEF RetirePod, childVars
  <2>2. UNCHANGED <<granted, refused>> /\ outside' \subseteq outside
    BY <2>1 DEF granted, refused, outside, Mounted
  <2> QED
    BY <2>2 DEF Arbitration!Next, Arbitration!Leave
<1>4. CASE \/ \E n \in Names : DriftDeployment(n) \/ CollectDeployment(n)
           \/ \E d \in DeploymentNames : RetireDeployment(d)
  BY <1>4, RemovalReleases DEF DriftDeployment, CollectDeployment, RetireDeployment,
                               DeploymentNames, inputVars
<1>5. CASE User
  BY <1>1, <1>2, <1>3, <1>4, <1>5, ChangeStutters DEF User, AnnotateInferenceService,
     DriftService, ChangeTenant, ChangeModel, childVars, inputVars
<1>6. CASE Kubernetes
  BY <1>1, <1>4, <1>6, RolloutStutters DEF Kubernetes, CollectService, inputVars
<1>7. CASE Reconcile
  BY <1>1, <1>7, ApplyGrants, UpdateRefuses DEF Reconcile, GetInferenceService, GetTenant,
     GetModel, ListSiblings, ListDeployments, ListPods, ApplyConfigMap, ApplyService,
     childVars, inputVars
<1>8. CASE Inform \/ Restart \/ ApiError \/ UNCHANGED vars
  BY <1>1, <1>8 DEF Inform, InformIsvc, InformTenant, InformModel, InformDeployment,
     InformService, InformPod, Restart, ApiError, childVars, inputVars, vars
<1> QED
  BY <1>5, <1>6, <1>7, <1>8 DEF Next

(***************************************************************************)
(* The reconciler implements ClaimArbitration, however far every cache is  *)
(* behind: it puts a CR on a claim only while no other CR's Deployment, no *)
(* hand-written one and no standalone Pod has it, and it never tells a CR  *)
(* of a conflict while that CR's own Deployment has the claim.  The        *)
(* premise is that of ExclusiveByAge.                                      *)
(***************************************************************************)
THEOREM Arbitrates ==
  ASSUME AppendOnly
  PROVE  Spec => ClaimsArbitrated
<1>1. ArbitrationInv /\ [Next]_vars =>
        ArbitrationInv' /\ [Arbitration!Next]_<<granted, outside, refused>>
  BY GrantingStep, ArbitrationNext
<1> QED
  BY <1>1, InitArbitration, PTL DEF Spec, ClaimsArbitrated, Arbitration!Spec

=============================================================================

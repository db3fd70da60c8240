--------------------------- MODULE WorkloadsProofs ---------------------------
(***************************************************************************)
(* Theorems about the Pods of Workloads:                                   *)
(*   WorkloadsImplement   the composition only takes steps of the core, so *)
(*                        that what is proved of the core holds here;      *)
(*   ExclusiveWithPods, WinnerWithPods   two results carried over;         *)
(*   PodsApart            a Pod of the operator's shares its claim with no *)
(*                        other Pod, when nothing that holds a claim is    *)
(*                        deleted.                                         *)
(***************************************************************************)
EXTENDS Workloads, AppendOnlyProofs

-----------------------------------------------------------------------------
(* Refinement: the core's variables are a part of the state *)

LEMMA WorkloadsStep ==
  ASSUME [WorkloadsNext]_allVars
  PROVE  [Next]_vars
BY DEF WorkloadsNext, StartPod, PodGone, allVars

(***************************************************************************)
(* Pods do not take part in what the reconciler and the cluster do: every  *)
(* behaviour with Pods is, without them, one of the core.  The Deployment  *)
(* controller's view of Pods only restricts when a Deployment becomes      *)
(* Available.                                                              *)
(***************************************************************************)
THEOREM WorkloadsImplement == WorkloadsSpec => Spec
<1>1. WorkloadsInit => Init
  BY DEF WorkloadsInit
<1>2. [WorkloadsNext]_allVars => [Next]_vars
  BY WorkloadsStep
<1> QED
  BY <1>1, <1>2, PTL DEF WorkloadsSpec, Spec

(***************************************************************************)
(* The exclusion by age (ExclusiveByAge), in the composition with Pods.    *)
(***************************************************************************)
THEOREM ExclusiveWithPods ==
  ASSUME AppendOnly
  PROVE  WorkloadsSpec => []DeploymentsExclusive
BY WorkloadsImplement, ExclusiveByAge, PTL

(***************************************************************************)
(* A contended claim has a winner (HasWinner), in the composition.         *)
(***************************************************************************)
THEOREM WinnerWithPods ==
  ASSUME AppendOnly, NothingRetired
  PROVE  WorkloadsSpec => []ClaimHasWinner
BY WorkloadsImplement, HasWinner, PTL

-----------------------------------------------------------------------------
(***************************************************************************)
(* Pods.  A Pod holds what its Deployment mounts, because Deployments are  *)
(* neither deleted nor moved to another claim.  The one exception is a     *)
(* hand-written Deployment that a CR of its name took over from a claim    *)
(* that no CR names.                                                       *)
(***************************************************************************)

\* No Deployment is deleted; and of hand-written ones only one alone is under the
\* name of a CR.
NothingDeleted ==
  /\ "drift" \notin Ops
  /\ \A n \in Names \cap HandWrittenNames : HandWrittenNames = {n}

\* A Pod from before its Deployment was taken over.
Leftover(d, c) ==
  /\ d \in Names /\ HandWrittenNames = {d}
  /\ \A n \in Names : \A s \in Specs[n] : s.claim # c

Holds(d, c) ==
  /\ deployment[d] # None /\ c \in Claims
  /\ podSpecMountsClaim(deployment[d].template, c) \/ Leftover(d, c)

RunningHolds ==
  /\ running = [d \in DeploymentNames |-> running[d]]
  /\ \A d \in DeploymentNames : running[d] # None =>
       deployment[d] # None /\ \A c \in running[d] : Holds(d, c)

\* Recreate: a terminating Pod is the only one of its Deployment.
LeavingHolds ==
  \A p \in leaving : /\ p.name \in DeploymentNames /\ p.owned
                     /\ running[p.name] = None /\ deployment[p.name] # None
                     /\ \A c \in p.claims : Holds(p.name, c)

PodsInv == WinnerInv /\ pods = {} /\ RunningHolds /\ LeavingHolds

\* The garbage collector has nothing to collect, and nobody else deletes.
LEMMA DeploymentStays ==
  ASSUME AppendOnly, NothingRetired, NothingDeleted, WinnerInv, [Next]_vars,
         NEW d \in DeploymentNames, deployment[d] # None
  PROVE  deployment'[d] # None
<1> USE DEF WinnerInv, AppendOnlyInv, TypeInv
<1>1. CASE UNCHANGED deployment
  BY <1>1
<1>2. ASSUME NEW n \in Names, NEW new \in Deployments,
             deployment' = [deployment EXCEPT ![n] = new]
      PROVE  deployment'[d] # None
  BY <1>2, NoneAssumption DEF TypeOK, ChildTypeOK
<1>3. ASSUME NEW n \in Names PROVE ~CollectDeployment(n) /\ ~DriftDeployment(n)
  BY DEF CollectDeployment, Orphaned, Owned, OwnedByEldest, NothingDeleted, DriftDeployment,
         Operation
<1>4. ~\E e \in DeploymentNames : RetireDeployment(e)
  BY DEF NothingRetired, RetireDeployment, Operation
<1>5. ASSUME NEW n \in Names, RollOut(n) \/ BecomeAvailable(n) \/ FailPod(n)
      PROVE  deployment'[d] # None
  BY <1>2, <1>5, StatusOfDeployment
<1>6. CASE User \/ Kubernetes
  BY <1>1, <1>3, <1>4, <1>5, <1>6 DEF User, Kubernetes, CreateInferenceService,
     EditInferenceService, AnnotateInferenceService, DeleteInferenceService, DriftService,
     ChangeTenant, ChangeModel, RetirePod, CollectService, childVars
<1>7. CASE Places
  BY <1>2, <1>7 DEF Places
<1>8. CASE Reconcile
  BY <1>1, <1>7, <1>8, ApplyPlaces DEF Reconcile, GetInferenceService, GetTenant, GetModel,
     ListSiblings, ListDeployments, ListPods, ApplyConfigMap, ApplyService, UpdateStatus, childVars
<1>9. CASE Inform \/ Restart \/ ApiError \/ UNCHANGED vars
  BY <1>1, <1>9 DEF Inform, InformIsvc, InformTenant, InformModel, InformDeployment,
     InformService, InformPod, Restart, ApiError, childVars, vars
<1> QED
  BY <1>6, <1>8, <1>9 DEF Next

\* What a Pod holds, its Deployment keeps on mounting.
LEMMA HoldsKept ==
  ASSUME AppendOnly, NothingRetired, NothingDeleted, WinnerInv, [Next]_vars,
         NEW d \in DeploymentNames, NEW c, Holds(d, c)
  PROVE  Holds(d, c)'
<1> USE DEF WinnerInv, AppendOnlyInv, TypeInv
<1>1. deployment[d] # None /\ deployment'[d] # None /\ c \in Claims
  BY DeploymentStays DEF Holds
<1>2. CASE Leftover(d, c)
  BY <1>1, <1>2 DEF Holds, Leftover
<1>3. CASE podSpecMountsClaim(deployment[d].template, c) /\ ~(Places /\ d = worker.name)
  <2>1. deployment'[d].template = deployment[d].template
    BY <1>1, <1>3, DeploymentStep DEF KeepsMounts, Places, TypeOK, ChildTypeOK
  <2> QED
    BY <1>1, <1>3, <2>1 DEF Holds
<1>4. CASE podSpecMountsClaim(deployment[d].template, c) /\ Places /\ d = worker.name
  <2>1. PICK new \in Deployments :
          /\ deployment' = [deployment EXCEPT ![d] = new]
          /\ \A x : podSpecMountsClaim(new.template, x) <=> x = worker.isvc.spec.claim
    BY <1>4 DEF Places
  <2>2. deployment'[d] = new
    BY <2>1 DEF TypeOK, ChildTypeOK
  <2>3. d \in Names /\ worker # Idle /\ Unclaimed(d)
    BY <1>4 DEF Places, Passed, Guarded
  <2>4. /\ isvc[d] # None /\ isvc[d].spec \in Specs[d]
        /\ worker.isvc.spec.claim = isvc[d].spec.claim
    BY <1>4, <2>3, CopyClaim DEF SpecsKnown, SpecsOwn
  <2>5. CASE deployment[d].owner # None
    <3>1. c = isvc[d].spec.claim
      BY <1>1, <1>4, <2>3, <2>5 DEF Owned, OwnedByEldest
    <3> QED
      BY <1>1, <2>1, <2>2, <2>4, <3>1 DEF Holds
  <2>6. CASE deployment[d].owner = None
    <3>1. d \in HandWrittenNames /\ c # isvc[d].spec.claim
      BY <1>1, <1>4, <2>3, <2>6 DEF HandWrittenNamed, Unclaimed, HandWrittenOn
    <3>2. HandWrittenNames = {d}
      BY <2>3, <3>1 DEF NothingDeleted
    <3>3. \A n \in Names : \A s \in Specs[n] : s.claim # c
      BY <2>3, <2>4, <3>1 DEF NothingRetired
    <3> QED
      BY <1>1, <2>3, <3>2, <3>3 DEF Holds, Leftover
  <2> QED
    BY <2>5, <2>6
<1> QED
  BY <1>2, <1>3, <1>4 DEF Holds

\* A step of the cluster stops Pods and starts none.
LEMMA StopKeepsPods ==
  ASSUME AppendOnly, NothingRetired, NothingDeleted, PodsInv, Next, StopPods
  PROVE  RunningHolds' /\ LeavingHolds'
<1>1. \A d \in DeploymentNames : deployment[d] # None => deployment'[d] # None
  BY DeploymentStays DEF PodsInv
<1>2. ASSUME NEW d \in DeploymentNames, NEW c, Holds(d, c) PROVE Holds(d, c)'
  BY <1>2, HoldsKept DEF PodsInv
<1>3. PICK stopped \in SUBSET {d \in DeploymentNames : running[d] # None} :
        /\ running' = [d \in DeploymentNames |-> IF d \in stopped THEN None ELSE running[d]]
        /\ leaving' = leaving \cup {Leaving(d, TRUE) : d \in stopped}
  <2> DEFINE gone    == {d \in DeploymentNames : deployment[d] # None /\ deployment'[d] = None}
             rolled  == {d \in DeploymentNames \ gone :
                           /\ deployment[d] # None
                           /\ ~deployment[d].rolledOut /\ deployment'[d].rolledOut}
             stopped == {d \in gone \cup rolled : running[d] # None}
  <2>1. /\ running' = [d \in DeploymentNames |-> IF d \in stopped THEN None ELSE running[d]]
        /\ leaving' = {IF p.name \in gone THEN [p EXCEPT !.owned = FALSE] ELSE p : p \in leaving}
                      \cup {Leaving(d, d \notin gone) : d \in stopped}
    BY DEF StopPods
  <2>2. gone = {}
    BY <1>1
  <2>3. stopped \in SUBSET {d \in DeploymentNames : running[d] # None}
    OBVIOUS
  <2> HIDE DEF stopped, gone
  <2>4. leaving' = leaving \cup {Leaving(d, TRUE) : d \in stopped}
    BY <2>1, <2>2
  <2> QED
    BY <2>1, <2>3, <2>4
<1>4. RunningHolds'
  <2>1. \A d \in DeploymentNames : running'[d] # None => running'[d] = running[d]
    BY <1>3
  <2> QED
    BY <1>1, <1>2, <1>3, <2>1 DEF PodsInv, RunningHolds
<1>5. LeavingHolds'
  <2> SUFFICES ASSUME NEW p \in leaving'
               PROVE  /\ p.name \in DeploymentNames /\ p.owned
                      /\ running'[p.name] = None /\ deployment'[p.name] # None
                      /\ \A c \in p.claims : Holds(p.name, c)'
    BY DEF LeavingHolds
  <2>1. CASE p \in leaving
    BY <1>1, <1>2, <1>3, <2>1 DEF PodsInv, LeavingHolds
  <2>2. ASSUME NEW d \in stopped, p = Leaving(d, TRUE)
        PROVE  /\ p.name \in DeploymentNames /\ p.owned
               /\ running'[p.name] = None /\ deployment'[p.name] # None
               /\ \A c \in p.claims : Holds(p.name, c)'
    <3>1. p.name = d /\ p.owned = TRUE /\ p.claims = running[d]
      BY <2>2 DEF Leaving
    <3>2. d \in DeploymentNames /\ running[d] # None /\ running'[d] = None
      BY <1>3, <2>2
    <3> QED
      BY <1>1, <1>2, <3>1, <3>2 DEF PodsInv, RunningHolds
  <2> QED
    BY <1>3, <2>1, <2>2
<1> QED
  BY <1>4, <1>5

\* A new Pod holds what its Deployment mounts, and is the only one of its name.
LEMMA StartKeepsPods ==
  ASSUME PodsInv, NEW d \in DeploymentNames, StartPod(d)
  PROVE  RunningHolds' /\ LeavingHolds'
<1>1. /\ running' = [running EXCEPT ![d] = Mounted(d)]
      /\ UNCHANGED <<deployment, leaving>> /\ deployment[d] # None
  BY DEF StartPod, vars
<1>2. \A p \in leaving : p.name # d
  BY DEF StartPod, strategy, PodsInv, LeavingHolds
<1>3. \A c \in Mounted(d) : Holds(d, c)
  BY <1>1 DEF Mounted, Holds
<1>4. \A e \in DeploymentNames : \A c : Holds(e, c)' <=> Holds(e, c)
  BY <1>1 DEF Holds, Leftover
<1>5. running'[d] = Mounted(d) /\ \A e \in DeploymentNames \ {d} : running'[e] = running[e]
  BY <1>1 DEF PodsInv, RunningHolds
<1>6. running' = [e \in DeploymentNames |-> running'[e]]
  BY <1>1 DEF PodsInv, RunningHolds
<1>7. RunningHolds'
  BY <1>1, <1>3, <1>4, <1>5, <1>6 DEF PodsInv, RunningHolds
<1>8. LeavingHolds'
  BY <1>1, <1>2, <1>4, <1>5 DEF PodsInv, LeavingHolds
<1> QED
  BY <1>7, <1>8

LEMMA PodsStep ==
  ASSUME AppendOnly, NothingRetired, NothingDeleted, PodsInv, [WorkloadsNext]_allVars
  PROVE  PodsInv'
<1>1. [Next]_vars
  BY WorkloadsStep
<1>2. WinnerInv'
  BY <1>1, WinnerStep DEF PodsInv
<1>3. pods' = {}
  BY <1>1, PodsKept DEF PodsInv, WinnerInv, AppendOnlyInv, TypeInv
<1>4. CASE Next /\ StopPods
  BY <1>2, <1>3, <1>4, StopKeepsPods DEF PodsInv
<1>5. CASE \E d \in DeploymentNames : StartPod(d)
  BY <1>2, <1>3, <1>5, StartKeepsPods DEF PodsInv
<1>6. CASE (\E p \in leaving : PodGone(p)) \/ UNCHANGED allVars
  <2>1. UNCHANGED <<deployment, running>> /\ leaving' \subseteq leaving
    BY <1>6 DEF PodGone, allVars, podVars, vars
  <2>2. \A e \in DeploymentNames : \A c : Holds(e, c)' <=> Holds(e, c)
    BY <2>1 DEF Holds, Leftover
  <2>3. RunningHolds' /\ LeavingHolds'
    BY <2>1, <2>2 DEF PodsInv, RunningHolds, LeavingHolds
  <2> QED
    BY <1>2, <1>3, <2>3 DEF PodsInv
<1> QED
  BY <1>4, <1>5, <1>6 DEF WorkloadsNext

LEMMA InitPods ==
  ASSUME NothingRetired, WorkloadsInit
  PROVE  PodsInv
<1>1. WinnerInv /\ leaving = {}
  BY InitWinner DEF WorkloadsInit
<1>2. pods = {}
  BY DEF WorkloadsInit, Init, NothingRetired
<1>3. running = [d \in DeploymentNames |-> IF deployment[d] = None THEN None ELSE Mounted(d)]
  BY DEF WorkloadsInit
<1>4. \A d \in DeploymentNames : \A c \in Mounted(d) : Holds(d, c)
  BY DEF Mounted, Holds
<1>5. RunningHolds
  BY <1>3, <1>4 DEF RunningHolds
<1> QED
  BY <1>1, <1>2, <1>5 DEF PodsInv, LeavingHolds

LEMMA PodsInvExcludes ==
  ASSUME PodsInv
  PROVE  PodsExclusive
<1> USE DEF PodsInv, WinnerInv, AppendOnlyInv, TypeInv
<1> SUFFICES ASSUME NEW n \in Names, deployment[n] # None, deployment[n].owner # None,
                    running[n] # None, NEW c \in running[n], c \in HeldBesides(n)
             PROVE  FALSE
  BY DEF PodsExclusive
<1>1. n \in DeploymentNames /\ Holds(n, c)
  BY DEF DeploymentNames, RunningHolds
<1>2. PICK e \in DeploymentNames \ {n} : Holds(e, c)
  <2>1. CASE \E x \in DeploymentNames \ {n} : running[x] # None /\ c \in running[x]
    BY <2>1 DEF RunningHolds
  <2>2. CASE \E p \in leaving : c \in p.claims
    BY <2>2 DEF LeavingHolds
  <2> QED
    BY <2>1, <2>2 DEF HeldBesides
<1>3. ASSUME NEW d \in Names, deployment[d] # None, deployment[d].owner # None,
             podSpecMountsClaim(deployment[d].template, c)
      PROVE  ~\E x \in Names : Leftover(x, c)
  <2>1. isvc[d] # None /\ c = isvc[d].spec.claim /\ isvc[d].spec \in Specs[d]
    BY <1>3 DEF Owned, OwnedByEldest, SpecsKnown, SpecsOwn
  <2> QED
    BY <2>1 DEF Leftover
<1>4. CASE Leftover(n, c)
  <2>1. e \notin HandWrittenNames /\ ~Leftover(e, c)
    BY <1>2, <1>4 DEF Leftover
  <2>2. /\ e \in Names /\ deployment[e] # None /\ deployment[e].owner # None
        /\ podSpecMountsClaim(deployment[e].template, c)
    BY <1>2, <2>1 DEF DeploymentNames, HandWrittenNamed, Holds
  <2> QED
    BY <1>3, <1>4, <2>2
<1>5. CASE podSpecMountsClaim(deployment[n].template, c)
  <2>1. ~Leftover(e, c)
    BY <1>3, <1>5 DEF Leftover
  <2>2. /\ deployment[e] # None /\ c \in Claims
        /\ podSpecMountsClaim(deployment[e].template, c)
    BY <1>2, <2>1 DEF Holds
  <2>3. DeploymentsExclusive
    BY AgeExcludes
  <2> QED
    BY <1>1, <1>5, <2>2, <2>3 DEF DeploymentsExclusive
<1> QED
  BY <1>1, <1>4, <1>5 DEF Holds

(***************************************************************************)
(* One Pod per claim, which is what protects a trusted store: however far  *)
(* the caches are behind and whatever is edited, rolled out, restarted or  *)
(* fails, a Pod of the operator's shares its claim with no other Pod, its  *)
(* own predecessor included, from creation until it is gone.  It rests on  *)
(* the order of creation, on the guard's list of Deployments (for the      *)
(* hand-written ones) and on the strategy Recreate; and on nothing that    *)
(* holds a claim being deleted, without which it is false: run terminating.*)
(***************************************************************************)
THEOREM PodsApart ==
  ASSUME AppendOnly, NothingRetired, NothingDeleted
  PROVE  WorkloadsSpec => []PodsExclusive
<1>1. WorkloadsInit => PodsInv
  BY InitPods
<1>2. PodsInv /\ [WorkloadsNext]_allVars => PodsInv'
  BY PodsStep
<1>3. PodsInv => PodsExclusive
  BY PodsInvExcludes
<1> QED
  BY <1>1, <1>2, <1>3, PTL DEF WorkloadsSpec

=============================================================================

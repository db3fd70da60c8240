------------------------------ MODULE Workloads ------------------------------
(***************************************************************************)
(* The Pods of the Deployments, composed with the operator and everybody   *)
(* of Cluster.  What corrupts a trusted store is a second Pod, not a       *)
(* second Deployment: a Pod takes minutes to start and to terminate (a     *)
(* confidential guest), and keeps its claim until it is gone, whatever has *)
(* become of its Deployment.  Kubernetes' own controllers are external;    *)
(* the operator's part is the guard and the strategy it renders.           *)
(***************************************************************************)
EXTENDS InferenceServiceProperties

VARIABLES
  running,   \* the claims of the Pod of each Deployment, or None
  leaving    \* Pods that terminate: of which name, still a Deployment's, claims

podVars == <<running, leaving>>
allVars == <<vars, podVars>>

Leaving(d, owned) == [name |-> d, owned |-> owned, claims |-> running[d]]

\* Hand-written workloads have been running for long.
WorkloadsInit ==
  /\ Init
  /\ running = [d \in DeploymentNames |-> IF deployment[d] = None THEN None ELSE Mounted(d)]
  /\ leaving = {}

-----------------------------------------------------------------------------
(* What a step of the cluster does to Pods *)

\* The Pods of a deleted Deployment terminate, and so do those of an old template.
\* A Deployment of the same name that comes later does not know the former.
StopPods ==
  LET gone    == {d \in DeploymentNames : deployment[d] # None /\ deployment'[d] = None}
      rolled  == {d \in DeploymentNames \ gone :
                    deployment[d] # None /\ ~deployment[d].rolledOut /\ deployment'[d].rolledOut}
      stopped == {d \in gone \cup rolled : running[d] # None}
  IN  /\ running' = [d \in DeploymentNames |-> IF d \in stopped THEN None ELSE running[d]]
      /\ leaving' = {IF p.name \in gone THEN [p EXCEPT !.owned = FALSE] ELSE p : p \in leaving}
                    \cup {Leaving(d, d \notin gone) : d \in stopped}

\* A Deployment is Available when its Pod is ready.
AvailableHasPod ==
  \A d \in DeploymentNames :
    deployment'[d] # None /\ deployment'[d].available
      => running'[d] # None \/ (deployment[d] # None /\ deployment[d].available)

\* The Deployment controller creates the Pod of the template it has rolled out;
\* with strategy Recreate, once the Pods of the old template are gone.
StartPod(d) ==
  /\ deployment[d] # None /\ deployment[d].rolledOut
  /\ running[d] = None
  /\ strategy = "Recreate" => \A p \in leaving : ~(p.name = d /\ p.owned)
  /\ running' = [running EXCEPT ![d] = Mounted(d)]
  /\ UNCHANGED <<vars, leaving>>

PodGone(p) ==
  /\ leaving' = leaving \ {p}
  /\ UNCHANGED <<vars, running>>

WorkloadsNext ==
  \/ Next /\ StopPods /\ AvailableHasPod
  \/ \E d \in DeploymentNames : StartPod(d)
  \/ \E p \in leaving : PodGone(p)

WorkloadsSpec == WorkloadsInit /\ [][WorkloadsNext]_allVars

-----------------------------------------------------------------------------
(* Properties *)

\* Who else has the claims: other Pods, the terminating ones, standalone ones.
HeldBesides(d) ==
  (UNION {running[e] : e \in {x \in DeploymentNames \ {d} : running[x] # None}})
  \cup (UNION {p.claims : p \in leaving})
  \cup pods

\* "One workload per claim: a second consumer would LUKS-format the store again"
\* (TrustedStoreSpec): a Pod the operator rendered never shares its claim with
\* another Pod, its own predecessor included, from its creation on.
PodsExclusive ==
  \A n \in Names :
    deployment[n] # None /\ deployment[n].owner # None /\ running[n] # None
      => running[n] \cap HeldBesides(n) = {}

\* "Controller-owned pods are covered via their Deployment above; only standalone
\* pods can hold a claim invisibly" (trustedStoreConflict): when the guard has
\* let a CR pass, no Pod but this CR's own holds its claim.
GuardCoversPods ==
  worker.pc \in {"applyConfigMap", "applyDeployment"}
    => LET others == {p \in leaving : p.name # worker.name}
       IN  worker.isvc.spec.claim \notin
             (UNION {p.claims : p \in others})
             \cup (UNION {running[e] : e \in {x \in DeploymentNames \ {worker.name} :
                                                 running[x] # None}})

=============================================================================

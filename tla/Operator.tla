------------------------------ MODULE Operator ------------------------------
(***************************************************************************)
(* The manager process with two of its controllers: the one of the         *)
(* InferenceServices and the one of the BrukTenant.  They meet in the      *)
(* BrukTenant: both read it from the same informer, and what the second    *)
(* writes into its status is an event for the first, which watches the     *)
(* BrukTenant without a predicate and then reconciles every CR.            *)
(***************************************************************************)
EXTENDS InferenceServiceProperties

VARIABLES
  btObject,   \* API server: the BrukTenant with its generation and status
  btCache,    \* informer cache
  btEvents,   \* an undelivered watch event
  btQueue,    \* workqueue of the BrukTenant controller
  btWorker,   \* its reconcile in progress
  btSerial    \* number of uids handed out

btVars       == <<btObject, btCache, btEvents, btQueue, btWorker, btSerial>>
operatorVars == <<vars, btVars>>

BT == INSTANCE BrukTenantController
  WITH object <- btObject, cache <- btCache, events <- btEvents, queue <- btQueue,
       worker <- btWorker, serial <- btSerial, Specs <- TenantSpecs,
       Ops <- {"delete"} \cup (Ops \cap {"restart", "apiError"})

\* The process starts and finds the BrukTenant, if there is one, without a status.
OperatorInit ==
  /\ Init
  /\ btObject = [n \in {BT!BrukTenantName} |->
                   IF tenant = None THEN None
                   ELSE [uid |-> 1, generation |-> 1, spec |-> tenant, status |-> BT!NoStatus]]
  /\ btCache = btObject
  /\ btEvents = {}
  /\ btQueue = {n \in {BT!BrukTenantName} : btObject[n] # None}
  /\ btWorker = BT!Idle
  /\ btSerial = 1

\* Blobs are byte strings, of which a gzip stream begins with the magic (RFC 1952);
\* the BrukTenant has a name, and what is absent is not an object.
ASSUME BlobAssumption ==
  \A t \in TenantSpecs :
    \/ t.initData = None
    \/ /\ t.initData \in [base64 : BOOLEAN, raw : Seq(0 .. 255), gzip : BOOLEAN]
       /\ t.initData.gzip => /\ Len(t.initData.raw) >= 2
                             /\ t.initData.raw[1] = 31 /\ t.initData.raw[2] = 139
ASSUME TenantNameAssumption == None # BT!BrukTenantName
ASSUME TenantObjectAssumption == None \notin BT!Objects

-----------------------------------------------------------------------------

\* A user's write of the spec, as both controllers know it.
WriteTenant ==
  \/ \E t \in TenantSpecs :
       ChangeTenant(t) /\ (BT!Create(BT!BrukTenantName, t) \/ BT!Edit(BT!BrukTenantName, t))
  \/ ChangeTenant(None) /\ BT!Delete(BT!BrukTenantName)

\* Reconcile of the BrukTenant; a status that changes is an event for both.
ReconcileTenant ==
  /\ BT!Reconcile
  /\ events' = [events EXCEPT !.tenant = btEvents' # {}]
  /\ UNCHANGED <<isvc, childVars, inputVars, cache, queue, worker, clock, serial>>

TenantApiError ==
  /\ BT!ApiError
  /\ UNCHANGED <<isvc, childVars, inputVars, cache, events, queue, worker, clock, serial>>

OperatorNext ==
  \/ Reconcile /\ UNCHANGED btVars
  \/ (InformIsvc \/ InformModel \/ InformDeployment \/ InformService \/ InformPod)
       /\ UNCHANGED btVars
  \/ User /\ tenant' = tenant /\ UNCHANGED btVars
  \/ Kubernetes /\ UNCHANGED btVars
  \/ ApiError /\ UNCHANGED btVars
  \/ WriteTenant
  \/ ReconcileTenant
  \/ InformTenant /\ BT!Inform
  \/ Restart /\ BT!Restart
  \/ TenantApiError

OperatorSpec == OperatorInit /\ [][OperatorNext]_operatorVars

\* Each controller has a worker of its own; the rest is as it was.
FairOperatorSpec == OperatorSpec /\ Fairness /\ BT!Fairness

-----------------------------------------------------------------------------
(* Properties *)

bt == btObject[BT!BrukTenantName]

OperatorAtRest == AtRest /\ btWorker = BT!Idle /\ btQueue = {} /\ btEvents = {}

\* What kubectl get bt says (TenantHonest in BrukTenantController): whatever the other
\* controller and the users do in the meantime, a status of the current generation
\* has the hash of the live blob, says Valid of every blob that a guest can unpack,
\* and of none that is no base64 or plain base64 of the TOML.
TenantStatusHonest == BT!TenantHonest

\* "matches BrukTenant.status.appliedInitDataHash when converged"
\* (InferenceServiceStatus): at rest, the hash in the status of a Configured CR,
\* the one in the BrukTenant's and the one of the blob in the CR's Deployment
\* are the same, so that the Ready condition of the BrukTenant, which nothing
\* consults before it renders, tells whether the blob the Pods got has passed
\* validateInitData.
InitDataTraceable ==
  OperatorAtRest => \A n \in Names :
    isvc[n] # None /\ isvc[n].status.configured = "Configured" =>
      /\ bt # None /\ deployment[n] # None
      /\ LET blob == deployment[n].template.initData
         IN  /\ isvc[n].status.applied.initDataHash = InitDataHash(blob)
             /\ bt.status.report.hash = InitDataHash(blob)
             /\ bt.status.report.ready = "Valid" <=> BT!validateInitData(blob)

\* The controllers wake each other, and themselves, with their status updates,
\* which no predicate filters (SetupWithManager); yet once users and failures
\* stop, the operator comes to rest.
EventuallyQuiet == <>[]OperatorAtRest

=============================================================================

--------------------------- MODULE OperatorProofs ---------------------------
(***************************************************************************)
(* Theorems about the composition of the two controllers in Operator:      *)
(*   TenantHonestInOperator     the status of the BrukTenant is right      *)
(*                              about its initdata;                        *)
(*   ExclusiveInOperator        what InferenceServiceProofs shows of the   *)
(*                              claims holds in the composition too;       *)
(*   InitDataIsTraceable        at rest, all statuses and Deployments      *)
(*                              speak of the same initdata;                *)
(*   AppliedInOperator, ConvergesInOperator                                *)
(*                              what ConvergenceProofs shows holds in the  *)
(*                              composition too.                           *)
(***************************************************************************)
EXTENDS Operator, ConvergenceProofs, SequenceTheorems

\* The BrukTenant controller as an instance of what is proved of every validating
\* reconciler.  BT names the same actions.
BTP == INSTANCE StatusReconcilerProofs
  WITH object <- btObject, cache <- btCache, events <- btEvents, queue <- btQueue,
       worker <- btWorker, serial <- btSerial, Specs <- TenantSpecs,
       Names <- {BT!BrukTenantName}, Worlds <- {<<>>}, world <- <<>>,
       Asks <- BT!ReadsNothingElse, Judge <- BT!TenantReport,
       Ops <- {"delete"} \cup (Ops \cap {"restart", "apiError"})

\* What StatusReconciler assumes of its constants holds of the instance.
LEMMA InstanceAssumptions ==
  /\ MaxOps \in Nat
  /\ None \notin {BT!BrukTenantName}
  /\ {"delete"} \cup (Ops \cap {"restart", "apiError"})
       \subseteq {"delete", "world", "restart", "apiError"}
BY BoundAssumption, TenantNameAssumption

LEMMA SameUser ==
  ASSUME NEW n, NEW spec
  PROVE  /\ BT!Create(n, spec) => BTP!Create(n, spec)
         /\ BT!Edit(n, spec) => BTP!Edit(n, spec)
         /\ BT!Delete(n) => BTP!Delete(n)
BY DEF BT!Create, BTP!Create, BT!Edit, BTP!Edit, BT!Delete, BTP!Delete, BT!Operation,
       BTP!Operation, BT!Touch, BTP!Touch, BT!NoStatus, BTP!NoStatus

LEMMA SameReconcile == BT!Reconcile => BTP!Reconcile
<1>1. ASSUME NEW n, BT!Get(n) PROVE BTP!Get(n)
  BY <1>1 DEF BT!Get, BTP!Get, BT!Idle, BTP!Idle
<1>2. BT!Look => BTP!Look
  BY DEF BT!Look, BTP!Look
<1>3. BT!SetStatus => BTP!SetStatus
  BY DEF BT!SetStatus, BTP!SetStatus, BT!NewStatus, BTP!NewStatus, BT!Requeue, BTP!Requeue,
         BT!Idle, BTP!Idle
<1> QED
  BY <1>1, <1>2, <1>3 DEF BT!Reconcile, BTP!Reconcile

LEMMA SameOther ==
  /\ BT!Inform => BTP!Inform
  /\ BT!Restart => BTP!Restart
  /\ BT!ApiError => BTP!ApiError
BY DEF BT!Inform, BTP!Inform, BT!Restart, BTP!Restart, BT!ApiError, BTP!ApiError, BT!Operation,
       BTP!Operation, BT!Requeue, BTP!Requeue, BT!Idle, BTP!Idle

-----------------------------------------------------------------------------
(* A step of the composition, as each controller sees it *)

\* The InferenceService controller: a step of its own, or an event of the
\* BrukTenant and a failed call of the other.
TenantSideStep ==
  /\ UNCHANGED <<isvc, childVars, inputVars, cache, queue, worker, clock, serial>>
  /\ events' = events \/ \E b \in BOOLEAN : events' = [events EXCEPT !.tenant = b]
  /\ ops' = ops \/ (ops < MaxOps /\ ops' = ops + 1)

LEMMA CoreStep ==
  ASSUME [OperatorNext]_operatorVars
  PROVE  Next \/ TenantSideStep
<1>1. CASE ReconcileTenant
  <2>1. UNCHANGED ops
    BY <1>1 DEF ReconcileTenant, BT!Reconcile, BT!Get, BT!Look, BT!SetStatus
  <2>2. (btEvents' # {}) \in BOOLEAN
    OBVIOUS
  <2> QED
    BY <1>1, <2>1, <2>2 DEF ReconcileTenant, TenantSideStep
<1>2. CASE TenantApiError
  BY <1>2 DEF TenantApiError, BT!ApiError, BT!Operation, TenantSideStep
<1>3. CASE WriteTenant
  BY <1>3 DEF WriteTenant, Next, User
<1>4. CASE UNCHANGED operatorVars
  BY <1>4 DEF operatorVars, vars, TenantSideStep, childVars, inputVars
<1>5. CASE \/ Reconcile \/ User \/ Kubernetes \/ ApiError \/ InformTenant \/ Restart
           \/ InformIsvc \/ InformModel \/ InformDeployment \/ InformService \/ InformPod
  BY <1>5 DEF Next, Inform
<1> QED
  BY <1>1, <1>2, <1>3, <1>4, <1>5 DEF OperatorNext

\* The BrukTenant controller: a step of its own, or of somebody who leaves its
\* variables alone.
LEMMA TenantStep ==
  ASSUME [OperatorNext]_operatorVars
  PROVE  BTP!Next \/ UNCHANGED btVars
<1>1. CASE WriteTenant
  <2>1. \/ \E t \in TenantSpecs : BT!Create(BT!BrukTenantName, t) \/ BT!Edit(BT!BrukTenantName, t)
        \/ BT!Delete(BT!BrukTenantName)
    BY <1>1 DEF WriteTenant
  <2>2. BTP!User
    BY <2>1, SameUser DEF BTP!User
  <2> QED
    BY <2>2 DEF BTP!Next
<1>2. CASE ReconcileTenant
  BY <1>2, SameReconcile DEF ReconcileTenant, BTP!Next
<1>3. CASE BT!Inform \/ BT!Restart \/ TenantApiError
  BY <1>3, SameOther DEF TenantApiError, BTP!Next
<1>4. CASE UNCHANGED operatorVars
  BY <1>4 DEF operatorVars
<1> QED
  BY <1>1, <1>2, <1>3, <1>4 DEF OperatorNext

-----------------------------------------------------------------------------
(* The invariants of both controllers *)

OperatorInv == TypeInv /\ BTP!StatusInv

\* An event of the BrukTenant changes nothing that the invariants of the other
\* controller speak of.
LEMMA TenantSideKeepsTypeInv ==
  ASSUME TypeInv, TenantSideStep
  PROVE  TypeInv'
<1> USE DEF TypeInv
<1>1. IsvcTypeOK' /\ InputTypeOK' /\ ChildTypeOK' /\ CacheTypeOK' /\ WorkerTypeOK'
  BY Frame DEF TypeOK, TenantSideStep
<1>2. QueueTypeOK' /\ events'.isvc = events.isvc
  BY DEF TypeOK, QueueTypeOK, TenantSideStep
<1>3. CounterTypeOK'
  BY BoundAssumption DEF TypeOK, CounterTypeOK, TenantSideStep
<1>4. CacheFresh' /\ CopyFresh'
  BY <1>2, CacheFrame, CopyFrame DEF TenantSideStep
<1> QED
  BY <1>1, <1>2, <1>3, <1>4 DEF TypeOK

LEMMA InitOperatorInv == OperatorInit => OperatorInv
<1> SUFFICES ASSUME OperatorInit PROVE OperatorInv
  OBVIOUS
<1>1. TypeInv
  BY InitTypeOK DEF OperatorInit, Init, TypeInv, CacheFresh, CopyFresh
<1> DEFINE bt1 == IF tenant = None THEN None
                  ELSE [uid |-> 1, generation |-> 1, spec |-> tenant, status |-> BT!NoStatus]
<1>2. btObject = [n \in {BT!BrukTenantName} |-> bt1] /\ btCache = btObject
  BY DEF OperatorInit
<1>3. /\ bt1 \in BTP!Objects \cup {None}
      /\ bt1 # None => bt1.status.observed = 0 /\ bt1.generation = 1
  <2>1. BT!NoStatus \in BTP!Statuses /\ BT!NoStatus.observed = 0
    BY DEF BT!NoStatus, BTP!Statuses
  <2>2. tenant \in TenantSpecs \cup {None}
    BY <1>1 DEF TypeInv, TypeOK, InputTypeOK
  <2> QED
    BY <2>1, <2>2 DEF BTP!Objects
<1> HIDE DEF bt1
<1>4. /\ btWorker = BTP!Idle /\ btWorker.pc = "idle" /\ btEvents = {}
      /\ btQueue \subseteq {BT!BrukTenantName} /\ btSerial \in Nat /\ ops \in 0 .. MaxOps
  BY BoundAssumption DEF OperatorInit, Init, BT!Idle, BTP!Idle
<1>5. BTP!TypeOK
  BY <1>2, <1>3, <1>4 DEF BTP!TypeOK
<1>6. BTP!CacheFresh /\ BTP!CopyFresh /\ BTP!ReportAboutCopy
  BY <1>2, <1>4 DEF BTP!CacheFresh, BTP!CopyFresh, BTP!ReportAboutCopy
<1>7. BTP!ObservedBound /\ BTP!StatusDescribesSpec
  BY <1>2, <1>3 DEF BTP!ObservedBound, BTP!StatusDescribesSpec
<1> QED
  BY <1>1, <1>5, <1>6, <1>7 DEF OperatorInv, BTP!StatusInv

LEMMA OperatorInvStep ==
  ASSUME OperatorInv, [OperatorNext]_operatorVars
  PROVE  OperatorInv'
<1>1. TypeInv'
  BY CoreStep, TypeInvStep, TenantSideKeepsTypeInv DEF OperatorInv
<1>2. ops' \in 0 .. MaxOps
  BY <1>1 DEF TypeInv, TypeOK, CounterTypeOK
<1>3. BTP!StatusInv'
  BY <1>2, TenantStep, InstanceAssumptions, BTP!StatusInvStep DEF OperatorInv, btVars
<1> QED
  BY <1>1, <1>3 DEF OperatorInv

LEMMA OperatorInvInvariant == OperatorSpec => []OperatorInv
BY InitOperatorInv, OperatorInvStep, PTL DEF OperatorSpec

-----------------------------------------------------------------------------
(* The BrukTenant's status *)

\* Two bytes are enough to let every gzip stream pass and no text.
LEMMA GzipMagic ==
  ASSUME NEW t \in TenantSpecs
  PROVE  LET d == BT!Decoded(t.initData)
         IN  /\ d.base64 /\ d.gzip => BT!validateInitData(t.initData)
             /\ BT!validateInitData(t.initData) => d.base64 /\ ~BT!TomlText(d.raw)
<1> DEFINE d == BT!Decoded(t.initData)
<1>1. d.gzip => Len(d.raw) >= 2 /\ d.raw[1] = 31 /\ d.raw[2] = 139
  BY BlobAssumption DEF BT!Decoded
<1>2. d.raw \in Seq(0 .. 255)
  BY BlobAssumption DEF BT!Decoded
<1>3. Len(d.raw) \in Nat
  BY <1>2, LenProperties
<1> HIDE DEF d
<1>4. Len(d.raw) >= 2 /\ d.raw[1] = 31 => ~BT!TomlText(d.raw)
  <2>1. Len(d.raw) >= 2 => 1 \in 1 .. Len(d.raw)
    BY <1>3
  <2> QED
    BY <2>1 DEF BT!TomlText
<1> QED
  BY <1>1, <1>4 DEF BT!validateInitData, d

(***************************************************************************)
(* Whatever the users write, and the other controller, restarts and failing*)
(* calls do: a status of the BrukTenant's current generation has the hash  *)
(* of the live blob, says Valid of every blob that a guest can unpack, and *)
(* of none that is no base64 or plain base64 of the TOML.  Of      *)
(* other bytes after the gzip magic, as of a blob that was cut off, Valid  *)
(* is said as well.                                                        *)
(***************************************************************************)
THEOREM TenantHonestInOperator == OperatorSpec => []TenantStatusHonest
<1>1. OperatorInv => TenantStatusHonest
  <2> SUFFICES ASSUME BTP!StatusInv, bt # None, bt.status.observed = bt.generation
               PROVE  LET d == BT!Decoded(bt.spec.initData)
                      IN  /\ bt.status.report.hash = InitDataHash(bt.spec.initData)
                          /\ d.base64 /\ d.gzip => bt.status.report.ready = "Valid"
                          /\ bt.status.report.ready = "Valid" => d.base64 /\ ~BT!TomlText(d.raw)
    BY DEF OperatorInv, TenantStatusHonest, BT!TenantHonest, BT!Current, bt,
           BT!InitDataHash, InitDataHash
  <2>1. bt.spec \in TenantSpecs
    BY DEF BTP!StatusInv, BTP!TypeOK, BTP!Objects, bt
  <2>2. bt.status.report = BT!TenantReport(bt.spec, <<>>)
    BY DEF BTP!StatusInv, BTP!StatusDescribesSpec, bt
  <2>3. /\ bt.status.report.ready = "Valid" <=> BT!validateInitData(bt.spec.initData)
        /\ bt.status.report.hash = InitDataHash(bt.spec.initData)
    BY <2>2 DEF BT!TenantReport, BT!InitDataHash, InitDataHash
  <2> QED
    BY <2>1, <2>3, GzipMagic
<1> QED
  BY <1>1, OperatorInvInvariant, PTL

-----------------------------------------------------------------------------
(* Exclusive claims in the composition *)

(***************************************************************************)
(* The BrukTenant controller does not disturb the arbitration of claims:   *)
(* Exclusive of InferenceServiceProofs, for the whole operator.  Again the *)
(* only way to a shared claim is a list of the guard that misses one of    *)
(* the operator's own Deployments.                                         *)
(***************************************************************************)
THEOREM ExclusiveInOperator ==
  OperatorSpec /\ [][OwnAppliesListed]_vars => []DeploymentsExclusive
<1>1. OperatorInit => ExclusiveInv
  BY InitExclusiveInv DEF OperatorInit
<1>2. ASSUME ExclusiveInv, TenantSideStep PROVE ExclusiveInv'
  <2>1. TypeInv'
    BY <1>2, TenantSideKeepsTypeInv DEF ExclusiveInv
  <2>2. KeepsMounts
    BY <1>2 DEF TenantSideStep, KeepsMounts, childVars
  <2>3. DeploymentsExclusive' /\ GuardHolds'
    BY <1>2, <2>2, ExclusiveFrame, GuardFrame DEF ExclusiveInv, TenantSideStep
  <2>4. HandWrittenSeen'
    BY <1>2 DEF ExclusiveInv, HandWrittenSeen, TenantSideStep, childVars
  <2> QED
    BY <2>1, <2>3, <2>4 DEF ExclusiveInv
<1>3. ExclusiveInv /\ [OperatorNext]_operatorVars /\ [OwnAppliesListed]_vars => ExclusiveInv'
  BY <1>2, CoreStep, ExclusiveStep
<1>4. ExclusiveInv => DeploymentsExclusive
  BY DEF ExclusiveInv
<1> QED
  BY <1>1, <1>3, <1>4, PTL DEF OperatorSpec

-----------------------------------------------------------------------------
(***************************************************************************)
(* From the blob to the statuses.  InitDataTraceable is about states at    *)
(* rest, and relates what two controllers wrote.  TenantReported is what   *)
(* it comes to in all states for the one: the hash in a Configured status  *)
(* is of the live tenant's blob, or a reconcile is coming.  The worker     *)
(* writes a hash many calls after it read the tenant, so the invariant has *)
(* to say of the tenant in its hand that it is the live one, or that the   *)
(* event of its change is still to come (TenantInHand), and of the cache   *)
(* it was read from the same (TenantFresh).                                *)
(***************************************************************************)
TenantSoon(n) == Pending(n) \/ events.tenant

TenantFresh == "tenant" \in Lag /\ ~events.tenant => cache.tenant = tenant

TenantInHand ==
  worker.fresh /\ (worker.pc \in HasTenant \/ worker.verdict = "Configured") =>
    worker.tenant = tenant \/ TenantSoon(worker.name)

TenantReported ==
  \A n \in Names : isvc[n] # None /\ isvc[n].status.configured = "Configured" =>
    \/ tenant # None /\ isvc[n].status.applied.initDataHash = InitDataHash(tenant.initData)
    \/ TenantSoon(n)
    \/ worker.name = n

ReportInv == AppliedInv /\ TenantFresh /\ TenantInHand /\ TenantReported

\* A step that leaves the CRs and the tenant alone and loses no request.
LEMMA KeepsReported ==
  ASSUME TenantReported, UNCHANGED <<isvc, tenant>>,
         \A n \in Names : isvc[n] # None /\ (TenantSoon(n) \/ worker.name = n) =>
           TenantSoon(n)' \/ worker'.name = n
  PROVE  TenantReported'
BY DEF TenantReported

\* A step after which the worker is idle, or has the tenant that it had.
LEMMA KeepsInHand ==
  ASSUME AppliedInv, TenantInHand, UNCHANGED tenant,
         \/ worker' = Idle
         \/ /\ worker.pc \in HasTenant \/ worker.verdict = "Configured"
            /\ worker'.name = worker.name /\ worker'.tenant = worker.tenant
            /\ worker'.fresh => worker.fresh,
         \A n \in Names : isvc[n] # None /\ TenantSoon(n) => TenantSoon(n)'
  PROVE  TenantInHand'
<1>1. CASE worker' = Idle
  BY <1>1 DEF TenantInHand, Idle
<1>2. CASE /\ worker.pc \in HasTenant \/ worker.verdict = "Configured"
           /\ worker'.name = worker.name /\ worker'.tenant = worker.tenant
           /\ worker'.fresh => worker.fresh
  <2> SUFFICES ASSUME worker'.fresh
               PROVE  worker'.tenant = tenant' \/ TenantSoon(worker.name)'
    BY <1>2 DEF TenantInHand, TenantSoon, Pending
  <2>1. worker # Idle
    BY <1>2 DEF Idle, HasTenant
  <2>2. worker.name \in Names /\ isvc[worker.name] # None
    BY <1>2, <2>1 DEF AppliedInv, TypeInv, TypeOK, WorkerTypeOK, Busy, CopyFresh
  <2> QED
    BY <1>2, <2>2 DEF TenantInHand
<1> QED
  BY <1>1, <1>2

LEMMA ChangesKeepReported ==
  ASSUME ReportInv, User \/ Kubernetes
  PROVE  TenantFresh' /\ TenantInHand' /\ TenantReported'
<1>1. /\ \A n \in Names : Pending(n) => Pending(n)'
      /\ \A n \in Names : Pending(n)' \/ Undisturbed(n)
      /\ SameWork
      /\ events.tenant => events'.tenant
      /\ UNCHANGED tenant \/ events'.tenant
      /\ UNCHANGED cache
  BY ChangesAreEvents, InputChangesAreEvents DEF ReportInv, AppliedInv, TypeInv
<1>2. TenantFresh'
  BY <1>1 DEF ReportInv, TenantFresh
<1>3. \A n \in Names : TenantSoon(n) => TenantSoon(n)'
  BY <1>1 DEF TenantSoon
<1>4. TenantInHand'
  <2>1. CASE UNCHANGED tenant
    <3>1. CASE worker.pc \in HasTenant \/ worker.verdict = "Configured"
      BY <1>1, <1>3, <2>1, <3>1, KeepsInHand DEF ReportInv, SameWork
    <3>2. CASE ~(worker.pc \in HasTenant \/ worker.verdict = "Configured")
      BY <1>1, <3>2 DEF TenantInHand, SameWork
    <3> QED
      BY <3>1, <3>2
  <2>2. CASE events'.tenant
    BY <2>2 DEF TenantInHand, TenantSoon
  <2> QED
    BY <1>1, <2>1, <2>2
<1>5. TenantReported'
  <2> SUFFICES ASSUME NEW n \in Names, isvc'[n] # None, ~TenantSoon(n)', worker'.name # n,
                      isvc'[n].status.configured = "Configured"
               PROVE  /\ tenant' # None
                      /\ isvc'[n].status.applied.initDataHash = InitDataHash(tenant'.initData)
    BY DEF TenantReported
  <2>1. ~TenantSoon(n) /\ worker.name # n /\ UNCHANGED tenant /\ isvc'[n] = isvc[n]
    BY <1>1, <1>3 DEF TenantSoon, Undisturbed, SameWork
  <2> QED
    BY <2>1 DEF ReportInv, TenantReported
<1> QED
  BY <1>2, <1>4, <1>5

\* The handler of the tenant enqueues every CR of the cache, and a CR that is not
\* in it yet has an event of its own.
LEMMA InformKeepsReported ==
  ASSUME ReportInv, Inform
  PROVE  TenantFresh' /\ TenantInHand' /\ TenantReported'
<1>1. UNCHANGED <<isvc, tenant, worker>>
  BY DEF Inform, InformIsvc, InformTenant, InformModel, InformDeployment, InformService,
         InformPod, inputVars
<1>2. \A n \in Names : Pending(n) => Pending(n)'
  BY InformKeepsPending DEF ReportInv, AppliedInv, TypeInv
<1>3. CASE InformTenant
  <2>1. TenantFresh'
    BY <1>3 DEF InformTenant, Refresh, ReportInv, AppliedInv, TypeInv, TypeOK, CacheTypeOK,
                TenantFresh, inputVars
  <2>2. ASSUME NEW n \in Names, isvc[n] # None PROVE Pending(n)'
    <3>1. CASE SeenIsvc[n] = None
      BY <1>2, <2>2, <3>1 DEF ReportInv, AppliedInv, TypeInv, CacheFresh, SeenIsvc, Pending
    <3>2. CASE SeenIsvc[n] # None
      BY <1>3, <3>2 DEF InformTenant, allServices, Pending
    <3> QED
      BY <3>1, <3>2
  <2>3. TenantReported'
    BY <1>1, <2>2, KeepsReported DEF ReportInv, TenantSoon
  <2>4. TenantInHand'
    <3>1. worker.fresh => worker # Idle
      BY DEF Idle
    <3>2. worker.fresh => worker.name \in Names /\ isvc[worker.name] # None
      BY <3>1 DEF ReportInv, AppliedInv, TypeInv, TypeOK, WorkerTypeOK, Busy, CopyFresh
    <3>3. worker.fresh => Pending(worker.name)'
      <4>1. PICK n : n = worker.name
        OBVIOUS
      <4>2. worker.fresh => Pending(n)'
        BY <2>2, <3>2, <4>1
      <4> QED
        BY <1>1, <4>1, <4>2 DEF Pending
    <3> QED
      BY <1>1, <3>3 DEF TenantInHand, TenantSoon, Pending
  <2> QED
    BY <2>1, <2>3, <2>4
<1>4. CASE InformIsvc \/ InformModel \/ InformDeployment \/ InformService \/ InformPod
  <2>1. events'.tenant = events.tenant
    BY <1>4 DEF InformIsvc, InformModel, InformDeployment, InformService, InformPod,
                ReportInv, AppliedInv, TypeInv, TypeOK, QueueTypeOK
  <2>2. cache'.tenant = cache.tenant
    BY <1>4 DEF InformIsvc, InformModel, InformDeployment, InformService, InformPod, Refresh,
                ReportInv, AppliedInv, TypeInv, TypeOK, CacheTypeOK
  <2>3. TenantFresh'
    BY <1>1, <2>1, <2>2 DEF ReportInv, TenantFresh
  <2>4. \A n \in Names : TenantSoon(n) => TenantSoon(n)'
    BY <1>2, <2>1 DEF TenantSoon
  <2>5. TenantReported'
    BY <1>1, <2>4, KeepsReported DEF ReportInv
  <2>6. TenantInHand'
    <3>1. CASE worker.pc \in HasTenant \/ worker.verdict = "Configured"
      BY <1>1, <2>4, <3>1, KeepsInHand DEF ReportInv
    <3>2. CASE ~(worker.pc \in HasTenant \/ worker.verdict = "Configured")
      BY <1>1, <3>2 DEF TenantInHand
    <3> QED
      BY <3>1, <3>2
  <2> QED
    BY <2>3, <2>5, <2>6
<1> QED
  BY <1>3, <1>4 DEF Inform

LEMMA FailureKeepsReported ==
  ASSUME ReportInv, Restart \/ ApiError
  PROVE  TenantFresh' /\ TenantInHand' /\ TenantReported'
<1>1. worker' = Idle /\ UNCHANGED <<isvc, tenant>>
  BY DEF Restart, ApiError, Requeue, inputVars
<1>2. TenantInHand'
  BY <1>1 DEF TenantInHand, Idle
<1>3. TenantFresh'
  BY <1>1 DEF ReportInv, TenantFresh, Restart, ApiError
<1>4. TenantReported'
  <2>1. CASE Restart
    BY <1>1, <2>1, KeepsReported DEF Restart, ReportInv, TenantSoon, Pending
  <2>2. CASE ApiError
    BY <1>1, <2>2, KeepsReported DEF ApiError, Requeue, ReportInv, TenantSoon, Pending
  <2> QED
    BY <2>1, <2>2
<1> QED
  BY <1>2, <1>3, <1>4

LEMMA GetKeepsReported ==
  ASSUME ReportInv, NEW n \in Names, GetInferenceService(n)
  PROVE  TenantFresh' /\ TenantInHand' /\ TenantReported'
<1>1. UNCHANGED <<isvc, tenant, cache, events>> /\ queue' = queue \ {n}
  BY DEF GetInferenceService, inputVars
<1>2. worker = Idle
  BY DEF ReportInv, AppliedInv, TypeInv, TypeOK, WorkerTypeOK, GetInferenceService, Busy,
         HasTenant
<1>3. TenantInHand'
  BY DEF GetInferenceService, TenantInHand, Idle, HasTenant
<1>4. isvc[n] # None => n \in events.isvc \/ worker'.name = n
  <2>1. CASE SeenIsvc[n] = None
    BY <2>1 DEF ReportInv, AppliedInv, TypeInv, CacheFresh, SeenIsvc
  <2>2. CASE SeenIsvc[n] # None
    BY <2>2 DEF GetInferenceService, Idle
  <2> QED
    BY <2>1, <2>2
<1>5. TenantReported'
  BY <1>1, <1>2, <1>4, IdleWorker, KeepsReported DEF ReportInv, TenantSoon, Pending
<1> QED
  BY <1>1, <1>3, <1>5 DEF ReportInv, TenantFresh

LEMMA GetTenantKeepsReported ==
  ASSUME ReportInv, GetTenant
  PROVE  TenantFresh' /\ TenantInHand' /\ TenantReported'
<1>1. /\ UNCHANGED <<isvc, tenant, cache, events, queue>>
      /\ worker'.name = worker.name
  BY BeforeApply DEF GetTenant, inputVars, ReportInv, AppliedInv, TypeInv
<1>2. TenantReported'
  BY <1>1, KeepsReported DEF ReportInv, TenantSoon, Pending
<1>3. worker \in Busy
  BY DEF GetTenant, Idle, ReportInv, AppliedInv, TypeInv, TypeOK, WorkerTypeOK
<1>4. TenantInHand'
  <2>1. CASE SeenTenant = None
    <3>1. worker'.pc \notin HasTenant /\ worker'.verdict # "Configured"
      BY <1>3, <2>1 DEF GetTenant, Fail, HasTenant, Busy
    <3> QED
      BY <3>1 DEF TenantInHand
  <2>2. CASE SeenTenant # None
    <3>1. worker'.tenant = SeenTenant
      BY <1>3, <2>2 DEF GetTenant, Busy
    <3>2. SeenTenant = tenant \/ events.tenant
      BY DEF SeenTenant, ReportInv, TenantFresh
    <3> QED
      BY <1>1, <3>1, <3>2 DEF TenantInHand, TenantSoon
  <2> QED
    BY <2>1, <2>2
<1> QED
  BY <1>1, <1>2, <1>4 DEF ReportInv, TenantFresh

\* From the model to the Service: the tenant stays in the worker's hand, or an
\* apply is rejected and the request goes back to the queue.
LEMMA WorkKeepsReported ==
  ASSUME ReportInv,
         \/ GetModel \/ ListSiblings \/ ListDeployments \/ ListPods
         \/ ApplyConfigMap \/ ApplyDeployment \/ ApplyService
  PROVE  TenantFresh' /\ TenantInHand' /\ TenantReported'
<1>1. TypeOK /\ worker.pc \in HasTenant
  BY DEF ReportInv, AppliedInv, TypeInv, HasTenant, GetModel, ListSiblings, ListDeployments,
         ListPods, ApplyConfigMap, ApplyDeployment, ApplyService
<1>2. worker # Idle /\ worker \in Busy
  BY <1>1 DEF Idle, HasTenant, TypeOK, WorkerTypeOK
<1>3. UNCHANGED <<isvc, tenant, cache>>
  BY DEF GetModel, ListSiblings, ListDeployments, ListPods, ApplyConfigMap, ApplyDeployment,
         ApplyService, inputVars
<1>4. events'.tenant = events.tenant /\ \A n \in Names : Pending(n) => Pending(n)'
  BY <1>1 DEF TypeOK, QueueTypeOK, Pending, Requeue, GetModel, ListSiblings, ListDeployments,
              ListPods, ApplyConfigMap, ApplyDeployment, ApplyService
<1>5. \/ worker' = Idle /\ Requeue
      \/ /\ worker'.name = worker.name /\ worker'.tenant = worker.tenant
         /\ worker'.fresh = worker.fresh
  <2>1. CASE GetModel
    BY <1>2, <2>1 DEF GetModel, Fail, Busy
  <2>2. CASE ListSiblings \/ ListDeployments \/ ListPods \/ ApplyConfigMap
    BY <1>2, <2>2 DEF ListSiblings, ListDeployments, ListPods, ApplyConfigMap, Fail, Busy
  <2>3. CASE ApplyDeployment
    BY <1>2, <2>3 DEF ApplyDeployment, Requeue, Busy
  <2>4. CASE ApplyService
    BY <1>2, <2>4 DEF ApplyService, Requeue, Busy
  <2> QED
    BY <2>1, <2>2, <2>3, <2>4
<1>6. TenantInHand'
  BY <1>1, <1>3, <1>4, <1>5, KeepsInHand DEF ReportInv, TenantSoon
<1>7. TenantReported'
  <2>1. \A n \in Names : worker.name = n => Pending(n)' \/ worker'.name = n
    BY <1>5 DEF Requeue, Pending
  <2> QED
    BY <1>3, <1>4, <2>1, KeepsReported DEF ReportInv, TenantSoon
<1> QED
  BY <1>3, <1>4, <1>6, <1>7 DEF ReportInv, TenantFresh

\* The hash that is written is that of the tenant in the worker's hand.
LEMMA UpdateStatusKeepsReported ==
  ASSUME ReportInv, UpdateStatus
  PROVE  TenantFresh' /\ TenantInHand' /\ TenantReported'
<1>1. PICK n : n = worker.name
  OBVIOUS
<1>2. TypeOK /\ worker \in Busy /\ worker # Idle /\ n \in Names
  BY <1>1, NewStatusType DEF ReportInv, AppliedInv, TypeInv, UpdateStatus, Busy
<1>3. worker' = Idle /\ UNCHANGED <<tenant, cache>>
  BY DEF UpdateStatus, Requeue, inputVars
<1>4. TenantInHand'
  BY <1>3 DEF TenantInHand, Idle
<1>5. CASE ~worker.fresh
  <2>1. Requeue /\ UNCHANGED <<isvc, events>>
    BY <1>5 DEF UpdateStatus
  <2>2. TenantReported'
    BY <1>3, <2>1, KeepsReported DEF Requeue, ReportInv, TenantSoon, Pending
  <2> QED
    BY <1>3, <1>4, <2>1, <2>2 DEF ReportInv, TenantFresh
<1>6. CASE worker.fresh
  <2> DEFINE new == NewStatus(worker)
  <2>1. /\ isvc' = [isvc EXCEPT ![n].status = new] /\ UNCHANGED queue
        /\ events' = events \/ events' = [events EXCEPT !.isvc = @ \cup {n}]
    BY <1>1, <1>6 DEF UpdateStatus
  <2>2. isvc[n] = worker.isvc /\ worker.isvc \in Isvcs
    BY <1>1, <1>2, <1>6 DEF ReportInv, AppliedInv, TypeInv, CopyFresh, Busy
  <2>3. isvc'[n] = [isvc[n] EXCEPT !.status = new] /\ \A o \in Names \ {n} : isvc'[o] = isvc[o]
    BY <1>2, <2>1 DEF TypeOK, IsvcTypeOK
  <2>4. isvc'[n].status = new
    BY <2>2, <2>3 DEF Isvcs
  <2>5. events'.tenant = events.tenant /\ \A o \in Names : TenantSoon(o) => TenantSoon(o)'
    BY <1>2, <2>1 DEF TypeOK, QueueTypeOK, TenantSoon, Pending
  <2>6. ASSUME new.configured = "Configured"
        PROVE  \/ tenant # None /\ new.applied.initDataHash = InitDataHash(tenant.initData)
               \/ TenantSoon(n)
    <3>1. worker.verdict = "Configured"
      BY <2>2, <2>6 DEF NewStatus, FailedStatus, Isvcs, Status
    <3>2. new.applied.initDataHash = InitDataHash(worker.tenant.initData) /\ worker.tenant # None
      BY <1>2, <3>1 DEF NewStatus, ReadyStatus, TypeOK, WorkerTypeOK
    <3>3. worker.tenant = tenant \/ TenantSoon(n)
      BY <1>1, <1>6, <3>1 DEF ReportInv, TenantInHand
    <3> QED
      BY <3>2, <3>3
  <2> HIDE DEF new
  <2>7. TenantReported'
    <3> SUFFICES ASSUME NEW o \in Names, isvc'[o] # None, ~TenantSoon(o)',
                        isvc'[o].status.configured = "Configured"
                 PROVE  /\ tenant' # None
                        /\ isvc'[o].status.applied.initDataHash = InitDataHash(tenant'.initData)
      BY DEF TenantReported
    <3>1. CASE o = n
      BY <1>3, <2>4, <2>5, <2>6, <3>1
    <3>2. CASE o # n
      BY <1>1, <1>3, <2>3, <2>5, <3>2 DEF ReportInv, TenantReported
    <3> QED
      BY <3>1, <3>2
  <2>8. TenantFresh'
    BY <1>3, <2>5 DEF ReportInv, TenantFresh
  <2> QED
    BY <1>4, <2>7, <2>8
<1> QED
  BY <1>5, <1>6

LEMMA ReportInvStep ==
  ASSUME ReportInv, Next
  PROVE  ReportInv'
<1>1. AppliedInv'
  BY AppliedInvStep DEF ReportInv
<1>2. CASE Reconcile
  BY <1>1, <1>2, GetKeepsReported, GetTenantKeepsReported, WorkKeepsReported,
     UpdateStatusKeepsReported DEF Reconcile, ReportInv
<1>3. CASE User \/ Kubernetes \/ Inform \/ Restart \/ ApiError
  BY <1>1, <1>3, ChangesKeepReported, InformKeepsReported, FailureKeepsReported DEF ReportInv
<1> QED
  BY <1>2, <1>3 DEF Next

LEMMA InitReportInv == Init => ReportInv
<1> SUFFICES ASSUME Init PROVE ReportInv
  OBVIOUS
<1>1. TenantFresh /\ TenantReported
  BY DEF Init, TenantFresh, TenantReported
<1>2. TenantInHand
  BY DEF Init, TenantInHand, Idle
<1> QED
  BY <1>1, <1>2, InitAppliedInv DEF ReportInv

-----------------------------------------------------------------------------
(***************************************************************************)
(* One BrukTenant.  Both controllers have it in variables of their own;    *)
(* OneTenant says that they mean the same object and wait for the same     *)
(* event, so that what the BrukTenant controller does can only add to the  *)
(* events of the other.                                                    *)
(***************************************************************************)
OneTenant ==
  /\ events.tenant <=> btEvents # {}
  /\ bt = None <=> tenant = None
  /\ bt # None => bt.spec = tenant

\* Reconcile and the informers of the other kinds do not touch the tenant.
LEMMA TenantUntouched ==
  ASSUME TypeOK,
         \/ Reconcile \/ Kubernetes \/ ApiError \/ (User /\ tenant' = tenant)
         \/ InformIsvc \/ InformModel \/ InformDeployment \/ InformService \/ InformPod
  PROVE  tenant' = tenant /\ events'.tenant = events.tenant
<1>1. CASE Reconcile
  BY <1>1 DEF TypeOK, QueueTypeOK, Reconcile, GetInferenceService, GetTenant, GetModel,
              ListSiblings, ListDeployments, ListPods, ApplyConfigMap, ApplyDeployment,
              ApplyService, UpdateStatus, inputVars
<1>2. CASE Kubernetes
  BY <1>2, InputChangesAreEvents DEF Kubernetes, CollectDeployment, CollectService, RollOut,
     BecomeAvailable, FailPod, inputVars
<1>3. CASE User /\ tenant' = tenant
  BY <1>3, InputChangesAreEvents
<1>4. CASE ApiError
  BY <1>4 DEF ApiError, inputVars
<1>5. CASE InformIsvc \/ InformModel \/ InformDeployment \/ InformService \/ InformPod
  BY <1>5 DEF TypeOK, QueueTypeOK, InformIsvc, InformModel, InformDeployment, InformService,
              InformPod, inputVars
<1> QED
  BY <1>1, <1>2, <1>3, <1>4, <1>5

LEMMA NoneIsNoTenant == None \notin BTP!Objects
BY TenantObjectAssumption DEF BT!Objects, BTP!Objects, BT!Statuses, BTP!Statuses, BT!Reports,
   BTP!Reports

\* The BrukTenant controller writes a status, and delivers nothing.
LEMMA ReconcileTenantStep ==
  ASSUME BTP!StatusInv, BT!Reconcile
  PROVE  /\ btEvents \subseteq btEvents'
         /\ bt' = None <=> bt = None
         /\ bt # None => bt'.spec = bt.spec
<1> DEFINE c == BT!BrukTenantName
<1>1. CASE BTP!Look \/ \E n \in {c} : BTP!Get(n)
  BY <1>1 DEF BTP!Look, BTP!Get, bt
<1>2. CASE BTP!SetStatus
  <2>1. CASE ~btWorker.fresh
    BY <1>2, <2>1 DEF BTP!SetStatus, bt
  <2>2. CASE btWorker.fresh
    <3>1. /\ btWorker # BTP!Idle /\ btWorker.name = c /\ btWorker.object \in BTP!Objects
      BY <1>2, InstanceAssumptions, BTP!BusyWorker DEF BTP!SetStatus, BTP!StatusInv
    <3>2. bt = btWorker.object
      BY <2>2, <3>1 DEF BTP!StatusInv, BTP!CopyFresh, bt
    <3>3. /\ btObject' = [btObject EXCEPT ![c].status = BTP!NewStatus]
          /\ btEvents \subseteq btEvents'
      BY <1>2, <2>2, <3>1 DEF BTP!SetStatus
    <3>4. bt' = [bt EXCEPT !.status = BTP!NewStatus]
      BY <3>3 DEF BTP!StatusInv, BTP!TypeOK, bt
    <3>5. bt'.spec = bt.spec /\ bt \in BTP!Objects /\ bt' \in BTP!Objects
      <4>1. BTP!NewStatus \in BTP!Statuses
        BY <3>1, <2>2, <1>2, InstanceAssumptions, BTP!BusyWorker
           DEF BTP!NewStatus, BTP!Statuses, BTP!Objects, BTP!SetStatus, BTP!StatusInv
      <4> QED
        BY <3>1, <3>2, <3>4, <4>1 DEF BTP!Objects
    <3> QED
      BY <3>3, <3>5, NoneIsNoTenant
  <2> QED
    BY <2>1, <2>2
<1> QED
  BY <1>1, <1>2, SameReconcile DEF BTP!Reconcile

LEMMA WriteTenantStep ==
  ASSUME TypeOK, BTP!StatusInv, OneTenant, WriteTenant
  PROVE  OneTenant'
<1> DEFINE c == BT!BrukTenantName
<1>1. events'.tenant
  BY DEF WriteTenant, ChangeTenant, TypeOK, QueueTypeOK
<1>2. btObject \in [{c} -> BTP!Objects \cup {None}] /\ btSerial \in Nat
  BY DEF BTP!StatusInv, BTP!TypeOK
<1>3. ASSUME NEW t \in TenantSpecs, ChangeTenant(t), BT!Create(c, t) PROVE OneTenant'
  <2> DEFINE new == [uid |-> btSerial + 1, generation |-> 1, spec |-> t, status |-> BT!NoStatus]
  <2>1. new \in BTP!Objects /\ new.spec = t
    <3>1. btSerial + 1 \in Nat /\ BT!NoStatus \in BTP!Statuses
      BY <1>2 DEF BT!NoStatus, BTP!Statuses
    <3> QED
      BY <3>1 DEF BTP!Objects
  <2>2. btObject' = [btObject EXCEPT ![c] = new] /\ btEvents' = btEvents \cup {c} /\ tenant' = t
    BY <1>3 DEF BT!Create, BT!Touch, ChangeTenant
  <2> HIDE DEF new
  <2>3. bt' = new
    BY <1>2, <2>2 DEF bt
  <2>4. t # None
    BY AbsentAssumption
  <2> QED
    BY <1>1, <2>1, <2>2, <2>3, <2>4, NoneIsNoTenant DEF OneTenant
<1>4. ASSUME NEW t \in TenantSpecs, ChangeTenant(t), BT!Edit(c, t) PROVE OneTenant'
  <2>1. bt \in BTP!Objects
    BY <1>2, <1>4 DEF BT!Edit, bt
  <2> DEFINE new == [bt EXCEPT !.spec = t, !.generation = bt.generation + 1]
  <2>2. new \in BTP!Objects /\ new.spec = t
    <3>1. bt.generation + 1 \in Nat
      BY <2>1 DEF BTP!Objects
    <3> QED
      BY <2>1, <3>1 DEF BTP!Objects
  <2>3. btObject' = [btObject EXCEPT ![c] = new] /\ btEvents' = btEvents \cup {c} /\ tenant' = t
    BY <1>4 DEF BT!Edit, BT!Touch, ChangeTenant, bt
  <2> HIDE DEF new
  <2>4. bt' = new
    BY <1>2, <2>3 DEF bt
  <2>5. t # None
    BY AbsentAssumption
  <2> QED
    BY <1>1, <2>2, <2>3, <2>4, <2>5, NoneIsNoTenant DEF OneTenant
<1>5. ASSUME ChangeTenant(None), BT!Delete(c) PROVE OneTenant'
  BY <1>1, <1>2, <1>5 DEF ChangeTenant, BT!Delete, BT!Touch, OneTenant, bt
<1> QED
  BY <1>3, <1>4, <1>5 DEF WriteTenant

LEMMA OneTenantStep ==
  ASSUME TypeOK, BTP!StatusInv, OneTenant, [OperatorNext]_operatorVars
  PROVE  OneTenant'
<1>1. CASE \/ (Reconcile \/ Kubernetes \/ ApiError) /\ UNCHANGED btVars
           \/ User /\ tenant' = tenant /\ UNCHANGED btVars
           \/ (InformIsvc \/ InformModel \/ InformDeployment \/ InformService \/ InformPod)
                /\ UNCHANGED btVars
  BY <1>1, TenantUntouched DEF OneTenant, bt, btVars
<1>2. CASE WriteTenant
  BY <1>2, WriteTenantStep
<1>3. CASE ReconcileTenant
  <2>1. tenant' = tenant /\ events'.tenant = (btEvents' # {})
    BY <1>3 DEF ReconcileTenant, inputVars, TypeOK, QueueTypeOK
  <2> QED
    BY <1>3, <2>1, ReconcileTenantStep DEF ReconcileTenant, OneTenant
<1>4. CASE InformTenant /\ BT!Inform
  BY <1>4 DEF InformTenant, BT!Inform, inputVars, OneTenant, bt, TypeOK, QueueTypeOK
<1>5. CASE Restart /\ BT!Restart
  BY <1>5 DEF Restart, BT!Restart, inputVars, OneTenant, bt, NoEvents
<1>6. CASE TenantApiError
  BY <1>6 DEF TenantApiError, BT!ApiError, inputVars, OneTenant, bt
<1>7. CASE UNCHANGED operatorVars
  BY <1>7 DEF operatorVars, vars, btVars, OneTenant, bt
<1> QED
  BY <1>1, <1>2, <1>3, <1>4, <1>5, <1>6, <1>7 DEF OperatorNext

\* What the BrukTenant controller does adds at most an event.
TenantSideAdds == TenantSideStep /\ (events.tenant => events'.tenant)

LEMMA CoreStepAdds ==
  ASSUME TypeOK, BTP!StatusInv, OneTenant, [OperatorNext]_operatorVars
  PROVE  Next \/ TenantSideAdds
<1>1. CASE ReconcileTenant
  <2>1. btEvents \subseteq btEvents'
    BY <1>1, ReconcileTenantStep DEF ReconcileTenant
  <2>2. events.tenant => events'.tenant
    BY <1>1, <2>1 DEF ReconcileTenant, OneTenant, TypeOK, QueueTypeOK
  <2> QED
    BY <2>2, CoreStep DEF TenantSideAdds
<1>2. CASE TenantApiError \/ UNCHANGED operatorVars
  <2>1. UNCHANGED events
    BY <1>2 DEF TenantApiError, operatorVars, vars
  <2> QED
    BY <2>1, CoreStep DEF TenantSideAdds
<1>3. CASE WriteTenant
  BY <1>3 DEF WriteTenant, Next, User
<1>4. CASE \/ Reconcile \/ User \/ Kubernetes \/ ApiError \/ InformTenant \/ Restart
           \/ InformIsvc \/ InformModel \/ InformDeployment \/ InformService \/ InformPod
  BY <1>4 DEF Next, Inform
<1> QED
  BY <1>1, <1>2, <1>3, <1>4 DEF OperatorNext

-----------------------------------------------------------------------------
(* What is proved of the InferenceService controller alone, in the composition *)

\* The objects and the requests are as before, and so is everything that speaks of
\* them and of nothing else.
LEMMA TenantSideFrame ==
  ASSUME TypeOK, TenantSideStep
  PROVE  /\ UNCHANGED <<isvc, deployment, service, configMap, tenant, model, pods, cache, queue,
                        worker>>
         /\ events'.isvc = events.isvc /\ events'.deployment = events.deployment
         /\ events'.service = events.service /\ events'.model = events.model
         /\ \A n : (Pending(n)' <=> Pending(n)) /\ (Wakeup(n)' <=> Wakeup(n))
<1>1. UNCHANGED <<isvc, deployment, service, configMap, tenant, model, pods, cache, queue, worker>>
  BY DEF TenantSideStep, childVars, inputVars
<1>2. /\ events'.isvc = events.isvc /\ events'.deployment = events.deployment
      /\ events'.service = events.service /\ events'.model = events.model
  BY DEF TypeOK, QueueTypeOK, TenantSideStep
<1> QED
  BY <1>1, <1>2 DEF Pending, Wakeup

LEMMA TenantSideKeepsApplied ==
  ASSUME AppliedInv, TenantSideStep
  PROVE  AppliedInv'
<1>1. TypeInv' /\ TypeOK
  BY TenantSideKeepsTypeInv DEF AppliedInv, TypeInv
<1>2. DeploymentApplied' /\ ServiceApplied'
  BY <1>1, TenantSideFrame DEF AppliedInv, DeploymentApplied, ServiceApplied, IsControlledBy
<1>3. ConfiguredIsApplied'
  BY <1>1, TenantSideFrame DEF AppliedInv, ConfiguredIsApplied, IsControlledBy
<1> QED
  BY <1>1, <1>2, <1>3 DEF AppliedInv

LEMMA TenantSideKeepsReported ==
  ASSUME ReportInv, TenantSideAdds
  PROVE  ReportInv'
<1>1. AppliedInv' /\ TypeOK
  BY TenantSideKeepsApplied DEF ReportInv, AppliedInv, TypeInv, TenantSideAdds
<1>2. \A n : TenantSoon(n) => TenantSoon(n)'
  BY <1>1, TenantSideFrame DEF TenantSideAdds, TenantSoon
<1>3. TenantFresh' /\ TenantInHand'
  BY <1>1, <1>2, TenantSideFrame DEF ReportInv, TenantSideAdds, TenantFresh, TenantInHand
<1>4. TenantReported'
  BY <1>1, <1>2, TenantSideFrame DEF ReportInv, TenantSideAdds, TenantReported
<1> QED
  BY <1>1, <1>3, <1>4 DEF ReportInv

LEMMA TenantSideKeepsConverged ==
  ASSUME ConvergedInv, TenantSideAdds
  PROVE  ConvergedInv'
<1>1. AppliedInv' /\ TypeOK
  BY TenantSideKeepsApplied DEF ConvergedInv, AppliedInv, TypeInv, TenantSideAdds
<1>2. /\ UNCHANGED <<isvc, deployment, service, configMap, tenant, model, pods, cache, queue,
                     worker>>
      /\ events'.deployment = events.deployment /\ events'.model = events.model
      /\ events.tenant => events'.tenant
  BY <1>1, TenantSideFrame DEF TenantSideAdds
<1>3. \A n : Soon(n) => Soon(n)'
  BY <1>1, <1>2, TenantSideFrame DEF TenantSideAdds, Soon
<1>4. Apart' /\ Checked'
  BY <1>2 DEF ConvergedInv, Apart, Checked
<1>5. InputFresh'
  BY <1>2 DEF ConvergedInv, InputFresh
<1>6. Progress'
  BY <1>2, <1>3 DEF ConvergedInv, Progress, ReadLive
<1>7. ConvergedSoon'
  BY <1>2, <1>3 DEF ConvergedInv, ConvergedSoon, Settled
<1> QED
  BY <1>1, <1>4, <1>5, <1>6, <1>7 DEF ConvergedInv

-----------------------------------------------------------------------------
(* The invariant of the composition *)

OneTenantInv == BTP!StatusInv /\ BTP!ReportedSoon /\ OneTenant

LEMMA InitOneTenant == OperatorInit => OneTenantInv
<1> SUFFICES ASSUME OperatorInit PROVE OneTenantInv
  OBVIOUS
<1>1. TypeOK /\ BTP!StatusInv
  BY InitOperatorInv DEF OperatorInv, TypeInv
<1> DEFINE bt1 == IF tenant = None THEN None
                  ELSE [uid |-> 1, generation |-> 1, spec |-> tenant, status |-> BT!NoStatus]
<1>2. bt = bt1
  BY DEF OperatorInit, bt
<1>3. tenant # None => bt1 \in BTP!Objects /\ bt1.spec = tenant
  <2>1. BT!NoStatus \in BTP!Statuses
    BY DEF BT!NoStatus, BTP!Statuses
  <2> QED
    BY <1>1, <2>1 DEF BTP!Objects, TypeOK, InputTypeOK
<1> HIDE DEF bt1
<1>4. tenant = None => bt1 = None
  BY DEF bt1
<1>5. ~events.tenant /\ btEvents = {}
  BY DEF OperatorInit, Init, NoEvents
<1>6. BTP!ReportedSoon
  BY DEF OperatorInit, BTP!ReportedSoon
<1>7. OneTenant
  BY <1>2, <1>3, <1>4, <1>5, NoneIsNoTenant DEF OneTenant
<1> QED
  BY <1>1, <1>6, <1>7 DEF OneTenantInv

LEMMA OneTenantInvStep ==
  ASSUME TypeInv, OneTenantInv, [OperatorNext]_operatorVars
  PROVE  OneTenantInv' /\ (Next \/ TenantSideAdds)
<1>1. TypeOK /\ BTP!StatusInv /\ BTP!ReportedSoon /\ OneTenant
  BY DEF TypeInv, OneTenantInv
<1>2. BTP!StatusInv'
  BY <1>1, OperatorInvStep DEF OperatorInv
<1>3. BTP!ReportedSoon'
  BY <1>1, TenantStep, InstanceAssumptions, BTP!ReportedSoonStep DEF btVars
<1> QED
  BY <1>1, <1>2, <1>3, OneTenantStep, CoreStepAdds DEF OneTenantInv

\* What the invariants say of a state at rest.
LEMMA RestIsTraceable ==
  ASSUME ReportInv, OneTenantInv
  PROVE  InitDataTraceable
<1> SUFFICES ASSUME OperatorAtRest, NEW n \in Names, isvc[n] # None,
                    isvc[n].status.configured = "Configured"
             PROVE  /\ bt # None /\ deployment[n] # None
                    /\ LET blob == deployment[n].template.initData
                       IN  /\ isvc[n].status.applied.initDataHash = InitDataHash(blob)
                           /\ bt.status.report.hash = InitDataHash(blob)
                           /\ bt.status.report.ready = "Valid" <=> BT!validateInitData(blob)
  BY DEF InitDataTraceable
<1> DEFINE blob == deployment[n].template.initData
<1>1. ~TenantSoon(n) /\ ~Wakeup(n) /\ worker.name # n
  BY IdleWorker DEF OperatorAtRest, AtRest, NoEvents, TenantSoon, Pending, Wakeup
<1>2. /\ tenant # None
      /\ isvc[n].status.applied.initDataHash = InitDataHash(tenant.initData)
  BY <1>1 DEF ReportInv, TenantReported
<1>3. deployment[n] # None /\ isvc[n].status.applied.initDataHash = InitDataHash(blob)
  <2>1. /\ deployment[n] # None
        /\ isvc[n].status.applied = CarriedBy(deployment[n].template)
    BY <1>1 DEF ReportInv, AppliedInv, ConfiguredIsApplied
  <2>2. CarriedBy(deployment[n].template).initDataHash = InitDataHash(blob)
    BY DEF CarriedBy
  <2> QED
    BY <2>1, <2>2
<1>4. tenant.initData = blob
  BY <1>2, <1>3 DEF InitDataHash
<1>5. bt # None /\ bt.spec = tenant
  BY <1>2 DEF OneTenantInv, OneTenant
<1>6. bt.status.observed = bt.generation
  <2>1. BTP!ObservedAtRest
    BY InstanceAssumptions, BTP!ReportedAtRest DEF OneTenantInv
  <2> QED
    BY <1>5, <2>1 DEF BTP!ObservedAtRest, OperatorAtRest, BT!Idle, BTP!Idle, bt
<1>7. bt.status.report = BT!TenantReport(tenant, <<>>)
  BY <1>5, <1>6 DEF OneTenantInv, BTP!StatusInv, BTP!StatusDescribesSpec, bt
<1> HIDE DEF blob
<1>8. /\ bt.status.report.hash = InitDataHash(blob)
      /\ bt.status.report.ready = "Valid" <=> BT!validateInitData(blob)
  BY <1>4, <1>7 DEF BT!TenantReport, BT!InitDataHash, InitDataHash
<1> QED
  BY <1>3, <1>5, <1>8 DEF blob

(***************************************************************************)
(* "matches BrukTenant.status.appliedInitDataHash when converged": for any *)
(* CRs, claims, contention for them and lag of the informers, and whatever *)
(* is edited, deleted, restarted or fails, once nothing is left to do the  *)
(* statuses of both controllers and the Deployment of every Configured CR  *)
(* speak of the same blob.                                                 *)
(***************************************************************************)
THEOREM InitDataIsTraceable == OperatorSpec => []InitDataTraceable
<1>1. OperatorInit => ReportInv /\ OneTenantInv
  BY InitReportInv, InitOneTenant DEF OperatorInit
<1>2. ReportInv /\ OneTenantInv /\ [OperatorNext]_operatorVars => ReportInv' /\ OneTenantInv'
  BY OneTenantInvStep, ReportInvStep, TenantSideKeepsReported DEF ReportInv, AppliedInv
<1>3. ReportInv /\ OneTenantInv => InitDataTraceable
  BY RestIsTraceable
<1> QED
  BY <1>1, <1>2, <1>3, PTL DEF OperatorSpec

(***************************************************************************)
(* The status updates of the BrukTenant controller wake the other one and  *)
(* do nothing else to it: Configured=True stays honest in the composition, *)
(* and it converges wherever the InferenceService controller alone does.   *)
(***************************************************************************)
THEOREM AppliedInOperator == OperatorSpec => []ConfiguredIsApplied
<1>1. OperatorInit => AppliedInv
  BY InitAppliedInv DEF OperatorInit
<1>2. AppliedInv /\ [OperatorNext]_operatorVars => AppliedInv'
  BY CoreStep, AppliedInvStep, TenantSideKeepsApplied
<1>3. AppliedInv => ConfiguredIsApplied
  BY DEF AppliedInv
<1> QED
  BY <1>1, <1>2, <1>3, PTL DEF OperatorSpec

\* Where nobody contends for a claim: when the InferenceService controller is at
\* rest, whatever the BrukTenant controller is doing, every status and child is what
\* Reconcile would make it of the live objects.
THEOREM ConvergesInOperator ==
  ASSUME Uncontended
  PROVE  OperatorSpec => []ConvergedAtRest
<1>1. OperatorInit => ConvergedInv /\ OneTenantInv
  BY InitConvergedInv, InitOneTenant DEF OperatorInit
<1>2. ConvergedInv /\ OneTenantInv /\ [OperatorNext]_operatorVars
        => ConvergedInv' /\ OneTenantInv'
  BY OneTenantInvStep, ConvergedInvStep, TenantSideKeepsConverged DEF ConvergedInv, AppliedInv
<1>3. ConvergedInv => ConvergedAtRest
  BY RestIsConverged
<1> QED
  BY <1>1, <1>2, <1>3, PTL DEF OperatorSpec

=============================================================================

----------------------- MODULE StatusReconcilerProofs -----------------------
(***************************************************************************)
(* Theorems about the reconcilers that only validate, for any set of       *)
(* names, specs and worlds, and whatever they find (Asks, Judge):          *)
(*   StatusTypeCorrect   the type invariant;                               *)
(*   StatusHonest        a status of the current generation reports on the *)
(*                       current spec;                                     *)
(*   StatusCatchesUp     at rest, every status is of the current           *)
(*                       generation.                                       *)
(***************************************************************************)
EXTENDS StatusReconciler, TLAPS

(***************************************************************************)
(* The inductive invariant.  SetStatus writes to object[n] without a look  *)
(* at it: the resourceVersion is what keeps a report from an object it is  *)
(* not about.  CacheFresh makes a copy fresh when it is taken, CopyFresh   *)
(* says what a fresh copy is, ReportAboutCopy what the worker found about  *)
(* it, and ObservedBound that an edit makes every earlier report old.      *)
(***************************************************************************)
CacheFresh == \A n \in Names : n \notin events => cache[n] = object[n]

CopyFresh == worker # Idle /\ worker.fresh => object[worker.name] = worker.object

ReportAboutCopy ==
  worker.pc = "setStatus" => \E w \in Worlds : worker.report = Judge(worker.object.spec, w)

ObservedBound ==
  \A n \in Names : object[n] # None => object[n].status.observed <= object[n].generation

StatusInv == /\ TypeOK /\ CacheFresh /\ CopyFresh /\ ReportAboutCopy
             /\ ObservedBound /\ StatusDescribesSpec

-----------------------------------------------------------------------------
(* Types *)

LEMMA InitStatusInv == Init => StatusInv
<1> SUFFICES ASSUME Init PROVE StatusInv
  OBVIOUS
<1>1. TypeOK
  BY BoundAssumption DEF Init, TypeOK
<1>2. worker.pc # "setStatus"
  BY DEF Init, Idle
<1> QED
  BY <1>1, <1>2 DEF Init, StatusInv, CacheFresh, CopyFresh, ReportAboutCopy, ObservedBound,
                    StatusDescribesSpec

LEMMA OperationType ==
  ASSUME ops \in 0 .. MaxOps, Operation
  PROVE  ops' \in 0 .. MaxOps
BY BoundAssumption DEF Operation

\* The worker is idle, or holds a copy of an object that has a name.
LEMMA BusyWorker ==
  ASSUME TypeOK, worker.pc # "idle"
  PROVE  /\ worker # Idle
         /\ worker \in [pc : {"look", "setStatus"}, name : Names, object : Objects,
                        fresh : BOOLEAN, report : Reports \cup {None}]
BY DEF TypeOK, Idle

\* A write to the object n makes the copy of it that the worker has an old one.
LEMMA TouchWorker ==
  ASSUME TypeOK, NEW n \in Names, Touch(n)
  PROVE  /\ events' = events \cup {n}
         /\ worker.name # n => worker' = worker
         /\ worker.name = n =>
              /\ worker # Idle /\ worker' # Idle /\ ~worker'.fresh
              /\ worker'.pc = worker.pc /\ worker'.name = n
              /\ worker'.object = worker.object /\ worker'.report = worker.report
         /\ \/ worker' = Idle
            \/ /\ worker' \in [pc : {"look", "setStatus"}, name : Names, object : Objects,
                               fresh : BOOLEAN, report : Reports \cup {None}]
               /\ worker'.pc = "look" => worker'.report = None
<1>1. worker = Idle => worker.name # n
  BY AbsentAssumption DEF Idle
<1>2. CASE worker.name # n
  BY <1>2 DEF Touch, TypeOK
<1>3. CASE worker.name = n
  <2>1. /\ worker # Idle
        /\ worker \in [pc : {"look", "setStatus"}, name : Names, object : Objects,
                       fresh : BOOLEAN, report : Reports \cup {None}]
        /\ worker.pc = "look" => worker.report = None
    BY <1>1, <1>3 DEF TypeOK
  <2>2. worker' = [worker EXCEPT !.fresh = FALSE]
    BY <1>3 DEF Touch
  <2>3. worker'.pc # "idle"
    BY <2>1, <2>2
  <2>4. worker' # Idle
    BY <2>3 DEF Idle
  <2> QED
    BY <1>3, <2>1, <2>2, <2>4 DEF Touch
<1> QED
  BY <1>2, <1>3

\* What a write of the object n by a user has to respect.
LEMMA UserWrite ==
  ASSUME StatusInv, NEW n \in Names, Touch(n), Operation, NEW new \in Objects \cup {None},
         object' = [object EXCEPT ![n] = new], serial' \in Nat,
         UNCHANGED <<world, cache, queue>>,
         new # None => new.status.observed < new.generation
  PROVE  StatusInv'
<1>1. object'[n] = new /\ \A o \in Names \ {n} : object'[o] = object[o]
  BY DEF StatusInv, TypeOK
<1>2. TypeOK'
  <2>1. object' \in [Names -> Objects \cup {None}]
    BY DEF StatusInv, TypeOK
  <2>2. ops' \in 0 .. MaxOps
    BY OperationType DEF StatusInv, TypeOK
  <2> QED
    BY <2>1, <2>2, TouchWorker DEF StatusInv, TypeOK
<1>3. CacheFresh'
  BY <1>1, TouchWorker DEF StatusInv, CacheFresh
<1>4. CopyFresh'
  BY <1>1, TouchWorker DEF StatusInv, TypeOK, CopyFresh
<1>5. ReportAboutCopy'
  BY TouchWorker DEF StatusInv, ReportAboutCopy
<1>6. ObservedBound'
  <2>1. new # None => new.status.observed <= new.generation
    BY DEF Objects, Statuses
  <2> QED
    BY <1>1, <2>1 DEF StatusInv, ObservedBound
<1>7. StatusDescribesSpec'
  <2>1. new # None => new.status.observed # new.generation
    BY DEF Objects, Statuses
  <2> QED
    BY <1>1, <2>1 DEF StatusInv, StatusDescribesSpec
<1> QED
  BY <1>2, <1>3, <1>4, <1>5, <1>6, <1>7 DEF StatusInv


LEMMA UserStep ==
  ASSUME StatusInv, User
  PROVE  StatusInv'
<1>1. ASSUME NEW n \in Names, NEW spec \in Specs, Create(n, spec) PROVE StatusInv'
  <2> DEFINE new == [uid |-> serial + 1, generation |-> 1, spec |-> spec, status |-> NoStatus]
  <2>1. serial + 1 \in Nat
    BY DEF StatusInv, TypeOK
  <2>2. new \in Objects /\ new.status.observed < new.generation
    BY <2>1 DEF Objects, Statuses, NoStatus
  <2> HIDE DEF new
  <2>3. object' = [object EXCEPT ![n] = new] /\ serial' \in Nat
    BY <1>1, <2>1 DEF Create, new
  <2> QED
    BY <1>1, <2>2, <2>3, UserWrite DEF Create
<1>2. ASSUME NEW n \in Names, NEW spec \in Specs, Edit(n, spec) PROVE StatusInv'
  <2> DEFINE old == object[n]
             new == [old EXCEPT !.spec = spec, !.generation = old.generation + 1]
  <2>1. old \in Objects /\ old.status.observed <= old.generation
    BY <1>2 DEF StatusInv, TypeOK, ObservedBound, Edit
  <2>2. /\ new \in Objects /\ new.status = old.status
        /\ new.generation = old.generation + 1
    <3>1. old.generation + 1 \in Nat
      BY <2>1 DEF Objects
    <3> QED
      BY <2>1, <3>1 DEF Objects
  <2>3. new.status.observed < new.generation
    BY <2>1, <2>2 DEF Objects, Statuses
  <2>4. object' = [object EXCEPT ![n] = new]
    BY <1>2 DEF Edit
  <2> HIDE DEF new
  <2> QED
    BY <1>2, <2>2, <2>3, <2>4, UserWrite DEF Edit, StatusInv, TypeOK
<1>3. ASSUME NEW n \in Names, Delete(n) PROVE StatusInv'
  BY <1>3, UserWrite DEF Delete, StatusInv, TypeOK
<1>4. ASSUME NEW w \in Worlds, ChangeWorld(w) PROVE StatusInv'
  BY <1>4, OperationType DEF ChangeWorld, StatusInv, TypeOK, CacheFresh, CopyFresh,
     ReportAboutCopy, ObservedBound, StatusDescribesSpec
<1> QED
  BY <1>1, <1>2, <1>3, <1>4 DEF User

\* A step that leaves the objects alone, forgets no event of an object that the
\* cache does not have, and after which the worker is idle or has what it had.
LEMMA ObjectsKept ==
  ASSUME StatusInv, TypeOK', CacheFresh', UNCHANGED object,
         \/ worker' = Idle
         \/ worker' = worker
  PROVE  StatusInv'
<1>1. CopyFresh'
  BY DEF StatusInv, CopyFresh
<1>2. ReportAboutCopy'
  BY DEF StatusInv, ReportAboutCopy, Idle
<1> QED
  BY <1>1, <1>2 DEF StatusInv, ObservedBound, StatusDescribesSpec

LEMMA GetStep ==
  ASSUME StatusInv, NEW n \in Names, Get(n)
  PROVE  StatusInv'
<1>1. UNCHANGED <<object, world, cache, events, serial, ops>> /\ queue' \subseteq Names
  BY DEF Get, StatusInv, TypeOK
<1>2. CacheFresh'
  BY <1>1 DEF StatusInv, CacheFresh
<1>3. CASE cache[n] = None
  <2>1. worker' = Idle
    BY <1>3 DEF Get
  <2>2. TypeOK'
    BY <1>1, <2>1 DEF StatusInv, TypeOK
  <2> QED
    BY <1>1, <1>2, <2>1, <2>2, ObjectsKept
<1>4. CASE cache[n] # None
  <2> DEFINE copy == cache[n]
             asks == Asks(copy.spec)
  <2>1. copy \in Objects /\ copy.spec \in Specs
    BY <1>4 DEF StatusInv, TypeOK, Objects
  <2>2. worker' = [pc |-> IF asks THEN "look" ELSE "setStatus", name |-> n, object |-> copy,
                   fresh |-> n \notin events,
                   report |-> IF asks THEN None ELSE Judge(copy.spec, world)]
    BY <1>4 DEF Get
  <2>3. Judge(copy.spec, world) \in Reports /\ world \in Worlds
    BY <2>1 DEF StatusInv, TypeOK, Reports
  <2> HIDE DEF copy, asks
  <2>4. /\ worker' \in [pc : {"look", "setStatus"}, name : Names, object : Objects,
                        fresh : BOOLEAN, report : Reports \cup {None}]
        /\ worker'.pc = "look" => worker'.report = None
    BY <2>1, <2>2, <2>3
  <2>5. TypeOK'
    BY <1>1, <2>4 DEF StatusInv, TypeOK
  <2>6. CopyFresh'
    BY <1>1, <2>2 DEF StatusInv, CacheFresh, CopyFresh, copy
  <2>7. ReportAboutCopy'
    BY <2>2, <2>3 DEF ReportAboutCopy
  <2> QED
    BY <1>1, <1>2, <2>5, <2>6, <2>7 DEF StatusInv, ObservedBound, StatusDescribesSpec
<1> QED
  BY <1>3, <1>4

LEMMA LookStep ==
  ASSUME StatusInv, Look
  PROVE  StatusInv'
<1> DEFINE report == Judge(worker.object.spec, world)
<1>1. /\ worker # Idle
      /\ worker \in [pc : {"look", "setStatus"}, name : Names, object : Objects,
                     fresh : BOOLEAN, report : Reports \cup {None}]
  BY BusyWorker DEF Look, StatusInv
<1>2. report \in Reports /\ world \in Worlds
  BY <1>1 DEF StatusInv, TypeOK, Reports, Objects
<1>3. worker' = [worker EXCEPT !.pc = "setStatus", !.report = report]
  BY DEF Look
<1> HIDE DEF report
<1>4. /\ worker' \in [pc : {"look", "setStatus"}, name : Names, object : Objects,
                      fresh : BOOLEAN, report : Reports \cup {None}]
      /\ worker'.pc = "setStatus" /\ worker'.report = report
      /\ worker'.name = worker.name /\ worker'.object = worker.object
      /\ worker'.fresh = worker.fresh
  BY <1>1, <1>2, <1>3
<1>5. UNCHANGED <<object, world, cache, events, queue, serial, ops>>
  BY DEF Look
<1>6. TypeOK'
  BY <1>4, <1>5 DEF StatusInv, TypeOK
<1>7. ReportAboutCopy'
  BY <1>2, <1>4 DEF ReportAboutCopy, report
<1>8. CacheFresh' /\ CopyFresh'
  BY <1>1, <1>4, <1>5 DEF StatusInv, CacheFresh, CopyFresh
<1> QED
  BY <1>5, <1>6, <1>7, <1>8 DEF StatusInv, ObservedBound, StatusDescribesSpec

\* The report reaches the object it is about, which has not changed since.
LEMMA SetStatusStep ==
  ASSUME StatusInv, SetStatus
  PROVE  StatusInv'
<1> DEFINE n == worker.name
<1>1. /\ worker # Idle
      /\ worker \in [pc : {"look", "setStatus"}, name : Names, object : Objects,
                     fresh : BOOLEAN, report : Reports \cup {None}]
  BY BusyWorker DEF SetStatus, StatusInv
<1>2. worker' = Idle /\ UNCHANGED <<world, cache, serial, ops>> /\ queue' \subseteq Names
  BY <1>1 DEF SetStatus, Requeue, StatusInv, TypeOK
<1>3. CASE ~worker.fresh
  <2>1. UNCHANGED <<object, events>>
    BY <1>3 DEF SetStatus
  <2>2. TypeOK' /\ CacheFresh'
    BY <1>2, <2>1 DEF StatusInv, TypeOK, CacheFresh
  <2> QED
    BY <1>2, <2>1, <2>2, ObjectsKept
<1>4. CASE worker.fresh
  <2>1. object[n] = worker.object /\ worker.object \in Objects /\ n \in Names
    BY <1>1, <1>4 DEF StatusInv, CopyFresh
  <2>2. PICK w \in Worlds : worker.report = Judge(worker.object.spec, w)
    BY DEF SetStatus, StatusInv, ReportAboutCopy
  <2>3. /\ NewStatus \in Statuses /\ NewStatus.observed = worker.object.generation
        /\ NewStatus.report = worker.report
    BY <1>1, <2>1 DEF NewStatus, Statuses, Objects
  <2> DEFINE new == [worker.object EXCEPT !.status = NewStatus]
  <2>4. /\ new \in Objects /\ new.status = NewStatus
        /\ new.generation = worker.object.generation /\ new.spec = worker.object.spec
    BY <2>1, <2>3 DEF Objects
  <2>5. /\ object' = [object EXCEPT ![n] = new]
        /\ events' = IF worker.object.status = NewStatus THEN events ELSE events \cup {n}
    BY <1>4, <2>1 DEF SetStatus
  <2>6. worker.object.status = NewStatus => new = worker.object
    BY <2>1 DEF Objects
  <2> HIDE DEF new
  <2>7. object'[n] = new /\ \A o \in Names \ {n} : object'[o] = object[o]
    BY <2>1, <2>5 DEF StatusInv, TypeOK
  <2>8. TypeOK'
    BY <1>2, <2>1, <2>4, <2>5 DEF StatusInv, TypeOK
  <2>9. CacheFresh'
    BY <1>2, <2>1, <2>5, <2>6, <2>7 DEF StatusInv, CacheFresh
  <2>10. CopyFresh' /\ ReportAboutCopy'
    BY <1>2 DEF CopyFresh, ReportAboutCopy, Idle
  <2>11. ObservedBound'
    BY <2>1, <2>3, <2>4, <2>7 DEF StatusInv, ObservedBound, Objects
  <2>12. StatusDescribesSpec'
    BY <2>2, <2>3, <2>4, <2>7 DEF StatusInv, StatusDescribesSpec
  <2> QED
    BY <2>8, <2>9, <2>10, <2>11, <2>12 DEF StatusInv
<1> QED
  BY <1>3, <1>4

\* The informer, a restart, a failing call; and a step of somebody else, of which
\* at most the count of operations tells.
LEMMA OtherStep ==
  ASSUME StatusInv,
         \/ Inform \/ Restart \/ ApiError
         \/ /\ UNCHANGED <<object, world, cache, events, queue, worker, serial>>
            /\ ops' \in 0 .. MaxOps
  PROVE  StatusInv'
<1>1. UNCHANGED object /\ (worker' = Idle \/ worker' = worker)
  BY DEF Inform, Restart, ApiError, Requeue
<1>2. CacheFresh'
  BY DEF StatusInv, CacheFresh, Inform, Restart, ApiError
<1>3. ops' \in 0 .. MaxOps
  BY OperationType DEF StatusInv, TypeOK, Inform, Restart, ApiError
<1>4. queue' \subseteq Names
  <2>1. ApiError => worker.name \in Names
    BY BusyWorker DEF StatusInv, ApiError
  <2> QED
    BY <2>1 DEF StatusInv, TypeOK, Inform, Restart, ApiError, Requeue
<1>5. UNCHANGED <<world, serial>> /\ events' \subseteq Names
      /\ (cache' = cache \/ cache' = object)
  BY DEF StatusInv, TypeOK, Inform, Restart, ApiError
<1>6. TypeOK'
  BY <1>1, <1>3, <1>4, <1>5 DEF StatusInv, TypeOK
<1> QED
  BY <1>1, <1>2, <1>6, ObjectsKept

\* The inductive step.
LEMMA StatusInvStep ==
  ASSUME StatusInv,
         \/ Next
         \/ /\ UNCHANGED <<object, world, cache, events, queue, worker, serial>>
            /\ ops' \in 0 .. MaxOps
  PROVE  StatusInv'
BY UserStep, GetStep, LookStep, SetStatusStep, OtherStep DEF Next, Reconcile

LEMMA StatusInvInvariant == Spec => []StatusInv
<1>1. StatusInv /\ [Next]_vars => StatusInv'
  BY StatusInvStep DEF vars, StatusInv, TypeOK
<1> QED
  BY <1>1, InitStatusInv, PTL DEF Spec

-----------------------------------------------------------------------------

\* TypeOK is an invariant: the worker has a report exactly when it is about to
\* write it, and a status is only ever written into an object that is there.
THEOREM StatusTypeCorrect == Spec => []TypeOK
BY StatusInvInvariant, PTL DEF StatusInv

(***************************************************************************)
(* setReady with optimistic concurrency: whatever users, restarts and      *)
(* failing calls do, and whatever the reconciler looks for, a status that  *)
(* claims the current generation reports on the current spec.              *)
(***************************************************************************)
THEOREM StatusHonest == Spec => []StatusDescribesSpec
BY StatusInvInvariant, PTL DEF StatusInv

-----------------------------------------------------------------------------
(***************************************************************************)
(* No request is lost.  ObservedAtRest speaks of the states in which       *)
(* nothing is on its way; ReportedSoon says it of all states, and with     *)
(* StatusInv it is inductive: the status that SetStatus writes is of the   *)
(* live generation because the copy is fresh, and an object that the cache *)
(* does not have yet has an event to come.                                 *)
(***************************************************************************)
ReportedSoon ==
  \A n \in Names : object[n] # None =>
    \/ object[n].status.observed = object[n].generation
    \/ n \in events \cup queue
    \/ worker.name = n

\* A step that leaves the objects alone and loses no request.
LEMMA RequestsKept ==
  ASSUME ReportedSoon, UNCHANGED object,
         \A n \in Names : object[n] # None /\ (n \in events \cup queue \/ worker.name = n) =>
           n \in events' \cup queue' \/ worker'.name = n
  PROVE  ReportedSoon'
BY DEF ReportedSoon

LEMMA UserKeepsReported ==
  ASSUME StatusInv, ReportedSoon, User
  PROVE  ReportedSoon'
<1>1. ASSUME NEW n \in Names, Touch(n), UNCHANGED queue,
             \A o \in Names \ {n} : object'[o] = object[o]
      PROVE  ReportedSoon'
  <2>1. events' = events \cup {n} /\ worker'.name = worker.name
    BY <1>1, TouchWorker DEF StatusInv
  <2> QED
    BY <1>1, <2>1 DEF ReportedSoon
<1>2. ASSUME NEW n \in Names,
             (\E spec \in Specs : Create(n, spec) \/ Edit(n, spec)) \/ Delete(n)
      PROVE  ReportedSoon'
  <2>1. Touch(n) /\ UNCHANGED queue /\ \A o \in Names \ {n} : object'[o] = object[o]
    BY <1>2 DEF Create, Edit, Delete, StatusInv, TypeOK
  <2> QED
    BY <1>1, <2>1
<1>3. ASSUME NEW w \in Worlds, ChangeWorld(w) PROVE ReportedSoon'
  BY <1>3, RequestsKept DEF ChangeWorld
<1> QED
  BY <1>2, <1>3 DEF User

LEMMA ReconcileKeepsReported ==
  ASSUME StatusInv, ReportedSoon, Reconcile
  PROVE  ReportedSoon'
<1>1. ASSUME NEW n \in Names, Get(n) PROVE ReportedSoon'
  <2>1. /\ UNCHANGED <<object, events>> /\ queue' = queue \ {n}
        /\ worker = Idle /\ worker.name \notin Names
    BY <1>1, AbsentAssumption DEF Get, StatusInv, TypeOK, Idle
  <2>2. object[n] # None => n \in events \/ worker'.name = n
    <3>1. CASE cache[n] = None
      BY <3>1 DEF StatusInv, CacheFresh
    <3>2. CASE cache[n] # None
      BY <1>1, <3>2 DEF Get
    <3> QED
      BY <3>1, <3>2
  <2> QED
    BY <2>1, <2>2, RequestsKept
<1>2. CASE Look
  <2>1. worker'.name = worker.name
    BY <1>2, BusyWorker DEF Look, StatusInv
  <2> QED
    BY <1>2, <2>1, RequestsKept DEF Look
<1>3. CASE SetStatus
  <2>1. PICK n : n = worker.name
    OBVIOUS
  <2>2. /\ n \in Names
        /\ worker \in [pc : {"look", "setStatus"}, name : Names, object : Objects,
                       fresh : BOOLEAN, report : Reports \cup {None}]
        /\ worker # Idle
    BY <1>3, <2>1, BusyWorker DEF SetStatus, StatusInv
  <2>3. CASE ~worker.fresh
    BY <1>3, <2>3, RequestsKept DEF SetStatus, Requeue
  <2>4. CASE worker.fresh
    <3>1. /\ object' = [object EXCEPT ![n].status = NewStatus]
          /\ events \subseteq events' /\ UNCHANGED queue
      BY <1>3, <2>1, <2>4 DEF SetStatus
    <3>2. object[n] = worker.object /\ worker.object \in Objects
      BY <2>1, <2>2, <2>4 DEF StatusInv, CopyFresh
    <3>3. object'[n] = [object[n] EXCEPT !.status = NewStatus]
      BY <2>2, <3>1 DEF StatusInv, TypeOK
    <3>4. object'[n].status.observed = object'[n].generation
      BY <3>2, <3>3 DEF Objects, NewStatus
    <3>5. \A o \in Names \ {n} : object'[o] = object[o]
      BY <3>1 DEF StatusInv, TypeOK
    <3> QED
      BY <2>1, <3>1, <3>4, <3>5 DEF ReportedSoon
  <2> QED
    BY <2>3, <2>4
<1> QED
  BY <1>1, <1>2, <1>3 DEF Reconcile

LEMMA ReportedSoonStep ==
  ASSUME StatusInv, ReportedSoon,
         Next \/ UNCHANGED <<object, world, cache, events, queue, worker, serial>>
  PROVE  ReportedSoon'
<1>1. CASE Inform
  BY <1>1, RequestsKept DEF Inform
<1>2. CASE Restart
  BY <1>2, RequestsKept DEF Restart
<1>3. CASE ApiError
  BY <1>3, RequestsKept DEF ApiError, Requeue
<1>4. CASE UNCHANGED <<object, world, cache, events, queue, worker, serial>>
  BY <1>4, RequestsKept
<1> QED
  BY <1>1, <1>2, <1>3, <1>4, UserKeepsReported, ReconcileKeepsReported DEF Next

\* What ReportedSoon says of a state at rest.
LEMMA ReportedAtRest ==
  ASSUME ReportedSoon
  PROVE  ObservedAtRest
<1>1. Idle.name \notin Names
  BY AbsentAssumption DEF Idle
<1> QED
  BY <1>1 DEF ReportedSoon, ObservedAtRest

(***************************************************************************)
(* Whatever users, conflicts, failed calls and restarts do: when nothing   *)
(* is queued, in progress or on its way, the status of every object is of  *)
(* its current generation.                                                 *)
(***************************************************************************)
THEOREM StatusCatchesUp == Spec => []ObservedAtRest
<1>1. Init => ReportedSoon
  BY DEF Init, ReportedSoon
<1>2. StatusInv /\ ReportedSoon /\ [Next]_vars => ReportedSoon'
  BY ReportedSoonStep DEF vars
<1>3. ReportedSoon => ObservedAtRest
  BY ReportedAtRest
<1> QED
  BY <1>1, <1>2, <1>3, StatusInvInvariant, PTL DEF Spec

=============================================================================

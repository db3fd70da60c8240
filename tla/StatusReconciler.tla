-------------------------- MODULE StatusReconciler --------------------------
(***************************************************************************)
(* The reconcilers that only validate: they read an object, perhaps one    *)
(* more thing that is not watched, and write what they found into the      *)
(* object's status.  BrukModelController and BrukTenantController say what *)
(* they find (Asks, Judge); this module is the life of such a reconciler   *)
(* among users who write and delete the objects.                           *)
(***************************************************************************)
EXTENDS Naturals

CONSTANTS
  None,         \* an absent object, an unset field
  Names,        \* names of the reconciled objects
  Specs,        \* the specs a user may give one
  Worlds,       \* what else a reconcile may find, read live and not watched
  Asks(_),      \* does the reconcile of this spec read the rest of the world
  Judge(_, _),  \* what it reports of this spec in this world
  Ops,          \* what the environment does in this instance
  MaxOps        \* bound on the number of environment operations

ASSUME BoundAssumption  == MaxOps \in Nat
ASSUME AbsentAssumption == None \notin Names
ASSUME OpsAssumption    == Ops \subseteq {"delete", "world", "restart", "apiError"}

VARIABLES
  object,   \* API server: the object of each name, or None
  world,    \*   everything else
  cache,    \* informer cache
  events,   \* names with a watch event not yet delivered
  queue,    \* workqueue
  worker,   \* the reconcile in progress, or Idle
  serial,   \* number of uids handed out
  ops       \* environment operations so far

vars == <<object, world, cache, events, queue, worker, serial, ops>>

NoStatus == [observed |-> 0, report |-> None]

Idle == [pc |-> "idle", name |-> None, object |-> None, fresh |-> FALSE, report |-> None]

Init ==
  /\ object = [n \in Names |-> None]
  /\ world \in Worlds
  /\ cache = object
  /\ events = {} /\ queue = {}
  /\ worker = Idle
  /\ serial = 0 /\ ops = 0

-----------------------------------------------------------------------------
(* Users *)

Operation == ops < MaxOps /\ ops' = ops + 1

\* A write to the object n gives it a new resourceVersion, and an event.
Touch(n) ==
  /\ events' = events \cup {n}
  /\ worker' = IF worker.name = n THEN [worker EXCEPT !.fresh = FALSE] ELSE worker

Create(n, spec) ==
  /\ Operation
  /\ object[n] = None
  /\ serial' = serial + 1
  /\ object' = [object EXCEPT ![n] = [uid |-> serial + 1, generation |-> 1, spec |-> spec,
                                      status |-> NoStatus]]
  /\ Touch(n)
  /\ UNCHANGED <<world, cache, queue>>

Edit(n, spec) ==
  /\ Operation
  /\ object[n] # None /\ object[n].spec # spec
  /\ object' = [object EXCEPT ![n] = [object[n] EXCEPT !.spec = spec,
                                                       !.generation = object[n].generation + 1]]
  /\ Touch(n)
  /\ UNCHANGED <<world, cache, queue, serial>>

Delete(n) ==
  /\ "delete" \in Ops /\ Operation
  /\ object[n] # None
  /\ object' = [object EXCEPT ![n] = None]
  /\ Touch(n)
  /\ UNCHANGED <<world, cache, queue, serial>>

ChangeWorld(w) ==
  /\ "world" \in Ops /\ Operation
  /\ w # world
  /\ world' = w
  /\ UNCHANGED <<object, cache, events, queue, worker, serial>>

User == \/ \E n \in Names : \/ \E spec \in Specs : Create(n, spec) \/ Edit(n, spec)
                            \/ Delete(n)
        \/ \E w \in Worlds : ChangeWorld(w)

-----------------------------------------------------------------------------
(* Reconcile, one action per call *)

Requeue_Swallowed == worker' = Idle /\ UNCHANGED queue

\* An error return: controller-runtime puts the request back.
Requeue == worker' = Idle /\ queue' = queue \cup {worker.name}

\* The copy is used whether or not there is an object.
Get_NotFound(n) ==
  /\ worker.pc = "idle"
  /\ n \in queue
  /\ queue' = queue \ {n}
  /\ worker' = [pc |-> "look", name |-> n, object |-> cache[n], fresh |-> n \notin events,
                report |-> None]
  /\ UNCHANGED <<object, world, cache, events, serial, ops>>

\* r.Get of the object, through the cache.
Get(n) ==
  /\ worker.pc = "idle"
  /\ n \in queue
  /\ queue' = queue \ {n}
  /\ worker' = IF cache[n] = None
                 THEN Idle
                 ELSE [pc     |-> IF Asks(cache[n].spec) THEN "look" ELSE "setStatus",
                       name   |-> n,
                       object |-> cache[n],
                       fresh  |-> n \notin events,
                       report |-> IF Asks(cache[n].spec) THEN None
                                                         ELSE Judge(cache[n].spec, world)]
  /\ UNCHANGED <<object, world, cache, events, serial, ops>>

\* The read that no cache serves and no watch follows.
Look ==
  /\ worker.pc = "look"
  /\ worker' = [worker EXCEPT !.pc = "setStatus", !.report = Judge(worker.object.spec, world)]
  /\ UNCHANGED <<object, world, cache, events, queue, serial, ops>>

NewStatus == [observed |-> worker.object.generation, report |-> worker.report]

\* The status is written to whatever has the name by now.
SetStatus_Patch ==
  /\ worker.pc = "setStatus"
  /\ LET n == worker.name
     IN  IF object[n] = None
           THEN Requeue /\ UNCHANGED <<object, events>>
           ELSE /\ object' = [object EXCEPT ![n].status = NewStatus]
                /\ events' = IF object[n].status = NewStatus THEN events ELSE events \cup {n}
                /\ worker' = Idle
                /\ UNCHANGED queue
  /\ UNCHANGED <<world, cache, serial, ops>>

\* Every update is a change, as with a new LastTransitionTime each time.
SetStatus_AlwaysWrites ==
  /\ worker.pc = "setStatus"
  /\ LET n == worker.name
     IN  IF ~worker.fresh
           THEN Requeue /\ UNCHANGED <<object, events>>
           ELSE /\ object' = [object EXCEPT ![n].status = NewStatus]
                /\ events' = events \cup {n}
                /\ worker' = Idle
                /\ UNCHANGED queue
  /\ UNCHANGED <<world, cache, serial, ops>>

\* Status().Update: a copy that is not the live version is a Conflict (or
\* NotFound); an update that changes nothing is no new version.
SetStatus ==
  /\ worker.pc = "setStatus"
  /\ LET n == worker.name
     IN  IF ~worker.fresh
           THEN Requeue /\ UNCHANGED <<object, events>>
           ELSE /\ object' = [object EXCEPT ![n].status = NewStatus]
                /\ events' = IF worker.object.status = NewStatus THEN events
                             ELSE events \cup {n}
                /\ worker' = Idle
                /\ UNCHANGED queue
  /\ UNCHANGED <<world, cache, serial, ops>>

Reconcile == (\E n \in Names : Get(n)) \/ Look \/ SetStatus

\* SetupWithManager: For, without predicates, and nothing else.
Inform ==
  /\ events # {}
  /\ cache' = object
  /\ events' = {}
  /\ queue' = queue \cup events
  /\ UNCHANGED <<object, world, worker, serial, ops>>

Restart ==
  /\ "restart" \in Ops /\ Operation
  /\ worker' = Idle
  /\ cache' = object
  /\ events' = {}
  /\ queue' = {n \in Names : object[n] # None}
  /\ UNCHANGED <<object, world, serial>>

ApiError ==
  /\ "apiError" \in Ops /\ Operation
  /\ worker.pc # "idle"
  /\ Requeue
  /\ UNCHANGED <<object, world, cache, events, serial>>

Next == User \/ Reconcile \/ Inform \/ Restart \/ ApiError

Spec == Init /\ [][Next]_vars

\* The worker goroutine runs, the watch delivers, and the workqueue is first-in
\* first-out.
Fairness == /\ WF_vars(Look \/ SetStatus) /\ WF_vars(Inform)
            /\ \A n \in Names : SF_vars(Get(n))

FairSpec == Spec /\ Fairness

-----------------------------------------------------------------------------
(* Properties *)

Reports == {Judge(s, w) : s \in Specs, w \in Worlds}

Statuses == [observed : Nat, report : Reports \cup {None}]

Objects == [uid : Nat, generation : Nat, spec : Specs, status : Statuses]

\* Every variable has a value of its kind, and the worker has a report exactly
\* when it is about to write it.
TypeOK ==
  /\ object \in [Names -> Objects \cup {None}]
  /\ world \in Worlds
  /\ cache \in [Names -> Objects \cup {None}]
  /\ events \subseteq Names /\ queue \subseteq Names
  /\ \/ worker = Idle
     \/ /\ worker \in [pc : {"look", "setStatus"}, name : Names, object : Objects,
                       fresh : BOOLEAN, report : Reports \cup {None}]
        /\ worker.pc = "look" => worker.report = None
  /\ serial \in Nat /\ ops \in 0 .. MaxOps

\* setReady, optimistic concurrency: a status that claims the current generation
\* reports on the current spec, not on one that was edited, or deleted and made
\* again under the same name, while the reconcile was in progress.
StatusDescribesSpec ==
  \A n \in Names :
    object[n] # None /\ object[n].status.observed = object[n].generation =>
      \E w \in Worlds : object[n].status.report = Judge(object[n].spec, w)

\* SetupWithManager and the error returns lose no request: when nothing is queued,
\* in progress or on its way, every status is of the current generation, whatever
\* edits, conflicts, failed calls and restarts came before.
ObservedAtRest ==
  worker = Idle /\ queue = {} /\ events = {} =>
    \A n \in Names : object[n] # None => object[n].status.observed = object[n].generation

=============================================================================

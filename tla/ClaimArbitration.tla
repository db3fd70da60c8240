-------------------------- MODULE ClaimArbitration --------------------------
(***************************************************************************)
(* What the one-pod-per-PVC rule of ADR-0007 promises, without saying how. *)
(* A service is granted a trusted-store claim, which is then nobody else's *)
(* until the service gives it up; workloads from outside hold claims too,  *)
(* and the operator waits until they leave; and no service is told of a    *)
(* conflict while it has its claim.  InferenceServiceProperties shows the  *)
(* reconciler with its guard to implement this.                            *)
(***************************************************************************)

CONSTANTS Services, Claims

VARIABLES granted,   \* the claims each service has
          outside,   \* the claims that others hold
          refused    \* the services that are told of a conflict

Init == /\ granted = [s \in Services |-> {}]
        /\ outside \in SUBSET Claims
        /\ refused = {}

Free(s, claims) ==
  claims \cap outside = {} /\ \A t \in Services \ {s} : granted[t] \cap claims = {}

\* A service that takes the place of a workload from outside ends what that one held.
Grant(s, claims) ==
  /\ Free(s, claims)
  /\ granted' = [granted EXCEPT ![s] = claims]
  /\ outside' \in SUBSET outside
  /\ UNCHANGED refused

Leave == /\ outside' \in SUBSET outside
         /\ UNCHANGED <<granted, refused>>

Refuse(s) == /\ granted[s] = {}
             /\ refused' = refused \cup {s}
             /\ UNCHANGED <<granted, outside>>

Reconsider(s) == /\ refused' = refused \ {s}
                 /\ UNCHANGED <<granted, outside>>

\* Being granted nothing is giving up what one had.
Next == \/ \E s \in Services : \/ \E claims \in SUBSET Claims : Grant(s, claims)
                               \/ Refuse(s) \/ Reconsider(s)
        \/ Leave

Spec == Init /\ [][Next]_<<granted, outside, refused>>

=============================================================================

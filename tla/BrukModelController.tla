------------------------ MODULE BrukModelController -------------------------
(***************************************************************************)
(* operator/internal/controller/brukmodel_controller.go: validates a       *)
(* BrukModel.  Worlds are the Secrets of the namespace: for each name,     *)
(* None or the set of the keys that have data.  A source is None or the    *)
(* huggingFace record; its tokenSecretRef is None or a name and a key.     *)
(***************************************************************************)
EXTENDS StatusReconciler

\* The Secret is read only for a spec with a token reference.
ReadsSecret(spec) == spec.source # None /\ spec.source.tokenSecretRef # None

\* Is the token there: a Secret of that name, with data under that key.
TokenPresent(ref, secrets) == secrets[ref.name] # None /\ ref.key \in secrets[ref.name]

\* The reason of the Ready condition, which determines its status.
Ready(spec, secrets) ==
  CASE spec.source = None -> "InvalidConfig"
    [] spec.source # None /\ ReadsSecret(spec)
         /\ ~TokenPresent(spec.source.tokenSecretRef, secrets) -> "TokenSecretMissing"
    [] OTHER -> IF spec.source.revision = None THEN "UnpinnedRevision" ELSE "Valid"

\* "Ready means the spec validated and, if a token secret is referenced, it
\* exists" (BrukModelStatus.Conditions).  Secrets are not watched, so a status can
\* be about a Secret of the past; but a model that is created, edited or otherwise
\* changed after the Secrets last did gets a Ready condition that is right.
ReadyTracksToken ==
  \A n \in Names, secrets \in Worlds :
    n \in events /\ [](world = secrets) ~>
      object[n] = None \/
        /\ object[n].status.observed = object[n].generation
        /\ object[n].status.report \in {"Valid", "UnpinnedRevision"} <=>
             /\ object[n].spec.source # None
             /\ ReadsSecret(object[n].spec)
                  => TokenPresent(object[n].spec.source.tokenSecretRef, secrets)

=============================================================================

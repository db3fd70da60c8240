---------------------------- MODULE MCBrukModel -----------------------------
(* Constants of the TLC runs of BrukModelController. *)
EXTENDS BrukModelController

Source(revision, ref) == [revision |-> revision, tokenSecretRef |-> ref]

Token == [name |-> "hf-token", key |-> "token"]

\* No source, as where the CRD's CEL rule is not enforced; a pinned or unpinned revision, gated or not.
MCSpecs == {[source |-> None]}
           \cup {[source |-> Source(r, t)] : r \in {None, "commit"}, t \in {None, Token}}

\* No Secret, a Secret without the key, a Secret with it.
MCWorlds == {[s \in {"hf-token"} |-> keys] : keys \in {None, {}, {"token"}}}

=============================================================================

------------------------ MODULE MCInferenceService -------------------------
(* Constants of the TLC runs of InferenceServiceProperties. *)
EXTENDS InferenceServiceProperties, TLC

CONSTANTS c1, c2   \* two trusted-store claims

Pair == [limit |-> "8", request |-> None]

Service1(claim, len, weights) ==
  [modelRef |-> "m", quantization |-> None, maxModelLen |-> len, gpuPercent |-> 90,
   memory |-> Pair, cpu |-> Pair, claim |-> claim, localVolume |-> FALSE,
   weightsCache |-> weights, cacheLimit |-> None, failureThreshold |-> None]

LocalVolume == [Service1(None, 256, FALSE) EXCEPT !.localVolume = TRUE]

Source == [repo |-> "r", revision |-> None, tokenSecretRef |-> None]

ModelOf(source, len) == [source |-> source, servedName |-> None, contextLength |-> len]

TenantOf(initData) == [defaultImage |-> "image", initData |-> initData]

MCModels == {"m"}

-----------------------------------------------------------------------------
(* Two CRs that may name the same claim *)

SharedSpecs    == [n \in Names |-> {Service1(c1, 256, FALSE), Service1(c2, 256, FALSE)}]
ContestedSpecs == [n \in Names |-> {Service1(c1, 256, FALSE)}]
ResizedSpecs   == [n \in Names |-> {Service1(c1, 256, FALSE)}
                                 \cup IF n = 1 THEN {Service1(c1, 512, FALSE)} ELSE {}]
GoodModels     == {ModelOf(Source, 256)}
GoodTenants    == {TenantOf("a")}

\* Both claims are in every name's specs, and nothing orders them.
ClaimSymmetry == Permutations({c1, c2})

-----------------------------------------------------------------------------
(* CRs with a claim each; models and tenants that come, go and are invalid *)

OwnClaim(n)   == IF n = 1 THEN c1 ELSE c2
OwnSpecs      == [n \in Names |-> {Service1(OwnClaim(n), 256, FALSE),
                                   Service1(OwnClaim(n), 512, TRUE), LocalVolume}]
\* The CR moves from one claim to the other, also by being made again.
MovingSpecs   == [n \in Names |-> {Service1(c1, 256, FALSE), Service1(c2, 512, TRUE)}]
OneSpec       == [n \in Names |-> {Service1(OwnClaim(n), 256, FALSE)}]
VariedModels  == {ModelOf(Source, 256), ModelOf(Source, 512), ModelOf(None, 512)}
VariedTenants == {TenantOf("a"), TenantOf("b"), TenantOf(None)}
RoomyModels   == {ModelOf(Source, 512)}
TwoTenants    == {TenantOf("a"), TenantOf("b")}

=============================================================================

------------------------ MODULE BrukTenantController ------------------------
(***************************************************************************)
(* operator/internal/controller/bruktenant_controller.go: validates the    *)
(* cluster contract and publishes the hash of its initdata.  An initdata   *)
(* blob is None, the empty string, or a record: does it decode from        *)
(* base64, the bytes it decodes to, and whether these are a whole gzip     *)
(* stream, which the guest finds out when it unpacks them and the code     *)
(* does not look at.  The reconcile reads nothing but the BrukTenant, of   *)
(* which there is one.                                                     *)
(***************************************************************************)
EXTENDS Render

CONSTANTS Specs, Ops, MaxOps   \* as in StatusReconciler

VARIABLES object, cache, events, queue, worker, serial, ops

BrukTenantName == "cluster"

ReadsNothingElse(spec) == FALSE

\* base64.StdEncoding.DecodeString: the empty string decodes to nothing.
Decoded(blob) ==
  IF blob = None THEN [base64 |-> TRUE, raw |-> <<>>, gzip |-> FALSE] ELSE blob

\* Whatever decodes.
validateInitData_AnyBytes(blob) == Decoded(blob).base64

\* Base64 of something that starts with the gzip magic 1f 8b.
validateInitData(blob) ==
  LET d == Decoded(blob)
  IN  d.base64 /\ Len(d.raw) >= 2 /\ d.raw[1] = 31 /\ d.raw[2] = 139

TenantReport(spec, w) ==
  [ready |-> IF validateInitData(spec.initData) THEN "Valid" ELSE "InvalidConfig",
   hash  |-> InitDataHash(spec.initData)]

INSTANCE StatusReconciler
  WITH Names <- {BrukTenantName}, Worlds <- {<<>>}, world <- <<>>,
       Asks <- ReadsNothingElse, Judge <- TenantReport

\* Bytes of a TOML file: no control characters but tab and the ends of lines.
TomlText(raw) ==
  \A i \in 1 .. Len(raw) : raw[i] \in {9, 10, 13} \/ (raw[i] >= 32 /\ raw[i] # 127)

\* The BrukTenant's status is of its current generation.
Current(bt) == bt # None /\ bt.status.observed = bt.generation

\* "kubectl get bt must answer: is the cluster config sane" (Reconcile): a status
\* of the current generation has the hash of the blob the object has, says Valid of
\* every blob that a guest can unpack, and of none that is no base64 or that is
\* "plain base64 of the TOML" (validateInitData).  Of other bytes that a guest
\* cannot unpack it promises nothing: "base64-decodable gzip" is tested by the magic.
TenantHonest ==
  LET bt == object[BrukTenantName]
  IN  Current(bt) =>
        LET d == Decoded(bt.spec.initData)
        IN  /\ bt.status.report.hash = InitDataHash(bt.spec.initData)
            /\ d.base64 /\ d.gzip => bt.status.report.ready = "Valid"
            /\ bt.status.report.ready = "Valid" => d.base64 /\ ~TomlText(d.raw)

=============================================================================

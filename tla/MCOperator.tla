----------------------------- MODULE MCOperator -----------------------------
(* Constants of the TLC run of Operator. *)
EXTENDS Operator, MCInferenceService

Blob(raw, gzip) == [base64 |-> TRUE, raw |-> raw, gzip |-> gzip]

\* gzip of nothing: header, an empty block, checksum and length.
Gzip == Blob(<<31, 139, 8, 0, 0, 0, 0, 0, 0, 3, 3, 0, 0, 0, 0, 0, 0, 0, 0, 0>>, TRUE)

\* A TOML file that was not compressed: a comment sign.
PlainToml == Blob(<<35>>, FALSE)

BlobTenants == {TenantOf(b) : b \in {Gzip, PlainToml}}

=============================================================================

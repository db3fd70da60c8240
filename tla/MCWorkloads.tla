---------------------------- MODULE MCWorkloads -----------------------------
(* The Pods with the constants of the TLC runs of the core. *)
EXTENDS Workloads, MCInferenceService

=============================================================================

---------------------------- MODULE MCAuditChain -----------------------------
(***************************************************************************)
(* AuditChain and AuditReaders for TLC.  Liveness is checked together with *)
(* the safety properties, hence without symmetry.                          *)
(***************************************************************************)
EXTENDS AuditReaders
==============================================================================

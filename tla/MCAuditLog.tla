----------------------------- MODULE MCAuditLog -----------------------------
(* Constants of AuditLog for TLC: two records that unmarshal, one that     *)
(* does not, and a one-slot auditC, so that a send can find it full.       *)
EXTENDS AuditLog
=============================================================================

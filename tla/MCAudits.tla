------------------------------ MODULE MCAudits ------------------------------
(* Small instances of Audits for TLC. *)
EXTENDS Audits

AuditSymmetry == Permutations(Batches) \cup Permutations(Clerks)
=============================================================================

--------------------------- MODULE MCMaintenance ---------------------------
(* A small instance of Maintenance for TLC. *)
EXTENDS Maintenance
=============================================================================

--------------------------- MODULE MCMasterInbox ---------------------------
(* Small instances of MasterInbox for TLC. *)
EXTENDS MasterInbox, TLC

PollerSymmetry == Permutations(Pollers)
=============================================================================

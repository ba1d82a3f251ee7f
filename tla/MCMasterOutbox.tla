--------------------------- MODULE MCMasterOutbox ---------------------------
(* Small instances of MasterOutbox for TLC. *)
EXTENDS MasterOutbox, TLC

PusherSymmetry == Permutations(Pushers)

MCErrors == {Reply(503, ""), Reply(409, "DOMAIN_CONFLICT")}
=============================================================================

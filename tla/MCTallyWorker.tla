--------------------------- MODULE MCTallyWorker ---------------------------
(* A small instance of TallyWorker for TLC. *)
EXTENDS TallyWorker
=============================================================================

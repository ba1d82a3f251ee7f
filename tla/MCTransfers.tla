---------------------------- MODULE MCTransfers ----------------------------
EXTENDS Transfers, TLC

CONSTANTS a, b, t1, t2

\* Stock goes from a to b and may come back.
ReturnSource == t1 :> a @@ t2 :> b
ReturnDest == t1 :> b @@ t2 :> a

AtA == [s \in Serials |-> a]
OneProduct == [s \in Serials |-> CHOOSE p \in Products : TRUE]

Symmetry == Permutations(Serials) \cup Permutations(Clerks)
=============================================================================

---------------------------- MODULE MCWarehouse ----------------------------
(* A small instance of Warehouse for TLC. *)
EXTENDS Warehouse, TLC

\* The unit of the first label expires last.
WarehouseExpiry == [s \in Serials |-> IF s = 1 THEN 2 ELSE 1]

\* Both serials or a scanned one from no location, the one that expires first from
\* the others.
WarehouseItems ==
    {[from |-> None, quantity |-> 2, serial |-> None],
     [from |-> None, quantity |-> 1, serial |-> 1]}
    \cup {[from |-> l, quantity |-> 1, serial |-> None] : l \in Locations}

WarehouseSymmetry == Permutations(Clerks) \cup Permutations(Locations)
=============================================================================

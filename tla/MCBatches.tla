----------------------------- MODULE MCBatches -----------------------------
EXTENDS Batches, TLC

CONSTANTS s1, s2, buy, sell, undo, audit

MCExpiry == s1 :> 1 @@ s2 :> 2

\* Goods come in, go out to a customer, come back and are counted.
MCType == buy :> "PURCHASE" @@ sell :> "SALE" @@ undo :> "SALES_RETURN"
          @@ audit :> "AUDIT"
TypeOfBatches == [b \in Batches |-> MCType[b]]
MCStatus == s1 :> "GENERATED" @@ s2 :> "IN_STOCK"

ClerkSymmetry == Permutations(Clerks)
=============================================================================

---------------------------- MODULE MCEnrollment ----------------------------
EXTENDS Enrollment, TLC

CONSTANTS n1, n2, n3

\* n1 and n2 have one code at two Masters; n3 is another franchise.
MCCode == n1 :> "X" @@ n2 :> "X" @@ n3 :> "Y"
MCOrigin == n1 :> "east" @@ n2 :> "west" @@ n3 :> "east"

AdminSymmetry == Permutations(Admins)
=============================================================================

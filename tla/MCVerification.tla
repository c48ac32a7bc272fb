--------------------------- MODULE MCVerification ---------------------------
EXTENDS Verification
CONSTANTS i1, i2
AllReachable == {Issuers}
Symmetry == Permutations(Issuers)
=============================================================================

-------------------------- MODULE MCPrivateHashing --------------------------
EXTENDS PrivateHashing, TLC
Symmetry == Permutations(Signers) \cup Permutations(Lookups)
=============================================================================

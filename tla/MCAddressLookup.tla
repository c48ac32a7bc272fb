-------------------------- MODULE MCAddressLookup --------------------------
EXTENDS AddressLookup, TLC
Symmetry == Permutations(Fetches)
=============================================================================
